----------------------------- MODULE SyncProofs -----------------------------
(***************************************************************************)
(* Proofs about the locks and the primitives of lab05 in MCSync, for any   *)
(* sets of threads.                                                        *)
(***************************************************************************)
EXTENDS MCSync, Sequences, FiniteSetTheorems, TLAPS

(* The word is 0 exactly when nobody holds the lock, and holders are one. *)
LockInv ==
    /\ TypeOK
    /\ state = 0 <=> Holders = {}
    /\ \A t, u \in Holders : t = u

(* LockInv holds initially. *)
LEMMA LockInit == Init => LockInv
  BY DEF Init, LockInv, TypeOK, Places, Holders, At

(* A move of one thread between places outside the lock, or inside it. *)
LEMMA Move ==
    ASSUME LockInv, NEW t \in Threads, NEW place \in Places, Goto(t, place),
           c' \in [Threads -> 0..2],
           \/ /\ pc[t] \notin {"cs", "store0"} /\ place \notin {"cs", "store0"}
              /\ state' \in 0..2 /\ (state' = 0 <=> state = 0)
           \/ /\ pc[t] \in {"cs", "store0"} /\ place \in {"cs", "store0"}
              /\ state' \in 1..2
           \/ /\ pc[t] \notin {"cs", "store0"} /\ place \in {"cs", "store0"}
              /\ state = 0 /\ state' \in 1..2
           \/ /\ pc[t] \in {"cs", "store0"} /\ place \notin {"cs", "store0"}
              /\ state' = 0
    PROVE  LockInv'
  <1>1. pc' \in [Threads -> Places] /\ pc'[t] = place /\ \A u \in Threads : u # t => pc'[u] = pc[u]
    BY DEF LockInv, TypeOK, Goto
  <1>2. TypeOK'
    BY <1>1 DEF LockInv, TypeOK
  <1>3. (state' = 0 <=> Holders' = {}) /\ \A u, w \in Holders' : u = w
    BY <1>1 DEF LockInv, Holders, At
  <1>. QED  BY <1>2, <1>3 DEF LockInv

(* LockInv is inductive. *)
LEMMA LockStep ==
    ASSUME LockInv, [Next]_vars
    PROVE  LockInv'
  <1>. USE DEF Places
  <1>1. CASE UNCHANGED vars
    BY <1>1 DEF vars, LockInv, TypeOK, Holders, At
  <1>2. ASSUME NEW t \in Threads, Enter(t)
        PROVE  LockInv'
    BY <1>2, Move DEF Enter, LockInv, TypeOK
  <1>3. ASSUME NEW t \in Threads, FirstCas(t)
        PROVE  LockInv'
    <2>1. c' \in [Threads -> 0..2]
      BY <1>3 DEF FirstCas, LockInv, TypeOK
    <2>2. CASE state = 0
      BY <1>3, <2>1, <2>2, Move DEF FirstCas
    <2>3. CASE state # 0
      BY <1>3, <2>1, <2>3, Move DEF FirstCas, LockInv, TypeOK
    <2>. QED  BY <2>2, <2>3
  <1>4. ASSUME NEW t \in Threads, Check(t)
        PROVE  LockInv'
    <2>1. c' \in [Threads -> 0..2]
      BY <1>4 DEF Check, LockInv, TypeOK
    <2>2. state' \in 0..2 /\ (state' = 0 <=> state = 0)
      BY <1>4 DEF Check, LockInv, TypeOK
    <2>3. Goto(t, "wait") \/ Goto(t, "retry")
      BY <1>4 DEF Check
    <2>. QED  BY <1>4, <2>1, <2>2, <2>3, Move DEF Check
  <1>5. ASSUME NEW t \in Threads, FutexWait(t)
        PROVE  LockInv'
    <2>1. Goto(t, "asleep") \/ Goto(t, "retry")
      BY <1>5 DEF FutexWait
    <2>. QED  BY <1>5, <2>1, Move DEF FutexWait, LockInv, TypeOK
  <1>6. ASSUME NEW t \in Threads, Interrupted(t)
        PROVE  LockInv'
    BY <1>6, Move DEF Interrupted, LockInv, TypeOK
  <1>7. ASSUME NEW t \in Threads, Retry(t)
        PROVE  LockInv'
    <2>1. c' \in [Threads -> 0..2]
      BY <1>7 DEF Retry, LockInv, TypeOK
    <2>2. CASE state = 0
      BY <1>7, <2>1, <2>2, Move DEF Retry
    <2>3. CASE state # 0
      BY <1>7, <2>1, <2>3, Move DEF Retry, LockInv, TypeOK
    <2>. QED  BY <2>2, <2>3
  <1>8. ASSUME NEW t \in Threads, FetchSub(t)
        PROVE  LockInv'
    <2>1. state \in 1..2 /\ c' \in [Threads -> 0..2]
      BY <1>8 DEF FetchSub, LockInv, TypeOK, Holders, At
    <2>2. CASE state = 1
      BY <1>8, <2>1, <2>2, Move DEF FetchSub
    <2>3. CASE state = 2
      BY <1>8, <2>1, <2>3, Move DEF FetchSub
    <2>. QED  BY <2>1, <2>2, <2>3
  <1>9. ASSUME NEW t \in Threads, StoreZero(t)
        PROVE  LockInv'
    BY <1>9, Move DEF StoreZero, LockInv, TypeOK
  <1>10. ASSUME NEW t \in Threads, FutexWake(t)
         PROVE  LockInv'
    <2>1. CASE Goto(t, "out")
      BY <1>10, <2>1, Move DEF FutexWake, LockInv, TypeOK
    <2>2. CASE ~Goto(t, "out")
      <3>1. PICK s \in At({"asleep"}) : pc' = [pc EXCEPT ![t] = "out", ![s] = "retry"]
        BY <1>10, <2>2 DEF FutexWake
      <3>2. /\ pc' \in [Threads -> Places]
            /\ \A u \in Threads : pc'[u] \in {"cs", "store0"} <=> pc[u] \in {"cs", "store0"}
        BY <1>10, <3>1 DEF FutexWake, LockInv, TypeOK, At
      <3>3. Holders' = Holders
        BY <3>2 DEF Holders, At
      <3>. QED  BY <1>10, <3>2, <3>3 DEF FutexWake, LockInv, TypeOK
    <2>. QED  BY <2>1, <2>2
  <1>. QED
    BY <1>1, <1>2, <1>3, <1>4, <1>5, <1>6, <1>7, <1>8, <1>9, <1>10 DEF Next, Step

(* TypeOK is an invariant of the sleeping lock. *)
THEOREM TypeCorrect == Spec => []TypeOK
  <1>1. LockInv => TypeOK
    BY DEF LockInv
  <1>. QED  BY <1>1, LockInit, LockStep, PTL DEF Spec

-----------------------------------------------------------------------------
(* Parked threads.                                                         *)

CoverInv == LockInv /\ SleepersCovered

(* One move of a thread that keeps every other thread where it is. *)
LEMMA CoverMove ==
    ASSUME CoverInv, NEW t \in Threads, NEW place \in Places, Goto(t, place),
           \/ state' = 2
           \/ place \in {"check", "wait", "retry", "store0", "wake"}
           \/ /\ pc[t] \in {"out", "cas01"} /\ place \in {"cas01", "cs"}
              /\ state # 2
           \/ /\ pc[t] \in {"out", "cas01"} /\ place = "cas01" /\ state' = state
           \/ /\ pc[t] = "cs" /\ state # 2 /\ place = "out"
    PROVE  SleepersCovered'
  <1>1. pc'[t] = place /\ \A u \in Threads : u # t => pc'[u] = pc[u]
    BY DEF CoverInv, LockInv, TypeOK, Goto
  <1>. QED
    BY <1>1 DEF CoverInv, SleepersCovered, Contenders, At

(* CoverInv is inductive: a thread stops contending only by parking on a   *)
(* word that says 2 or by taking the lock with a word that says 2.         *)
LEMMA CoverStep ==
    ASSUME CoverInv, [Next]_vars
    PROVE  CoverInv'
  <1>1. LockInv'
    BY LockStep DEF CoverInv
  <1>. SUFFICES SleepersCovered'
    BY <1>1 DEF CoverInv
  <1>. USE DEF Places
  <1>2. CASE UNCHANGED vars
    BY <1>2 DEF vars, CoverInv, SleepersCovered, Contenders, At
  <1>3. ASSUME NEW t \in Threads, Enter(t)
        PROVE  SleepersCovered'
    BY <1>3, CoverMove DEF Enter
  <1>4. ASSUME NEW t \in Threads, FirstCas(t)
        PROVE  SleepersCovered'
    <2>1. CASE state = 0
      BY <1>4, <2>1, CoverMove DEF FirstCas
    <2>2. CASE state # 0
      BY <1>4, <2>2, CoverMove DEF FirstCas
    <2>. QED  BY <2>1, <2>2
  <1>5. ASSUME NEW t \in Threads, Check(t)
        PROVE  SleepersCovered'
    <2>1. Goto(t, "wait") \/ Goto(t, "retry")
      BY <1>5 DEF Check
    <2>. QED  BY <2>1, CoverMove
  <1>6. ASSUME NEW t \in Threads, FutexWait(t)
        PROVE  SleepersCovered'
    <2>1. CASE state = 2
      BY <1>6, <2>1, CoverMove DEF FutexWait
    <2>2. CASE state # 2
      BY <1>6, <2>2, CoverMove DEF FutexWait
    <2>. QED  BY <2>1, <2>2
  <1>7. ASSUME NEW t \in Threads, Interrupted(t)
        PROVE  SleepersCovered'
    BY <1>7, CoverMove DEF Interrupted
  <1>8. ASSUME NEW t \in Threads, Retry(t)
        PROVE  SleepersCovered'
    <2>1. CASE state = 0
      BY <1>8, <2>1, CoverMove DEF Retry
    <2>2. CASE state # 0
      BY <1>8, <2>2, CoverMove DEF Retry
    <2>. QED  BY <2>1, <2>2
  <1>9. ASSUME NEW t \in Threads, FetchSub(t)
        PROVE  SleepersCovered'
    <2>1. CASE state = 1
      BY <1>9, <2>1, CoverMove DEF FetchSub
    <2>2. CASE state # 1
      BY <1>9, <2>2, CoverMove DEF FetchSub
    <2>. QED  BY <2>1, <2>2
  <1>10. ASSUME NEW t \in Threads, StoreZero(t)
         PROVE  SleepersCovered'
    BY <1>10, CoverMove DEF StoreZero
  <1>11. ASSUME NEW t \in Threads, FutexWake(t)
         PROVE  SleepersCovered'
    <2>1. CASE At({"asleep"}) = {}
      <3>1. At({"asleep"})' = {}
        BY <1>11, <2>1 DEF FutexWake, Goto, At, CoverInv, LockInv, TypeOK
      <3>. QED  BY <3>1 DEF SleepersCovered
    <2>2. CASE At({"asleep"}) # {}
      <3>1. PICK s \in At({"asleep"}) : pc' = [pc EXCEPT ![t] = "out", ![s] = "retry"]
        BY <1>11, <2>2 DEF FutexWake
      <3>2. s \in Threads /\ pc'[s] = "retry"
        BY <3>1 DEF At, CoverInv, LockInv, TypeOK
      <3>. QED  BY <3>2 DEF SleepersCovered, Contenders, At
    <2>. QED  BY <2>1, <2>2
  <1>. QED
    BY <1>2, <1>3, <1>4, <1>5, <1>6, <1>7, <1>8, <1>9, <1>10, <1>11 DEF Next, Step

(* The futex protocol loses no wake-up, for any number of threads. *)
THEOREM NobodyForgotten == Spec => []SleepersCovered
  <1>1. Init => CoverInv
    BY LockInit DEF CoverInv, Init, SleepersCovered, At
  <1>2. CoverInv => SleepersCovered
    BY DEF CoverInv
  <1>. QED  BY <1>1, <1>2, CoverStep, PTL DEF Spec

-----------------------------------------------------------------------------
(* The refinement.                                                         *)

(* Moving t into the lock acquires it, moving it out releases it. *)
LEMMA MutexMove ==
    ASSUME LockInv, LockInv', NEW t \in Threads, NEW place \in Places, Goto(t, place),
           place \in {"cs", "store0"} => state = 0 \/ pc[t] \in {"cs", "store0"}
    PROVE  Acquire(t) \/ Release(t) \/ Holders' = Holders
  <1>1. pc'[t] = place /\ \A u \in Threads : u # t => pc'[u] = pc[u]
    BY DEF LockInv, TypeOK, Goto
  <1>2. CASE pc[t] \in {"cs", "store0"} /\ place \in {"cs", "store0"}
    <2>1. Holders' = Holders
      BY <1>1, <1>2 DEF Holders, At
    <2>. QED  BY <2>1
  <1>3. CASE pc[t] \notin {"cs", "store0"} /\ place \notin {"cs", "store0"}
    <2>1. Holders' = Holders
      BY <1>1, <1>3 DEF Holders, At
    <2>. QED  BY <2>1
  <1>4. CASE pc[t] \notin {"cs", "store0"} /\ place \in {"cs", "store0"}
    <2>1. Holders = {} /\ Holders' = {t}
      BY <1>1, <1>4 DEF LockInv, Holders, At
    <2>. QED  BY <2>1 DEF Acquire
  <1>5. CASE pc[t] \in {"cs", "store0"} /\ place \notin {"cs", "store0"}
    <2>1. Holders = {t}
      BY <1>5 DEF LockInv, Holders, At
    <2>2. Holders' = {}
      BY <1>1, <1>5, <2>1 DEF LockInv, Holders, At
    <2>. QED  BY <2>1, <2>2 DEF Release
  <1>. QED  BY <1>2, <1>3, <1>4, <1>5

(* Every step of the sleeping lock acquires, releases or leaves alone. *)
LEMMA MutexStep ==
    ASSUME LockInv, LockInv', [Next]_vars
    PROVE  [\E t \in Threads : Acquire(t) \/ Release(t)]_Holders
  <1>. USE DEF Places
  <1>1. CASE UNCHANGED vars
    BY <1>1 DEF vars, Holders, At
  <1>2. ASSUME NEW t \in Threads, Enter(t) \/ Check(t) \/ FutexWait(t) \/ Interrupted(t)
        PROVE  Holders' = Holders
    <2>1. PICK place \in {"cas01", "wait", "retry", "asleep"} : Goto(t, place)
      BY <1>2 DEF Enter, Check, FutexWait, Interrupted
    <2>2. pc'[t] = place /\ \A u \in Threads : u # t => pc'[u] = pc[u]
      BY <2>1 DEF LockInv, TypeOK, Goto
    <2>3. pc[t] \notin {"cs", "store0"}
      BY <1>2 DEF Enter, Check, FutexWait, Interrupted
    <2>4. Holders' = Holders
      BY <2>2, <2>3 DEF Holders, At
    <2>. QED  BY <2>4
  <1>3. ASSUME NEW t \in Threads, FirstCas(t) \/ Retry(t)
        PROVE  Acquire(t) \/ Release(t) \/ Holders' = Holders
    <2>1. (state = 0 /\ Goto(t, "cs")) \/ Goto(t, "check")
      BY <1>3 DEF FirstCas, Retry
    <2>2. pc[t] \notin {"cs", "store0"}
      BY <1>3 DEF FirstCas, Retry
    <2>. QED  BY <2>1, <2>2, MutexMove
  <1>4. ASSUME NEW t \in Threads, FetchSub(t) \/ StoreZero(t)
        PROVE  Acquire(t) \/ Release(t) \/ Holders' = Holders
    <2>1. PICK place \in {"out", "store0", "wake"} : Goto(t, place)
      BY <1>4 DEF FetchSub, StoreZero
    <2>2. pc[t] \in {"cs", "store0"}
      BY <1>4 DEF FetchSub, StoreZero
    <2>. QED  BY <2>1, <2>2, MutexMove
  <1>5. ASSUME NEW t \in Threads, FutexWake(t)
        PROVE  Holders' = Holders
    <2>1. Holders' = Holders
      BY <1>5 DEF FutexWake, Goto, LockInv, TypeOK, Holders, At
    <2>. QED  BY <2>1
  <1>. QED
    BY <1>1, <1>2, <1>3, <1>4, <1>5 DEF Next, Step

(* The futex word implements a mutex: the release that wakes and the       *)
(* acquire that does not sleep included.                                   *)
THEOREM Refinement == Spec => ImplementsMutex
  <1>1. Init => Holders = {}
    BY DEF Init, Holders, At
  <1>. QED
    BY <1>1, LockInit, LockStep, MutexStep, PTL DEF Spec, ImplementsMutex, Mutex

-----------------------------------------------------------------------------
(* SpinLocks, for any threads that the counters can tell apart.            *)

SpSizes == IsFiniteSet(Threads) /\ TicketMod \in Nat /\ Cardinality(Threads) <= TicketMod

SpTypeInv ==
    /\ kind \in {"tas", "ticket"}
    /\ flag \in {0, 1}
    /\ serving \in Nat /\ (Threads # {} => serving < TicketMod)
    /\ spinPc \in [Threads -> {"out", "xchg", "spin", "cs"}]
    /\ mine \in [Threads -> Nat]
    /\ arrivals \in Seq(Threads)

(* The flag is set while somebody has the lock. *)
SpTasInv ==
    kind = "tas" =>
        /\ \A t \in Threads : spinPc[t] = "cs" => flag = 1
        /\ Spin!OneHolder

(* The number n places after m. *)
SpPlus(m, n) == IF m + n < TicketMod THEN m + n ELSE m + n - TicketMod

(* The threads inside are the arrivals, once each; their numbers are those *)
(* from serving on; the holder is the first.                               *)
SpTicketInv ==
    kind = "ticket" =>
        /\ \A t \in Threads : spinPc[t] # "xchg"
        /\ \A j, k \in 1..Len(arrivals) : arrivals[j] = arrivals[k] => j = k
        /\ \A t \in Threads : spinPc[t] # "out" <=> \E j \in 1..Len(arrivals) : arrivals[j] = t
        /\ \A j \in 1..Len(arrivals) : mine[arrivals[j]] = SpPlus(serving, j - 1)
        /\ Threads # {} => ticket = SpPlus(serving, Len(arrivals))
        /\ \A t \in Threads : spinPc[t] = "cs" => arrivals[1] = t

SpIInv == SpTypeInv /\ SpTasInv /\ SpTicketInv

(* There are no more arrivals than threads. *)
LEMMA SpFew ==
    ASSUME SpSizes, NEW s \in Seq(Threads),
           \A j, k \in 1..Len(s) : s[j] = s[k] => j = k
    PROVE  Len(s) <= TicketMod
  <1>. DEFINE f == [j \in 1..Len(s) |-> s[j]]
  <1>0. Len(s) \in Nat /\ \A j \in 1..Len(s) : s[j] \in Threads
    OBVIOUS
  <1>1. f \in [1..Len(s) -> Threads]
    BY <1>0
  <1>2. f \in Injection(1..Len(s), Threads)
    BY <1>1 DEF Injection, IsInjective
  <1>3. Cardinality(1..Len(s)) <= Cardinality(Threads)
    BY <1>2, FS_Injection DEF SpSizes
  <1>4. Cardinality(1..Len(s)) = Len(s)
    <2>1. 1 \in Int /\ Len(s) \in Int
      BY <1>0
    <2>2. Cardinality(1..Len(s)) = IF 1 > Len(s) THEN 0 ELSE Len(s) - 1 + 1
      BY <2>1, FS_Interval
    <2>. QED  BY <1>0, <2>2
  <1>5. Cardinality(Threads) \in Nat
    BY FS_CardinalityType DEF SpSizes
  <1>. QED  BY <1>0, <1>3, <1>4, <1>5 DEF SpSizes

(* The counters wrap to 0. *)
LEMMA SpNext ==
    ASSUME NEW m \in Nat, NEW w \in Nat, m < w
    PROVE  (m + 1) % w = IF m + 1 < w THEN m + 1 ELSE 0
  <1>1. CASE m + 1 < w
    <2>1. m + 1 \in 0..(w - 1)
      BY <1>1
    <2>2. (m + 1) % w = m + 1
      BY <2>1, w > 0
    <2>. QED  BY <1>1, <2>2
  <1>2. CASE m + 1 = w
    <2>1. w % w = 0
      BY w > 0
    <2>. QED  BY <1>2, <2>1
  <1>. QED  BY <1>1, <1>2

LEMMA SpInit ==
    ASSUME SpSizes, Spin!Init PROVE SpIInv
  <1>1. IsFiniteSet(Threads) /\ (Threads # {} => TicketMod > 0)
    BY FS_CardinalityType, FS_EmptySet DEF SpSizes
  <1>. QED
    BY <1>1 DEF SpSizes, Spin!Init, SpIInv, SpTypeInv, SpTasInv, SpTicketInv, SpPlus, Spin!OneHolder

(* A move of one thread. *)
LEMMA SpMove ==
    ASSUME SpTypeInv, NEW t \in Threads, NEW place \in {"out", "xchg", "spin", "cs"},
           Spin!Goto(t, place)
    PROVE  /\ spinPc' \in [Threads -> {"out", "xchg", "spin", "cs"}]
           /\ spinPc'[t] = place /\ \A u \in Threads : u # t => spinPc'[u] = spinPc[u]
  BY DEF SpTypeInv, Spin!Goto

(* The steps of the test-and-set lock. *)
LEMMA SpTasStep ==
    ASSUME SpIInv, NEW t \in Threads,
           Spin!Enter(t) \/ Spin!Exchange(t) \/ Spin!LooksFree(t) \/ Spin!Clear(t)
    PROVE  SpIInv'
  <1>1. kind = "tas" /\ UNCHANGED <<kind, ticket, serving, mine, arrivals>>
    BY DEF SpIInv, SpTypeInv, SpTicketInv, Spin!Enter, Spin!Exchange, Spin!LooksFree, Spin!Clear,
           Spin!ticketVars
  <1>2. flag' \in {0, 1}
    BY DEF SpIInv, SpTypeInv, Spin!Enter, Spin!Exchange, Spin!LooksFree, Spin!Clear
  <1>3. PICK place \in {"out", "xchg", "spin", "cs"} : Spin!Goto(t, place)
    BY DEF Spin!Enter, Spin!Exchange, Spin!LooksFree, Spin!Clear
  <1>4. /\ spinPc' \in [Threads -> {"out", "xchg", "spin", "cs"}]
        /\ spinPc'[t] = place /\ \A u \in Threads : u # t => spinPc'[u] = spinPc[u]
    BY <1>3, SpMove DEF SpIInv
  <1>5. SpTypeInv'
    BY <1>1, <1>2, <1>4 DEF SpIInv, SpTypeInv
  <1>6. SpTasInv'
    <2>. USE DEF SpIInv, SpTypeInv, SpTasInv, Spin!OneHolder, Spin!Goto
    <2>1. CASE Spin!Enter(t)
      BY <1>1, <1>4, <2>1 DEF Spin!Enter
    <2>2. CASE Spin!Exchange(t)
      BY <1>1, <1>4, <2>2 DEF Spin!Exchange
    <2>3. CASE Spin!LooksFree(t)
      BY <1>1, <1>4, <2>3 DEF Spin!LooksFree
    <2>4. CASE Spin!Clear(t)
      BY <1>1, <1>4, <2>4 DEF Spin!Clear
    <2>. QED  BY <2>1, <2>2, <2>3, <2>4
  <1>. QED  BY <1>1, <1>5, <1>6 DEF SpIInv, SpTicketInv

(* A thread takes a number. *)
LEMMA SpTakeNumber ==
    ASSUME SpSizes, SpIInv, NEW t \in Threads, Spin!TakeNumber(t)
    PROVE  SpIInv'
  <1>1. /\ kind = "ticket" /\ spinPc[t] = "out"
        /\ mine' = [mine EXCEPT ![t] = ticket] /\ ticket' = (ticket + 1) % TicketMod
        /\ Spin!Goto(t, "spin") /\ arrivals' = Append(arrivals, t)
        /\ UNCHANGED <<kind, flag, serving>>
    BY DEF Spin!TakeNumber, Spin!tasVars
  <1>2. /\ spinPc' \in [Threads -> {"out", "xchg", "spin", "cs"}]
        /\ spinPc'[t] = "spin" /\ \A u \in Threads : u # t => spinPc'[u] = spinPc[u]
    BY <1>1, SpMove DEF SpIInv
  <1>. DEFINE n == Len(arrivals)
  <1>3. /\ n \in Nat /\ arrivals' \in Seq(Threads) /\ Len(arrivals') = n + 1
        /\ arrivals'[n + 1] = t
        /\ \A j \in 1..n : arrivals'[j] = arrivals[j] /\ arrivals[j] \in Threads
    BY <1>1 DEF SpIInv, SpTypeInv
  <1>4. /\ serving \in Nat /\ serving < TicketMod /\ TicketMod \in Nat
        /\ ticket = SpPlus(serving, n)
    BY <1>1 DEF SpIInv, SpTypeInv, SpTicketInv, SpSizes
  <1>5. \A j \in 1..n : arrivals[j] # t
    BY <1>1, <1>3 DEF SpIInv, SpTicketInv
  <1>6. \A j, k \in 1..(n + 1) : arrivals'[j] = arrivals'[k] => j = k
    BY <1>1, <1>3, <1>5 DEF SpIInv, SpTicketInv
  <1>7. n + 1 <= TicketMod
    <2>. HIDE DEF n
    <2>1. \A j, k \in 1..Len(arrivals') : arrivals'[j] = arrivals'[k] => j = k
      BY <1>3, <1>6
    <2>2. Len(arrivals') <= TicketMod
      BY <1>3, <2>1, SpFew
    <2>. QED  BY <1>3, <2>2
  <1>8. ticket \in Nat /\ ticket < TicketMod
    BY <1>3, <1>4, <1>7 DEF SpPlus
  <1>9. ticket' = SpPlus(serving, n + 1)
    <2>1. ticket' = IF ticket + 1 < TicketMod THEN ticket + 1 ELSE 0
      BY <1>1, <1>4, <1>8, SpNext
    <2>. QED  BY <1>3, <1>4, <1>7, <2>1 DEF SpPlus
  <1>10. mine' \in [Threads -> Nat] /\ mine'[t] = ticket /\ \A u \in Threads : u # t => mine'[u] = mine[u]
    BY <1>1, <1>8 DEF SpIInv, SpTypeInv
  <1>11. \A j \in 1..(n + 1) : mine'[arrivals'[j]] = SpPlus(serving, j - 1)
    <2>1. ASSUME NEW j \in 1..n PROVE mine'[arrivals'[j]] = SpPlus(serving, j - 1)
      <3>1. arrivals'[j] = arrivals[j] /\ arrivals[j] \in Threads /\ arrivals[j] # t
        BY <1>3, <1>5
      <3>2. mine[arrivals[j]] = SpPlus(serving, j - 1)
        BY <1>1 DEF SpIInv, SpTicketInv
      <3>. QED  BY <1>10, <3>1, <3>2
    <2>2. mine'[arrivals'[n + 1]] = SpPlus(serving, n + 1 - 1)
      BY <1>3, <1>4, <1>10
    <2>3. \A j \in 1..(n + 1) : j \in 1..n \/ j = n + 1
      BY <1>3
    <2>. QED  BY <2>1, <2>2, <2>3
  <1>12. \A u \in Threads : spinPc'[u] # "out" <=> \E j \in 1..(n + 1) : arrivals'[j] = u
    <2>1. \A u \in Threads : spinPc[u] # "out" <=> \E j \in 1..n : arrivals[j] = u
      BY <1>1 DEF SpIInv, SpTicketInv
    <2>2. \A j \in 1..(n + 1) : j \in 1..n \/ j = n + 1
      BY <1>3
    <2>3. n + 1 \in 1..(n + 1) /\ \A j \in 1..n : j \in 1..(n + 1)
      BY <1>3
    <2>. QED  BY <1>2, <1>3, <2>1, <2>2, <2>3
  <1>13. \A u \in Threads : spinPc'[u] = "cs" => arrivals'[1] = u
    <2>1. ASSUME NEW u \in Threads, spinPc'[u] = "cs" PROVE arrivals'[1] = u
      <3>1. spinPc[u] = "cs"
        BY <1>2, <2>1
      <3>2. arrivals[1] = u
        BY <1>1, <3>1 DEF SpIInv, SpTicketInv
      <3>3. \E j \in 1..n : arrivals[j] = u
        BY <1>1, <3>1 DEF SpIInv, SpTicketInv
      <3>. QED  BY <1>3, <3>2, <3>3
    <2>. QED  BY <2>1
  <1>14. SpTypeInv'
    BY <1>1, <1>2, <1>3, <1>10 DEF SpIInv, SpTypeInv
  <1>15. SpTicketInv'
    <2>1. \A u \in Threads : spinPc'[u] # "xchg"
      BY <1>1, <1>2 DEF SpIInv, SpTicketInv
    <2>. QED
      BY <1>1, <1>3, <1>6, <1>9, <1>11, <1>12, <1>13, <2>1 DEF SpTicketInv, SpPlus
  <1>. QED  BY <1>1, <1>14, <1>15 DEF SpIInv, SpTasInv

(* The number that is served is the first's. *)
LEMMA SpEnterCs ==
    ASSUME SpSizes, SpIInv, NEW t \in Threads, Spin!EnterCs(t)
    PROVE  SpIInv'
  <1>1. /\ kind = "ticket" /\ spinPc[t] = "spin" /\ serving = mine[t]
        /\ Spin!Goto(t, "cs") /\ UNCHANGED <<kind, flag, ticket, serving, mine, arrivals>>
    BY DEF Spin!EnterCs, Spin!ticketVars
  <1>2. /\ spinPc' \in [Threads -> {"out", "xchg", "spin", "cs"}]
        /\ spinPc'[t] = "cs" /\ \A u \in Threads : u # t => spinPc'[u] = spinPc[u]
    BY <1>1, SpMove DEF SpIInv
  <1>3. Len(arrivals) \in Nat /\ Len(arrivals) <= TicketMod /\ TicketMod \in Nat
    <2>1. arrivals \in Seq(Threads) /\ \A j, k \in 1..Len(arrivals) : arrivals[j] = arrivals[k] => j = k
      BY <1>1 DEF SpIInv, SpTypeInv, SpTicketInv
    <2>. QED  BY <2>1, SpFew DEF SpSizes
  <1>4. PICK j \in 1..Len(arrivals) : arrivals[j] = t
    BY <1>1 DEF SpIInv, SpTicketInv
  <1>5. serving = SpPlus(serving, j - 1) /\ serving \in Nat
    BY <1>1, <1>4 DEF SpIInv, SpTypeInv, SpTicketInv
  <1>6. j = 1
    BY <1>3, <1>5 DEF SpPlus
  <1>7. SpTypeInv'
    BY <1>1, <1>2 DEF SpIInv, SpTypeInv
  <1>8. SpTicketInv'
    <2>1. \A u \in Threads : spinPc'[u] = "cs" => arrivals[1] = u
      BY <1>1, <1>2, <1>4, <1>6 DEF SpIInv, SpTicketInv
    <2>2. \A u \in Threads : spinPc'[u] # "xchg" /\ (spinPc'[u] # "out" <=> spinPc[u] # "out")
      BY <1>1, <1>2 DEF SpIInv, SpTicketInv
    <2>. QED  BY <1>1, <2>1, <2>2 DEF SpIInv, SpTicketInv, SpPlus
  <1>. QED  BY <1>1, <1>7, <1>8 DEF SpIInv, SpTasInv

(* The holder goes, and takes its number along. *)
LEMMA SpCallNext ==
    ASSUME SpSizes, SpIInv, NEW t \in Threads, Spin!CallNext(t)
    PROVE  SpIInv'
  <1>. DEFINE n == Len(arrivals)
              i == CHOOSE k \in DOMAIN arrivals : arrivals[k] = t
  <1>1. /\ kind = "ticket" /\ spinPc[t] = "cs" /\ serving' = (serving + 1) % TicketMod
        /\ Spin!Goto(t, "out") /\ UNCHANGED <<kind, flag, ticket, mine>>
        /\ arrivals' = SubSeq(arrivals, 1, i - 1) \o SubSeq(arrivals, i + 1, n)
    BY DEF Spin!CallNext, Spin!tasVars
  <1>2. /\ spinPc' \in [Threads -> {"out", "xchg", "spin", "cs"}]
        /\ spinPc'[t] = "out" /\ \A u \in Threads : u # t => spinPc'[u] = spinPc[u]
    BY <1>1, SpMove DEF SpIInv
  <1>3. n \in Nat /\ DOMAIN arrivals = 1..n /\ n <= TicketMod /\ TicketMod \in Nat /\ arrivals \in Seq(Threads)
    <2>1. arrivals \in Seq(Threads) /\ \A j, k \in 1..n : arrivals[j] = arrivals[k] => j = k
      BY <1>1 DEF SpIInv, SpTypeInv, SpTicketInv
    <2>. QED  BY <2>1, SpFew DEF SpSizes
  <1>4. arrivals[1] = t /\ n >= 1
    BY <1>1, <1>3 DEF SpIInv, SpTicketInv
  <1>5. i = 1
    <2>1. 1 \in DOMAIN arrivals /\ arrivals[1] = t
      BY <1>3, <1>4
    <2>2. i \in DOMAIN arrivals /\ arrivals[i] = t
      BY <2>1
    <2>. QED  BY <1>1, <1>3, <2>1, <2>2 DEF SpIInv, SpTicketInv
  <1>. HIDE DEF i
  <1>6. /\ arrivals' \in Seq(Threads) /\ Len(arrivals') = n - 1
        /\ \A j \in 1..(n - 1) : arrivals'[j] = arrivals[j + 1]
    <2>1. arrivals' = SubSeq(arrivals, 1, 0) \o SubSeq(arrivals, 2, n)
      BY <1>1, <1>5
    <2>2. SubSeq(arrivals, 1, 0) = <<>>
      BY <1>3
    <2>3. /\ SubSeq(arrivals, 2, n) \in Seq(Threads) /\ Len(SubSeq(arrivals, 2, n)) = n - 1
          /\ \A j \in 1..(n - 1) : SubSeq(arrivals, 2, n)[j] = arrivals[j + 1]
      BY <1>3, <1>4
    <2>. HIDE DEF n
    <2>. QED  BY <2>1, <2>2, <2>3
  <1>7. /\ serving \in Nat /\ serving < TicketMod
        /\ serving' = IF serving + 1 < TicketMod THEN serving + 1 ELSE 0
    <2>1. serving \in Nat /\ serving < TicketMod
      BY DEF SpIInv, SpTypeInv
    <2>. QED  BY <1>1, <1>3, <2>1, SpNext
  <1>8. \A j, k \in 1..(n - 1) : arrivals'[j] = arrivals'[k] => j = k
    <2>1. ASSUME NEW j \in 1..(n - 1), NEW k \in 1..(n - 1), arrivals'[j] = arrivals'[k] PROVE j = k
      <3>1. j + 1 \in 1..n /\ k + 1 \in 1..n /\ arrivals[j + 1] = arrivals[k + 1]
        BY <1>3, <1>6, <2>1
      <3>2. j + 1 = k + 1
        BY <1>1, <3>1 DEF SpIInv, SpTicketInv
      <3>. QED  BY <3>2
    <2>. QED  BY <2>1
  <1>9. \A j \in 1..(n - 1) : mine[arrivals'[j]] = SpPlus(serving', j - 1)
    <2>1. ASSUME NEW j \in 1..(n - 1) PROVE mine[arrivals'[j]] = SpPlus(serving', j - 1)
      <3>1. j + 1 \in 1..n /\ arrivals'[j] = arrivals[j + 1]
        BY <1>3, <1>6
      <3>2. mine[arrivals[j + 1]] = SpPlus(serving, j + 1 - 1)
        BY <1>1, <3>1 DEF SpIInv, SpTicketInv
      <3>3. SpPlus(serving, j + 1 - 1) = SpPlus(serving', j - 1)
        BY <1>3, <1>7, <3>1 DEF SpPlus
      <3>. QED  BY <3>1, <3>2, <3>3
    <2>. QED  BY <2>1
  <1>10. ticket = SpPlus(serving', n - 1)
    <2>1. ticket = SpPlus(serving, n)
      BY <1>1 DEF SpIInv, SpTicketInv
    <2>. QED  BY <1>3, <1>4, <1>7, <2>1 DEF SpPlus
  <1>11. \A u \in Threads : spinPc'[u] # "out" <=> \E j \in 1..(n - 1) : arrivals'[j] = u
    <2>1. ASSUME NEW u \in Threads, u # t
          PROVE  spinPc'[u] # "out" <=> \E j \in 1..(n - 1) : arrivals'[j] = u
      <3>1. spinPc'[u] # "out" <=> \E j \in 1..n : arrivals[j] = u
        BY <1>1, <1>2, <2>1 DEF SpIInv, SpTicketInv
      <3>2. ASSUME NEW j \in 1..n, arrivals[j] = u PROVE \E k \in 1..(n - 1) : arrivals'[k] = u
        <4>1. j # 1 /\ j - 1 \in 1..(n - 1) /\ j - 1 + 1 = j
          BY <1>3, <1>4, <2>1, <3>2
        <4>. QED  BY <1>6, <3>2, <4>1
      <3>3. ASSUME NEW k \in 1..(n - 1), arrivals'[k] = u PROVE \E j \in 1..n : arrivals[j] = u
        <4>1. k + 1 \in 1..n
          BY <1>3
        <4>. QED  BY <1>6, <3>3, <4>1
      <3>. QED  BY <3>1, <3>2, <3>3
    <2>2. \A j \in 1..(n - 1) : arrivals'[j] # t
      <3>1. ASSUME NEW j \in 1..(n - 1), arrivals'[j] = t PROVE FALSE
        <4>1. j + 1 \in 1..n /\ 1 \in 1..n /\ arrivals[j + 1] = arrivals[1]
          BY <1>3, <1>4, <1>6, <3>1
        <4>2. j + 1 = 1
          BY <1>1, <4>1 DEF SpIInv, SpTicketInv
        <4>. QED  BY <4>2
      <3>. QED  BY <3>1
    <2>. QED  BY <1>2, <2>1, <2>2
  <1>12. \A u \in Threads : spinPc'[u] # "cs" /\ spinPc'[u] # "xchg"
    <2>1. \A u \in Threads : spinPc[u] = "cs" => u = t
      BY <1>1, <1>4 DEF SpIInv, SpTicketInv
    <2>. QED  BY <1>1, <1>2, <2>1 DEF SpIInv, SpTicketInv
  <1>13. SpTypeInv'
    <2>1. serving' \in Nat /\ serving' < TicketMod
      BY <1>3, <1>7
    <2>. QED  BY <1>1, <1>2, <1>6, <2>1 DEF SpIInv, SpTypeInv
  <1>14. SpTicketInv'
    <2>1. mine' = mine /\ ticket' = ticket /\ Len(arrivals') = n - 1
      BY <1>1, <1>6
    <2>. HIDE DEF n
    <2>. QED  BY <2>1, <1>8, <1>9, <1>10, <1>11, <1>12 DEF SpTicketInv, SpPlus
  <1>. QED  BY <1>1, <1>13, <1>14 DEF SpIInv, SpTasInv

LEMMA SpStep ==
    ASSUME SpSizes, SpIInv, [Spin!Next]_Spin!vars PROVE SpIInv'
  <1>1. CASE UNCHANGED Spin!vars
    BY <1>1 DEF SpIInv, SpTypeInv, SpTasInv, SpTicketInv, SpPlus, Spin!OneHolder, Spin!vars
  <1>2. ASSUME NEW t \in Threads, Spin!Enter(t) \/ Spin!TakeNumber(t) \/ Spin!Step(t)
        PROVE  SpIInv'
    BY <1>2, SpTasStep, SpTakeNumber, SpEnterCs, SpCallNext DEF Spin!Step
  <1>. QED  BY <1>1, <1>2 DEF Spin!Next

LEMMA SpHolds == ASSUME SpIInv PROVE SpinningLocks
  BY DEF SpIInv, SpTypeInv, SpTasInv, SpTicketInv, SpinningLocks, Spin!OneHolder,
         Spin!FirstComeFirstServed

-----------------------------------------------------------------------------
(* MSem, for any finite set of threads.                                    *)

SeSizes == IsFiniteSet(Threads) /\ MaxValue \in Nat

LEMMA SeCardinality == \A S : Sem!Cardinality(S) = Cardinality(S)
  BY DEF Sem!Cardinality, Cardinality, Sem!IsFiniteSet, IsFiniteSet

SeTypeInv ==
    /\ value \in Nat
    /\ semPc \in [Threads -> {"out", "called", "asleep", "awake"}]

SeUp == Sem!At({"called", "awake"})

SeIInv == SeTypeInv /\ Sem!UnitsSpokenFor

LEMMA SeUpFinite == ASSUME SeSizes PROVE IsFiniteSet(SeUp) /\ Cardinality(SeUp) \in Nat
  <1>1. SeUp \subseteq Threads
    BY DEF SeUp, Sem!At
  <1>. QED  BY <1>1, FS_Subset, FS_CardinalityType DEF SeSizes

LEMMA SeCovered == Sem!UnitsSpokenFor <=> (Sem!At({"asleep"}) # {} => value <= Cardinality(SeUp))
  BY SeCardinality DEF Sem!UnitsSpokenFor, SeUp

LEMMA SeInit == ASSUME SeSizes, Sem!Init PROVE SeIInv
  BY DEF SeSizes, Sem!Init, SeIInv, SeTypeInv, Sem!UnitsSpokenFor, Sem!At

(* A thread goes somewhere: one more is up, or one less. *)
LEMMA SeCounts ==
    ASSUME SeSizes, SeTypeInv, value' \in Nat, NEW t \in Threads,
           NEW place \in {"out", "called", "asleep", "awake"},
           semPc' = [semPc EXCEPT ![t] = place]
    PROVE  /\ SeTypeInv'
           /\ place = "asleep" \/ Sem!At({"asleep"})' = Sem!At({"asleep"}) \ {t}
           /\ place = "out" => Sem!waiting' = Sem!waiting \ {t}
           /\ place # "out" => Sem!waiting' = Sem!waiting \cup {t}
           /\ place # "out" /\ t \in Sem!waiting => Sem!waiting' = Sem!waiting
           /\ place \in {"called", "awake"} /\ t \notin SeUp =>
                  Cardinality(SeUp') = Cardinality(SeUp) + 1
           /\ place \notin {"called", "awake"} /\ t \in SeUp =>
                  Cardinality(SeUp') = Cardinality(SeUp) - 1
  <1>1. /\ semPc' \in [Threads -> {"out", "called", "asleep", "awake"}]
        /\ semPc'[t] = place /\ \A u \in Threads : u # t => semPc'[u] = semPc[u]
    BY DEF SeTypeInv
  <1>2. SeUp' = IF place \in {"called", "awake"} THEN SeUp \cup {t} ELSE SeUp \ {t}
    BY <1>1 DEF SeUp, Sem!At
  <1>3. place = "asleep" \/ Sem!At({"asleep"})' = Sem!At({"asleep"}) \ {t}
    BY <1>1 DEF Sem!At
  <1>4. Sem!waiting' = IF place = "out" THEN Sem!waiting \ {t} ELSE Sem!waiting \cup {t}
    BY <1>1 DEF Sem!waiting, Sem!At
  <1>5. IsFiniteSet(SeUp)
    BY SeUpFinite
  <1>6. t \notin SeUp => Cardinality(SeUp \cup {t}) = Cardinality(SeUp) + 1
    BY <1>5, FS_AddElement
  <1>7. t \in SeUp => Cardinality(SeUp \ {t}) = Cardinality(SeUp) - 1
    BY <1>5, FS_RemoveElement
  <1>. QED  BY <1>1, <1>2, <1>3, <1>4, <1>6, <1>7 DEF SeTypeInv

(* What a step does to value and waiters, and that the units stay covered. *)
LEMMA SeStep ==
    ASSUME SeSizes, SeIInv, [Sem!Next]_Sem!vars
    PROVE  /\ SeIInv'
           /\ \/ Sem!SemPost \/ \E t \in Threads : Sem!SemCall(t) \/ Sem!SemWait(t)
              \/ UNCHANGED <<value, Sem!waiting>>
  <1>0. value \in Nat /\ Cardinality(SeUp) \in Nat /\ SeTypeInv
    BY SeUpFinite DEF SeIInv, SeTypeInv
  <1>. DEFINE A == Sem!At({"asleep"})
              k == Cardinality(SeUp)
  <1>1. A # {} => value <= k
    BY SeCovered DEF SeIInv
  <1>2. Sem!UnitsSpokenFor' <=> (A' # {} => value' <= Cardinality(SeUp'))
    BY SeCardinality DEF Sem!UnitsSpokenFor, SeUp
  <1>3. CASE UNCHANGED Sem!vars
    BY <1>3 DEF SeIInv, SeTypeInv, Sem!UnitsSpokenFor, Sem!At, Sem!vars, Sem!waiting
  <1>4. CASE Sem!Post
    <2>1. value' = value + 1
      BY <1>4 DEF Sem!Post
    <2>2. CASE A = {} /\ UNCHANGED semPc
      <3>1. A' = A /\ Sem!waiting' = Sem!waiting /\ SeTypeInv'
        BY <1>0, <2>1, <2>2 DEF Sem!At, Sem!waiting, SeTypeInv
      <3>. QED  BY <1>2, <2>1, <2>2, <3>1 DEF SeIInv, Sem!SemPost
    <2>3. ASSUME NEW s \in A, semPc' = [semPc EXCEPT ![s] = "awake"]
          PROVE  /\ SeIInv' /\ Sem!SemPost
      <3>1. s \in Threads /\ s \notin SeUp /\ s \in Sem!waiting
        BY <2>3 DEF Sem!At, SeUp, Sem!waiting
      <3>2. SeTypeInv' /\ Cardinality(SeUp') = k + 1 /\ Sem!waiting' = Sem!waiting
        <4>1. value' \in Nat
          BY <1>0, <2>1
        <4>. QED  BY <1>0, <2>3, <3>1, <4>1, SeCounts
      <3>3. value' <= Cardinality(SeUp')
        BY <1>0, <1>1, <2>1, <2>3, <3>2
      <3>. QED  BY <1>2, <2>1, <3>2, <3>3 DEF SeIInv, Sem!SemPost
    <2>. QED  BY <1>4, <2>2, <2>3 DEF Sem!Post
  <1>5. ASSUME NEW t \in Threads, Sem!Call(t)
        PROVE  SeIInv' /\ Sem!SemCall(t)
    <2>1. semPc[t] = "out" /\ value' = value /\ semPc' = [semPc EXCEPT ![t] = "called"]
      BY <1>5 DEF Sem!Call
    <2>2. t \notin SeUp /\ t \notin Sem!waiting /\ t \notin A
      BY <2>1 DEF Sem!At, SeUp, Sem!waiting
    <2>3. SeTypeInv' /\ Cardinality(SeUp') = k + 1 /\ Sem!waiting' = Sem!waiting \cup {t} /\ A' = A \ {t}
      BY <1>0, <2>1, <2>2, SeCounts
    <2>. QED  BY <1>0, <1>1, <1>2, <2>1, <2>2, <2>3 DEF SeIInv, Sem!SemCall
  <1>6. ASSUME NEW t \in Threads, Sem!Take(t)
        PROVE  SeIInv' /\ Sem!SemWait(t)
    <2>1. /\ semPc[t] \in {"called", "awake"} /\ value > 0 /\ value' = value - 1
          /\ semPc' = [semPc EXCEPT ![t] = "out"]
      BY <1>6 DEF Sem!Take
    <2>2. t \in SeUp /\ t \in Sem!waiting /\ t \notin A
      BY <2>1 DEF Sem!At, SeUp, Sem!waiting
    <2>3. value' \in Nat
      BY <1>0, <2>1
    <2>4. SeTypeInv' /\ Cardinality(SeUp') = k - 1 /\ Sem!waiting' = Sem!waiting \ {t} /\ A' = A \ {t}
      BY <1>0, <2>1, <2>2, <2>3, SeCounts
    <2>. QED  BY <1>0, <1>1, <1>2, <2>1, <2>2, <2>4 DEF SeIInv, Sem!SemWait
  <1>7. ASSUME NEW t \in Threads, Sem!Sleep(t)
        PROVE  SeIInv' /\ UNCHANGED <<value, Sem!waiting>>
    <2>1. /\ semPc[t] \in {"called", "awake"} /\ value = 0 /\ value' = value
          /\ semPc' = [semPc EXCEPT ![t] = "asleep"]
      BY <1>7 DEF Sem!Sleep
    <2>2. t \in Sem!waiting
      BY <2>1 DEF Sem!At, Sem!waiting
    <2>3. SeTypeInv' /\ Sem!waiting' = Sem!waiting
      BY <1>0, <2>1, <2>2, SeCounts
    <2>4. Cardinality(SeUp') \in Nat
      <3>1. SeUp' \subseteq Threads
        BY DEF SeUp, Sem!At
      <3>. QED  BY <3>1, FS_Subset, FS_CardinalityType DEF SeSizes
    <2>. QED  BY <1>2, <2>1, <2>3, <2>4 DEF SeIInv
  <1>8. ASSUME NEW t \in Threads, Sem!Spurious(t)
        PROVE  SeIInv' /\ UNCHANGED <<value, Sem!waiting>>
    <2>1. semPc[t] = "asleep" /\ value' = value /\ semPc' = [semPc EXCEPT ![t] = "awake"]
      BY <1>8 DEF Sem!Spurious
    <2>2. t \notin SeUp /\ t \in Sem!waiting /\ t \in A
      BY <2>1 DEF Sem!At, SeUp, Sem!waiting
    <2>3. SeTypeInv' /\ Cardinality(SeUp') = k + 1 /\ Sem!waiting' = Sem!waiting
      BY <1>0, <2>1, <2>2, SeCounts
    <2>. QED  BY <1>0, <1>1, <1>2, <2>1, <2>2, <2>3 DEF SeIInv
  <1>. QED  BY <1>3, <1>4, <1>5, <1>6, <1>7, <1>8 DEF Sem!Next

-----------------------------------------------------------------------------
(* Barrier, for any finite set of threads and number of rounds.            *)

BaSizes == IsFiniteSet(Threads)

LEMMA BaCardinality == \A S : Bar!Cardinality(S) = Cardinality(S)
  BY DEF Bar!Cardinality, Cardinality, Bar!IsFiniteSet, IsFiniteSet

BaFilling == {"arrive", "shutB", "openA", "arrived", "waitA"}
BaLeaving == {"left", "waitB", "postB"}
BaPlaces == BaFilling \cup BaLeaving \cup {"out", "postA", "leave", "shutA", "openB"}

(* The threads that arrived counts, and the places where mutex is held.    *)
BaCounted == {"shutB", "openA", "arrived", "waitA", "postA", "leave"}
BaInside == {"shutB", "openA", "arrived", "shutA", "openB", "left"}
BaIn == {t \in Threads : barPc[t] \in BaCounted}

BaTypeInv ==
    /\ arrived \in Nat /\ barMutex \in {0, 1} /\ gateA \in {0, 1} /\ gateB \in {0, 1}
    /\ barPc \in [Threads -> BaPlaces]
    /\ called \in [Threads -> Nat] /\ returned \in [Threads -> Nat]

BaMutexInv ==
    /\ barMutex = 1 => \A t \in Threads : barPc[t] \notin BaInside
    /\ \A t, u \in Threads : barPc[t] \in BaInside /\ barPc[u] \in BaInside => t = u

BaCountInv == arrived = Cardinality(BaIn)

(* The unit of a gate: in it, or with the one thread at these places.      *)
BaUnit(gate, P) ==
    /\ gate = 1 => \A t \in Threads : barPc[t] \notin P
    /\ gate = 0 => \E t \in Threads : barPc[t] \in P
    /\ \A t, u \in Threads : barPc[t] \in P /\ barPc[u] \in P => t = u

(* R rounds are over: threads leave the last one and gather for the next   *)
(* at the first gate, which is shut, ...                                   *)
BaFill(R) ==
    /\ gateA = 0 /\ BaUnit(gateB, {"postB", "openA"})
    /\ \A t \in Threads :
        \/ barPc[t] = "out" /\ called[t] = R /\ returned[t] = R
        \/ barPc[t] \in BaFilling /\ called[t] = R + 1 /\ returned[t] = R
        \/ barPc[t] \in BaLeaving /\ called[t] = R /\ returned[t] + 1 = R
    /\ \A t, u \in Threads : barPc[t] \in {"shutB", "openA"} =>
           barPc[u] \in {"shutB", "openA", "arrived", "waitA"}

(* ... or all are there, and gather at the second one, which is shut.      *)
BaDrain(R) ==
    /\ gateB = 0 /\ BaUnit(gateA, {"postA", "openB"})
    /\ \A t \in Threads :
        /\ barPc[t] \in {"arrived", "waitA", "postA", "leave", "shutA", "openB", "left", "waitB"}
        /\ called[t] = R + 1 /\ returned[t] = R
    /\ \A t, u \in Threads : barPc[t] \in {"shutA", "openB"} =>
           barPc[u] \in {"shutA", "openB", "left", "waitB"}

BaRoundInv == \E R \in Nat : BaFill(R) \/ BaDrain(R)

BaIInv == BaTypeInv /\ BaMutexInv /\ BaCountInv /\ BaRoundInv

LEMMA BaInit == ASSUME BaSizes, Bar!Init, Threads # {} PROVE BaIInv
  <1>1. BaTypeInv /\ BaMutexInv
    BY DEF Bar!Init, BaTypeInv, BaMutexInv, BaPlaces, BaInside
  <1>2. BaCountInv
    <2>1. BaIn = {}
      BY DEF Bar!Init, BaIn, BaCounted
    <2>. QED  BY <2>1, FS_EmptySet DEF Bar!Init, BaCountInv
  <1>3. BaFill(0)
    BY DEF Bar!Init, BaFill, BaUnit, BaFilling, BaLeaving
  <1>. QED  BY <1>1, <1>2, <1>3 DEF BaIInv, BaRoundInv

LEMMA BaMove ==
    ASSUME BaTypeInv, NEW t \in Threads, NEW from, NEW to \in BaPlaces, Bar!Move(t, from, to)
    PROVE  /\ barPc' \in [Threads -> BaPlaces] /\ barPc[t] = from
           /\ barPc'[t] = to /\ \A u \in Threads : u # t => barPc'[u] = barPc[u]
  BY DEF BaTypeInv, Bar!Move

(* Nothing happens to mutex and the count. *)
LEMMA BaSameMutex ==
    ASSUME BaTypeInv, BaMutexInv, BaCountInv, NEW t \in Threads, NEW from, NEW to \in BaPlaces,
           Bar!Move(t, from, to), UNCHANGED <<arrived, barMutex>>,
           from \in BaInside <=> to \in BaInside, from \in BaCounted <=> to \in BaCounted
    PROVE  BaMutexInv' /\ BaCountInv'
  <1>1. /\ barPc[t] = from /\ barPc'[t] = to /\ \A u \in Threads : u # t => barPc'[u] = barPc[u]
    BY BaMove
  <1>2. BaIn' = BaIn
    BY <1>1 DEF BaIn
  <1>. QED  BY <1>1, <1>2 DEF BaMutexInv, BaCountInv

(* post(mutex) *)
LEMMA BaPost ==
    ASSUME BaTypeInv, BaMutexInv, BaCountInv, NEW t \in Threads, NEW from \in BaInside,
           NEW to \in BaPlaces \ BaInside,
           Bar!Move(t, from, to), Bar!V(barMutex), UNCHANGED arrived,
           from \in BaCounted <=> to \in BaCounted
    PROVE  BaMutexInv' /\ BaCountInv' /\ barMutex' \in {0, 1}
  <1>1. /\ barPc[t] = from /\ barPc'[t] = to /\ \A u \in Threads : u # t => barPc'[u] = barPc[u]
    BY BaMove
  <1>2. BaIn' = BaIn
    BY <1>1 DEF BaIn
  <1>3. barMutex = 0 /\ barMutex' = 1
    BY <1>1 DEF BaMutexInv, BaTypeInv, Bar!V
  <1>. QED  BY <1>1, <1>2, <1>3 DEF BaMutexInv, BaCountInv

(* wait(mutex), with a thread counted or no longer counted: the count is   *)
(* the last one's if it is that of everybody, or of nobody.                *)
LEMMA BaCounts ==
    ASSUME BaSizes, BaTypeInv, BaCountInv, NEW t \in Threads
    PROVE  /\ arrived = Cardinality(BaIn) /\ arrived \in Nat
           /\ BaIn \subseteq Threads /\ IsFiniteSet(BaIn)
           /\ t \notin BaIn => Cardinality(BaIn \cup {t}) = arrived + 1
           /\ t \in BaIn => Cardinality(BaIn \ {t}) = arrived - 1
           /\ t \notin BaIn /\ arrived + 1 = Bar!n => BaIn \cup {t} = Threads
           /\ t \in BaIn /\ arrived - 1 = 0 => BaIn \ {t} = {}
  <1>1. BaIn \subseteq Threads
    BY DEF BaIn
  <1>2. IsFiniteSet(BaIn)
    BY <1>1, FS_Subset DEF BaSizes
  <1>3. t \notin BaIn => Cardinality(BaIn \cup {t}) = Cardinality(BaIn) + 1
    BY <1>2, FS_AddElement
  <1>4. t \in BaIn => Cardinality(BaIn \ {t}) = Cardinality(BaIn) - 1
    BY <1>2, FS_RemoveElement
  <1>5. Bar!n = Cardinality(Threads)
    BY BaCardinality DEF Bar!n
  <1>6. BaIn \cup {t} \subseteq Threads
    BY <1>1
  <1>7. Cardinality(BaIn \cup {t}) = Cardinality(Threads) => BaIn \cup {t} = Threads
    BY <1>6, FS_Subset DEF BaSizes
  <1>8. IsFiniteSet(BaIn \ {t})
    BY <1>2, FS_Subset
  <1>9. Cardinality(BaIn \ {t}) = 0 => BaIn \ {t} = {}
    BY <1>8, FS_EmptySet
  <1>. QED  BY <1>1, <1>2, <1>3, <1>4, <1>5, <1>7, <1>9 DEF BaCountInv, BaTypeInv

LEMMA BaCall ==
    ASSUME BaSizes, BaIInv, NEW t \in Threads, Bar!Call(t) PROVE BaIInv'
  <1>1. /\ Bar!Move(t, "out", "arrive") /\ called' = [called EXCEPT ![t] = @ + 1]
        /\ UNCHANGED <<arrived, barMutex, gateA, gateB, returned>>
    BY DEF Bar!Call
  <1>2. /\ barPc' \in [Threads -> BaPlaces] /\ barPc[t] = "out"
        /\ barPc'[t] = "arrive" /\ \A u \in Threads : u # t => barPc'[u] = barPc[u]
    BY <1>1, BaMove DEF BaIInv, BaPlaces, BaFilling
  <1>3. BaMutexInv' /\ BaCountInv'
    BY <1>1, BaSameMutex DEF BaIInv, BaPlaces, BaFilling, BaInside, BaCounted
  <1>4. BaTypeInv'
    <2>1. called' \in [Threads -> Nat]
      BY <1>1 DEF BaIInv, BaTypeInv
    <2>. QED  BY <1>1, <1>2, <2>1 DEF BaIInv, BaTypeInv
  <1>5. PICK R \in Nat : BaFill(R)
    BY <1>2 DEF BaIInv, BaRoundInv, BaDrain
  <1>6. /\ called'[t] = called[t] + 1 /\ called[t] = R /\ returned[t] = R
        /\ \A u \in Threads : u # t => called'[u] = called[u]
    BY <1>1, <1>2, <1>5 DEF BaIInv, BaTypeInv, BaFill, BaFilling, BaLeaving
  <1>7. BaFill(R)'
    BY <1>1, <1>2, <1>5, <1>6 DEF BaFill, BaUnit, BaFilling, BaLeaving
  <1>. QED  BY <1>3, <1>4, <1>7 DEF BaIInv, BaRoundInv

LEMMA BaArrive ==
    ASSUME BaSizes, BaIInv, NEW t \in Threads, Bar!Arrive(t) PROVE BaIInv'
  <1>. DEFINE to == IF arrived + 1 = Bar!n THEN "shutB" ELSE "arrived"
  <1>1. /\ Bar!Move(t, "arrive", to) /\ barMutex > 0 /\ barMutex' = barMutex - 1
        /\ arrived' = arrived + 1 /\ UNCHANGED <<gateA, gateB, called, returned>>
    BY DEF Bar!Arrive, Bar!P
  <1>0. to \in {"shutB", "arrived"} /\ (to = "shutB" => arrived + 1 = Bar!n)
    OBVIOUS
  <1>. HIDE DEF to
  <1>2. /\ barPc' \in [Threads -> BaPlaces] /\ barPc[t] = "arrive"
        /\ barPc'[t] = to /\ \A u \in Threads : u # t => barPc'[u] = barPc[u]
    BY <1>0, <1>1, BaMove DEF BaIInv, BaPlaces, BaFilling
  <1>3. barMutex = 1 /\ barMutex' = 0 /\ \A u \in Threads : barPc[u] \notin BaInside
    BY <1>1 DEF BaIInv, BaTypeInv, BaMutexInv
  <1>4. BaMutexInv'
    BY <1>2, <1>3 DEF BaMutexInv
  <1>5. t \notin BaIn /\ BaIn' = BaIn \cup {t}
    BY <1>0, <1>2 DEF BaIn, BaCounted
  <1>6. arrived' = Cardinality(BaIn') /\ (to = "shutB" => BaIn' = Threads) /\ arrived \in Nat
    BY <1>0, <1>1, <1>5, BaCounts DEF BaIInv
  <1>7. BaTypeInv' /\ BaCountInv'
    BY <1>1, <1>2, <1>3, <1>6 DEF BaIInv, BaTypeInv, BaCountInv
  <1>8. PICK R \in Nat : BaFill(R)
    BY <1>2 DEF BaIInv, BaRoundInv, BaDrain
  <1>9. \A u \in Threads : to = "shutB" => barPc'[u] \in {"shutB", "arrived", "waitA"}
    <2>1. ASSUME NEW u \in Threads, to = "shutB" PROVE barPc'[u] \in {"shutB", "arrived", "waitA"}
      <3>1. barPc'[u] \in BaCounted
        BY <1>6, <2>1 DEF BaIn
      <3>. QED  BY <1>2, <1>3, <1>8, <2>1, <3>1 DEF BaFill, BaCounted, BaInside, BaFilling, BaLeaving
    <2>. QED  BY <2>1
  <1>10. BaFill(R)'
    <2>1. called[t] = R + 1 /\ returned[t] = R
      BY <1>2, <1>8 DEF BaFill, BaFilling, BaLeaving
    <2>2. BaUnit(gateB, {"postB", "openA"})'
      BY <1>0, <1>1, <1>2, <1>8 DEF BaFill, BaUnit
    <2>3. \A u, v \in Threads : barPc'[u] \in {"shutB", "openA"} =>
              barPc'[v] \in {"shutB", "openA", "arrived", "waitA"}
      <3>1. \A u \in Threads : barPc'[u] \in {"shutB", "openA"} => u = t /\ to = "shutB"
        BY <1>0, <1>2, <1>3 DEF BaInside
      <3>. QED  BY <1>9, <3>1
    <2>4. \A u \in Threads :
            \/ barPc'[u] = "out" /\ called'[u] = R /\ returned'[u] = R
            \/ barPc'[u] \in BaFilling /\ called'[u] = R + 1 /\ returned'[u] = R
            \/ barPc'[u] \in BaLeaving /\ called'[u] = R /\ returned'[u] + 1 = R
      BY <1>0, <1>1, <1>2, <1>8, <2>1 DEF BaFill, BaFilling, BaLeaving
    <2>. QED  BY <1>1, <1>8, <2>2, <2>3, <2>4 DEF BaFill
  <1>. QED  BY <1>4, <1>7, <1>10 DEF BaIInv, BaRoundInv

LEMMA BaShutB ==
    ASSUME BaSizes, BaIInv, NEW t \in Threads, Bar!ShutB(t) PROVE BaIInv'
  <1>1. /\ Bar!Move(t, "shutB", "openA") /\ gateB > 0 /\ gateB' = gateB - 1
        /\ UNCHANGED <<arrived, barMutex, gateA, called, returned>>
    BY DEF Bar!ShutB, Bar!P
  <1>2. /\ barPc' \in [Threads -> BaPlaces] /\ barPc[t] = "shutB"
        /\ barPc'[t] = "openA" /\ \A u \in Threads : u # t => barPc'[u] = barPc[u]
    BY <1>1, BaMove DEF BaIInv, BaPlaces, BaFilling
  <1>3. BaMutexInv' /\ BaCountInv'
    BY <1>1, BaSameMutex DEF BaIInv, BaPlaces, BaFilling, BaInside, BaCounted
  <1>4. gateB = 1 /\ gateB' = 0
    BY <1>1 DEF BaIInv, BaTypeInv
  <1>5. BaTypeInv'
    BY <1>1, <1>2, <1>4 DEF BaIInv, BaTypeInv
  <1>6. PICK R \in Nat : BaFill(R)
    BY <1>2 DEF BaIInv, BaRoundInv, BaDrain
  <1>7. BaFill(R)'
    BY <1>1, <1>2, <1>4, <1>6 DEF BaFill, BaUnit, BaFilling, BaLeaving
  <1>. QED  BY <1>3, <1>5, <1>7 DEF BaIInv, BaRoundInv

LEMMA BaOpenA ==
    ASSUME BaSizes, BaIInv, NEW t \in Threads, Bar!OpenA(t) PROVE BaIInv'
  <1>1. /\ Bar!Move(t, "openA", "arrived") /\ gateA' = gateA + 1
        /\ UNCHANGED <<arrived, barMutex, gateB, called, returned>>
    BY DEF Bar!OpenA, Bar!V
  <1>2. /\ barPc' \in [Threads -> BaPlaces] /\ barPc[t] = "openA"
        /\ barPc'[t] = "arrived" /\ \A u \in Threads : u # t => barPc'[u] = barPc[u]
    BY <1>1, BaMove DEF BaIInv, BaPlaces, BaFilling
  <1>3. BaMutexInv' /\ BaCountInv'
    BY <1>1, BaSameMutex DEF BaIInv, BaPlaces, BaFilling, BaInside, BaCounted
  <1>4. PICK R \in Nat : BaFill(R)
    BY <1>2 DEF BaIInv, BaRoundInv, BaDrain
  <1>5. gateA = 0 /\ gateA' = 1 /\ gateB = 0
    BY <1>1, <1>2, <1>4 DEF BaIInv, BaTypeInv, BaFill, BaUnit
  <1>6. BaTypeInv'
    BY <1>1, <1>2, <1>5 DEF BaIInv, BaTypeInv
  <1>7. \A u \in Threads : barPc'[u] \in {"arrived", "waitA"} /\ called[u] = R + 1 /\ returned[u] = R
    BY <1>2, <1>4 DEF BaIInv, BaMutexInv, BaInside, BaFill, BaFilling, BaLeaving
  <1>8. BaDrain(R)'
    BY <1>1, <1>5, <1>7 DEF BaDrain, BaUnit
  <1>. QED  BY <1>3, <1>6, <1>8 DEF BaIInv, BaRoundInv

LEMMA BaArrived ==
    ASSUME BaSizes, BaIInv, NEW t \in Threads, Bar!Arrived(t) PROVE BaIInv'
  <1>1. /\ Bar!Move(t, "arrived", "waitA") /\ Bar!V(barMutex)
        /\ UNCHANGED <<arrived, gateA, gateB, called, returned>>
    BY DEF Bar!Arrived
  <1>2. /\ barPc' \in [Threads -> BaPlaces] /\ barPc[t] = "arrived"
        /\ barPc'[t] = "waitA" /\ \A u \in Threads : u # t => barPc'[u] = barPc[u]
    BY <1>1, BaMove DEF BaIInv, BaPlaces, BaFilling
  <1>3. BaMutexInv' /\ BaCountInv' /\ barMutex' \in {0, 1}
    BY <1>1, BaPost DEF BaIInv, BaPlaces, BaFilling, BaInside, BaCounted
  <1>4. BaTypeInv'
    BY <1>1, <1>2, <1>3 DEF BaIInv, BaTypeInv
  <1>5. PICK R \in Nat : BaFill(R) \/ BaDrain(R)
    BY DEF BaIInv, BaRoundInv
  <1>6. BaFill(R) => BaFill(R)'
    BY <1>1, <1>2 DEF BaFill, BaUnit, BaFilling, BaLeaving
  <1>7. BaDrain(R) => BaDrain(R)'
    BY <1>1, <1>2 DEF BaDrain, BaUnit
  <1>. QED  BY <1>3, <1>4, <1>5, <1>6, <1>7 DEF BaIInv, BaRoundInv

LEMMA BaWaitA ==
    ASSUME BaSizes, BaIInv, NEW t \in Threads, Bar!WaitA(t) PROVE BaIInv'
  <1>1. /\ Bar!Move(t, "waitA", "postA") /\ gateA > 0 /\ gateA' = gateA - 1
        /\ UNCHANGED <<arrived, barMutex, gateB, called, returned>>
    BY DEF Bar!WaitA, Bar!P
  <1>2. /\ barPc' \in [Threads -> BaPlaces] /\ barPc[t] = "waitA"
        /\ barPc'[t] = "postA" /\ \A u \in Threads : u # t => barPc'[u] = barPc[u]
    BY <1>1, BaMove DEF BaIInv, BaPlaces
  <1>3. BaMutexInv' /\ BaCountInv'
    BY <1>1, BaSameMutex DEF BaIInv, BaPlaces, BaInside, BaCounted
  <1>4. gateA = 1 /\ gateA' = 0
    BY <1>1 DEF BaIInv, BaTypeInv
  <1>5. BaTypeInv'
    BY <1>1, <1>2, <1>4 DEF BaIInv, BaTypeInv
  <1>6. PICK R \in Nat : BaDrain(R)
    BY <1>4 DEF BaIInv, BaRoundInv, BaFill
  <1>7. BaDrain(R)'
    BY <1>1, <1>2, <1>4, <1>6 DEF BaDrain, BaUnit
  <1>. QED  BY <1>3, <1>5, <1>7 DEF BaIInv, BaRoundInv

LEMMA BaPostA ==
    ASSUME BaSizes, BaIInv, NEW t \in Threads, Bar!PostA(t) PROVE BaIInv'
  <1>1. /\ Bar!Move(t, "postA", "leave") /\ gateA' = gateA + 1
        /\ UNCHANGED <<arrived, barMutex, gateB, called, returned>>
    BY DEF Bar!PostA, Bar!V
  <1>2. /\ barPc' \in [Threads -> BaPlaces] /\ barPc[t] = "postA"
        /\ barPc'[t] = "leave" /\ \A u \in Threads : u # t => barPc'[u] = barPc[u]
    BY <1>1, BaMove DEF BaIInv, BaPlaces
  <1>3. BaMutexInv' /\ BaCountInv'
    BY <1>1, BaSameMutex DEF BaIInv, BaPlaces, BaInside, BaCounted
  <1>4. PICK R \in Nat : BaDrain(R)
    BY <1>2 DEF BaIInv, BaRoundInv, BaFill, BaFilling, BaLeaving
  <1>5. gateA = 0 /\ gateA' = 1
    BY <1>1, <1>2, <1>4 DEF BaIInv, BaTypeInv, BaDrain, BaUnit
  <1>6. BaTypeInv'
    BY <1>1, <1>2, <1>5 DEF BaIInv, BaTypeInv
  <1>7. BaDrain(R)'
    BY <1>1, <1>2, <1>4, <1>5 DEF BaDrain, BaUnit
  <1>. QED  BY <1>3, <1>6, <1>7 DEF BaIInv, BaRoundInv

LEMMA BaLeave ==
    ASSUME BaSizes, BaIInv, NEW t \in Threads, Bar!Leave(t) PROVE BaIInv'
  <1>. DEFINE to == IF arrived - 1 = 0 THEN "shutA" ELSE "left"
  <1>1. /\ Bar!Move(t, "leave", to) /\ barMutex > 0 /\ barMutex' = barMutex - 1
        /\ arrived' = arrived - 1 /\ UNCHANGED <<gateA, gateB, called, returned>>
    BY DEF Bar!Leave, Bar!P
  <1>0. to \in {"shutA", "left"} /\ (to = "shutA" => arrived - 1 = 0)
    OBVIOUS
  <1>. HIDE DEF to
  <1>2. /\ barPc' \in [Threads -> BaPlaces] /\ barPc[t] = "leave"
        /\ barPc'[t] = to /\ \A u \in Threads : u # t => barPc'[u] = barPc[u]
    BY <1>0, <1>1, BaMove DEF BaIInv, BaPlaces, BaLeaving
  <1>3. barMutex = 1 /\ barMutex' = 0 /\ \A u \in Threads : barPc[u] \notin BaInside
    BY <1>1 DEF BaIInv, BaTypeInv, BaMutexInv
  <1>4. BaMutexInv'
    BY <1>2, <1>3 DEF BaMutexInv
  <1>5. t \in BaIn /\ BaIn' = BaIn \ {t}
    BY <1>0, <1>2 DEF BaIn, BaCounted
  <1>6. arrived' = Cardinality(BaIn') /\ (to = "shutA" => BaIn' = {})
    BY <1>0, <1>1, <1>5, BaCounts DEF BaIInv
  <1>7. arrived' \in Nat
    <2>1. IsFiniteSet(BaIn \ {t})
      BY BaCounts, FS_Subset DEF BaIInv
    <2>. QED  BY <1>5, <1>6, <2>1, FS_CardinalityType
  <1>8. BaTypeInv' /\ BaCountInv'
    BY <1>1, <1>2, <1>3, <1>6, <1>7 DEF BaIInv, BaTypeInv, BaCountInv
  <1>9. PICK R \in Nat : BaDrain(R)
    BY <1>2 DEF BaIInv, BaRoundInv, BaFill, BaFilling, BaLeaving
  <1>10. \A u \in Threads : to = "shutA" => barPc'[u] \in {"shutA", "left", "waitB"}
    <2>1. ASSUME NEW u \in Threads, to = "shutA" PROVE barPc'[u] \in {"shutA", "left", "waitB"}
      <3>1. barPc'[u] \notin BaCounted
        BY <1>6, <2>1 DEF BaIn
      <3>. QED  BY <1>2, <1>3, <1>9, <2>1, <3>1 DEF BaDrain, BaCounted, BaInside
    <2>. QED  BY <2>1
  <1>11. BaDrain(R)'
    <2>1. BaUnit(gateA, {"postA", "openB"})'
      BY <1>0, <1>1, <1>2, <1>9 DEF BaDrain, BaUnit
    <2>2. \A u, v \in Threads : barPc'[u] \in {"shutA", "openB"} =>
              barPc'[v] \in {"shutA", "openB", "left", "waitB"}
      <3>1. \A u \in Threads : barPc'[u] \in {"shutA", "openB"} => u = t /\ to = "shutA"
        BY <1>0, <1>2, <1>3 DEF BaInside
      <3>. QED  BY <1>10, <3>1
    <2>3. \A u \in Threads : barPc'[u] \in {"arrived", "waitA", "postA", "leave", "shutA", "openB", "left", "waitB"}
      BY <1>0, <1>2, <1>9 DEF BaDrain
    <2>. QED  BY <1>1, <1>9, <2>1, <2>2, <2>3 DEF BaDrain
  <1>. QED  BY <1>4, <1>8, <1>11 DEF BaIInv, BaRoundInv

LEMMA BaShutA ==
    ASSUME BaSizes, BaIInv, NEW t \in Threads, Bar!ShutA(t) PROVE BaIInv'
  <1>1. /\ Bar!Move(t, "shutA", "openB") /\ gateA > 0 /\ gateA' = gateA - 1
        /\ UNCHANGED <<arrived, barMutex, gateB, called, returned>>
    BY DEF Bar!ShutA, Bar!P
  <1>2. /\ barPc' \in [Threads -> BaPlaces] /\ barPc[t] = "shutA"
        /\ barPc'[t] = "openB" /\ \A u \in Threads : u # t => barPc'[u] = barPc[u]
    BY <1>1, BaMove DEF BaIInv, BaPlaces
  <1>3. BaMutexInv' /\ BaCountInv'
    BY <1>1, BaSameMutex DEF BaIInv, BaPlaces, BaInside, BaCounted
  <1>4. gateA = 1 /\ gateA' = 0
    BY <1>1 DEF BaIInv, BaTypeInv
  <1>5. BaTypeInv'
    BY <1>1, <1>2, <1>4 DEF BaIInv, BaTypeInv
  <1>6. PICK R \in Nat : BaDrain(R)
    BY <1>4 DEF BaIInv, BaRoundInv, BaFill
  <1>7. BaDrain(R)'
    BY <1>1, <1>2, <1>4, <1>6 DEF BaDrain, BaUnit
  <1>. QED  BY <1>3, <1>5, <1>7 DEF BaIInv, BaRoundInv

LEMMA BaOpenB ==
    ASSUME BaSizes, BaIInv, NEW t \in Threads, Bar!OpenB(t) PROVE BaIInv'
  <1>1. /\ Bar!Move(t, "openB", "left") /\ gateB' = gateB + 1
        /\ UNCHANGED <<arrived, barMutex, gateA, called, returned>>
    BY DEF Bar!OpenB, Bar!V
  <1>2. /\ barPc' \in [Threads -> BaPlaces] /\ barPc[t] = "openB"
        /\ barPc'[t] = "left" /\ \A u \in Threads : u # t => barPc'[u] = barPc[u]
    BY <1>1, BaMove DEF BaIInv, BaPlaces, BaLeaving
  <1>3. BaMutexInv' /\ BaCountInv'
    BY <1>1, BaSameMutex DEF BaIInv, BaPlaces, BaLeaving, BaInside, BaCounted
  <1>4. PICK R \in Nat : BaDrain(R)
    BY <1>2 DEF BaIInv, BaRoundInv, BaFill, BaFilling, BaLeaving
  <1>5. gateB = 0 /\ gateB' = 1 /\ gateA = 0
    BY <1>1, <1>2, <1>4 DEF BaIInv, BaTypeInv, BaDrain, BaUnit
  <1>6. BaTypeInv'
    BY <1>1, <1>2, <1>5 DEF BaIInv, BaTypeInv
  <1>7. \A u \in Threads : barPc'[u] \in {"left", "waitB"} /\ called[u] = R + 1 /\ returned[u] = R
    BY <1>2, <1>4 DEF BaIInv, BaMutexInv, BaInside, BaDrain
  <1>8. BaFill(R + 1)'
    BY <1>1, <1>5, <1>7 DEF BaFill, BaUnit, BaLeaving, BaFilling
  <1>9. R + 1 \in Nat
    OBVIOUS
  <1>. QED  BY <1>3, <1>6, <1>8, <1>9 DEF BaIInv, BaRoundInv

LEMMA BaLeft ==
    ASSUME BaSizes, BaIInv, NEW t \in Threads, Bar!Left(t) PROVE BaIInv'
  <1>1. /\ Bar!Move(t, "left", "waitB") /\ Bar!V(barMutex)
        /\ UNCHANGED <<arrived, gateA, gateB, called, returned>>
    BY DEF Bar!Left
  <1>2. /\ barPc' \in [Threads -> BaPlaces] /\ barPc[t] = "left"
        /\ barPc'[t] = "waitB" /\ \A u \in Threads : u # t => barPc'[u] = barPc[u]
    BY <1>1, BaMove DEF BaIInv, BaPlaces, BaLeaving
  <1>3. BaMutexInv' /\ BaCountInv' /\ barMutex' \in {0, 1}
    BY <1>1, BaPost DEF BaIInv, BaPlaces, BaLeaving, BaInside, BaCounted
  <1>4. BaTypeInv'
    BY <1>1, <1>2, <1>3 DEF BaIInv, BaTypeInv
  <1>5. PICK R \in Nat : BaFill(R) \/ BaDrain(R)
    BY DEF BaIInv, BaRoundInv
  <1>6. BaFill(R) => BaFill(R)'
    BY <1>1, <1>2 DEF BaFill, BaUnit, BaFilling, BaLeaving
  <1>7. BaDrain(R) => BaDrain(R)'
    BY <1>1, <1>2 DEF BaDrain, BaUnit
  <1>. QED  BY <1>3, <1>4, <1>5, <1>6, <1>7 DEF BaIInv, BaRoundInv

LEMMA BaWaitB ==
    ASSUME BaSizes, BaIInv, NEW t \in Threads, Bar!WaitB(t) PROVE BaIInv'
  <1>1. /\ Bar!Move(t, "waitB", "postB") /\ gateB > 0 /\ gateB' = gateB - 1
        /\ UNCHANGED <<arrived, barMutex, gateA, called, returned>>
    BY DEF Bar!WaitB, Bar!P
  <1>2. /\ barPc' \in [Threads -> BaPlaces] /\ barPc[t] = "waitB"
        /\ barPc'[t] = "postB" /\ \A u \in Threads : u # t => barPc'[u] = barPc[u]
    BY <1>1, BaMove DEF BaIInv, BaPlaces, BaLeaving
  <1>3. BaMutexInv' /\ BaCountInv'
    BY <1>1, BaSameMutex DEF BaIInv, BaPlaces, BaLeaving, BaInside, BaCounted
  <1>4. gateB = 1 /\ gateB' = 0
    BY <1>1 DEF BaIInv, BaTypeInv
  <1>5. BaTypeInv'
    BY <1>1, <1>2, <1>4 DEF BaIInv, BaTypeInv
  <1>6. PICK R \in Nat : BaFill(R)
    BY <1>4 DEF BaIInv, BaRoundInv, BaDrain
  <1>7. BaFill(R)'
    BY <1>1, <1>2, <1>4, <1>6 DEF BaFill, BaUnit, BaFilling, BaLeaving
  <1>. QED  BY <1>3, <1>5, <1>7 DEF BaIInv, BaRoundInv

LEMMA BaPostB ==
    ASSUME BaSizes, BaIInv, NEW t \in Threads, Bar!PostB(t) PROVE BaIInv'
  <1>1. /\ Bar!Move(t, "postB", "out") /\ gateB' = gateB + 1
        /\ returned' = [returned EXCEPT ![t] = @ + 1]
        /\ UNCHANGED <<arrived, barMutex, gateA, called>>
    BY DEF Bar!PostB, Bar!V
  <1>2. /\ barPc' \in [Threads -> BaPlaces] /\ barPc[t] = "postB"
        /\ barPc'[t] = "out" /\ \A u \in Threads : u # t => barPc'[u] = barPc[u]
    BY <1>1, BaMove DEF BaIInv, BaPlaces
  <1>3. BaMutexInv' /\ BaCountInv'
    BY <1>1, BaSameMutex DEF BaIInv, BaPlaces, BaInside, BaCounted
  <1>4. PICK R \in Nat : BaFill(R)
    BY <1>2 DEF BaIInv, BaRoundInv, BaDrain
  <1>5. gateB = 0 /\ gateB' = 1
    BY <1>1, <1>2, <1>4 DEF BaIInv, BaTypeInv, BaFill, BaUnit
  <1>6. BaTypeInv'
    <2>1. returned' \in [Threads -> Nat]
      BY <1>1 DEF BaIInv, BaTypeInv
    <2>. QED  BY <1>1, <1>2, <1>5, <2>1 DEF BaIInv, BaTypeInv
  <1>7. /\ returned'[t] = returned[t] + 1 /\ returned[t] + 1 = R /\ called[t] = R
        /\ \A u \in Threads : u # t => returned'[u] = returned[u]
    BY <1>1, <1>2, <1>4 DEF BaIInv, BaTypeInv, BaFill, BaFilling, BaLeaving
  <1>8. BaFill(R)'
    BY <1>1, <1>2, <1>4, <1>5, <1>7 DEF BaFill, BaUnit, BaFilling, BaLeaving
  <1>. QED  BY <1>3, <1>6, <1>8 DEF BaIInv, BaRoundInv

LEMMA BaStep ==
    ASSUME BaSizes, BaIInv, [Bar!Next]_Bar!vars PROVE BaIInv'
  <1>1. CASE UNCHANGED Bar!vars
    BY <1>1 DEF BaIInv, BaTypeInv, BaMutexInv, BaCountInv, BaIn, BaRoundInv, BaFill, BaDrain, BaUnit,
                Bar!vars
  <1>2. ASSUME NEW t \in Threads, Bar!Call(t) \/ Bar!Step(t) PROVE BaIInv'
    BY <1>2, BaCall, BaArrive, BaShutB, BaOpenA, BaArrived, BaWaitA, BaPostA, BaLeave, BaShutA,
       BaOpenB, BaLeft, BaWaitB, BaPostB DEF Bar!Step
  <1>. QED  BY <1>1, <1>2 DEF Bar!Next

LEMMA BaHolds == ASSUME BaIInv PROVE BarrierRounds
  <1>1. PICK R \in Nat : BaFill(R) \/ BaDrain(R)
    BY DEF BaIInv, BaRoundInv
  <1>2. \A t \in Threads : returned[t] \in Nat /\ called[t] \in Nat
    BY DEF BaIInv, BaTypeInv
  <1>3. \A t \in Threads : returned[t] <= R /\ R <= called[t]
    BY <1>1, <1>2 DEF BaFill, BaDrain
  <1>. QED  BY <1>2, <1>3 DEF BarrierRounds, Bar!NobodyLaps

-----------------------------------------------------------------------------
(* RwLock, for any readers and writers.                                    *)

RwSizes == IsFiniteSet(Readers) /\ Readers \cap Writers = {}

RwReading == {"out", "door", "through", "enter", "lockRoom", "entered", "reading",
              "unlockRoom", "left"}
RwWriting == {"out", "door", "room", "writing", "openRoom"}

(* The places of readers that count, those where mutex is held, and those  *)
(* where the room is held, by readers or by a writer.                      *)
RwCounted == {"lockRoom", "entered", "reading"}
RwInside == {"lockRoom", "entered", "unlockRoom", "left"}
RwInRoom == {"entered", "reading", "unlockRoom", "writing", "openRoom"}
RwAtDoor == {"through", "room", "writing"}
RwIn == {r \in Readers : rwPc[r] \in RwCounted}

RwTypeInv ==
    /\ readers \in Nat /\ rwMutex \in {0, 1} /\ roomEmpty \in {0, 1} /\ turnstile \in {0, 1}
    /\ rwPc \in [Readers \cup Writers -> RwReading \cup RwWriting]
    /\ \A r \in Readers : rwPc[r] \in RwReading
    /\ \A w \in Writers : rwPc[w] \in RwWriting
    /\ behind \in [Writers -> SUBSET Readers]

RwMutexInv ==
    /\ rwMutex = 1 => \A r \in Readers : rwPc[r] \notin RwInside
    /\ \A r, q \in Readers : rwPc[r] \in RwInside /\ rwPc[q] \in RwInside => r = q

RwCountInv == readers = Cardinality(RwIn)

(* The room is a writer's, or that of readers, of whom the first takes it  *)
(* and the last gives it back.                                             *)
RwRoomInv ==
    /\ roomEmpty = 1 => \A t \in Readers \cup Writers : rwPc[t] \notin RwInRoom
    /\ \A w \in Writers, t \in Readers \cup Writers :
         rwPc[w] \in RwInRoom /\ rwPc[t] \in RwInRoom => t = w
    /\ \A r, q \in Readers :
         /\ rwPc[r] = "lockRoom" /\ rwPc[q] \in RwCounted => q = r
         /\ rwPc[r] = "unlockRoom" => rwPc[q] \notin RwCounted

(* The turnstile is with one thread, and while a writer has it those who   *)
(* were not past it then are not past it now.                              *)
RwDoorInv ==
    /\ turnstile = 1 => \A t \in Readers \cup Writers : rwPc[t] \notin RwAtDoor
    /\ \A t, u \in Readers \cup Writers : rwPc[t] \in RwAtDoor /\ rwPc[u] \in RwAtDoor => t = u
    /\ \A w \in Writers : rwPc[w] = "room" => \A r \in behind[w] : rwPc[r] \in {"out", "door"}

RwIInv == RwTypeInv /\ RwMutexInv /\ RwCountInv /\ RwRoomInv /\ RwDoorInv

LEMMA RwInit == ASSUME RwSizes, Rw!Init PROVE RwIInv
  <1>1. rwPc = [t \in Readers \cup Writers |-> "out"] /\ behind = [w \in Writers |-> {}]
    BY DEF Rw!Init, Rw!Everyone
  <1>2. RwTypeInv
    BY <1>1 DEF Rw!Init, RwTypeInv, RwReading, RwWriting
  <1>3. RwCountInv
    <2>1. RwIn = {}
      BY <1>1 DEF RwIn, RwCounted
    <2>. QED  BY <2>1, FS_EmptySet DEF Rw!Init, RwCountInv
  <1>4. RwMutexInv /\ RwRoomInv /\ RwDoorInv
    BY <1>1 DEF RwMutexInv, RwRoomInv, RwDoorInv, RwInside, RwInRoom, RwAtDoor, RwCounted
  <1>. QED  BY <1>2, <1>3, <1>4 DEF RwIInv

LEMMA RwMoveR ==
    ASSUME RwSizes, RwTypeInv, NEW t \in Readers, NEW from, NEW to \in RwReading, Rw!Move(t, from, to)
    PROVE  /\ rwPc' \in [Readers \cup Writers -> RwReading \cup RwWriting]
           /\ rwPc[t] = from /\ rwPc'[t] = to
           /\ \A u \in Readers \cup Writers : u # t => rwPc'[u] = rwPc[u]
           /\ \A r \in Readers : rwPc'[r] \in RwReading
           /\ \A w \in Writers : w # t /\ rwPc'[w] = rwPc[w] /\ rwPc'[w] \in RwWriting
  BY DEF RwSizes, RwTypeInv, Rw!Move

LEMMA RwMoveW ==
    ASSUME RwSizes, RwTypeInv, NEW t \in Writers, NEW from, NEW to \in RwWriting, Rw!Move(t, from, to)
    PROVE  /\ rwPc' \in [Readers \cup Writers -> RwReading \cup RwWriting]
           /\ rwPc[t] = from /\ rwPc'[t] = to
           /\ \A u \in Readers \cup Writers : u # t => rwPc'[u] = rwPc[u]
           /\ \A w \in Writers : rwPc'[w] \in RwWriting
           /\ \A r \in Readers : r # t /\ rwPc'[r] = rwPc[r] /\ rwPc'[r] \in RwReading
  BY DEF RwSizes, RwTypeInv, Rw!Move

(* Nothing happens to mutex and the count. *)
LEMMA RwSame ==
    ASSUME RwMutexInv, RwCountInv, UNCHANGED <<readers, rwMutex>>,
           \A r \in Readers : /\ rwPc'[r] \in RwInside <=> rwPc[r] \in RwInside
                              /\ rwPc'[r] \in RwCounted <=> rwPc[r] \in RwCounted
    PROVE  RwMutexInv' /\ RwCountInv'
  <1>1. RwIn' = RwIn
    BY DEF RwIn
  <1>. QED  BY <1>1 DEF RwMutexInv, RwCountInv

LEMMA RwCounts ==
    ASSUME RwSizes, RwTypeInv, RwCountInv, NEW r \in Readers
    PROVE  /\ readers = Cardinality(RwIn) /\ readers \in Nat
           /\ r \notin RwIn => Cardinality(RwIn \cup {r}) = readers + 1
           /\ r \in RwIn => Cardinality(RwIn \ {r}) = readers - 1 /\ readers - 1 \in Nat
           /\ readers = 0 => RwIn = {}
           /\ readers # 0 => RwIn # {}
           /\ r \in RwIn /\ readers - 1 = 0 => RwIn \ {r} = {}
  <1>1. RwIn \subseteq Readers
    BY DEF RwIn
  <1>2. IsFiniteSet(RwIn) /\ IsFiniteSet(RwIn \ {r})
    BY <1>1, FS_Subset DEF RwSizes
  <1>3. r \notin RwIn => Cardinality(RwIn \cup {r}) = Cardinality(RwIn) + 1
    BY <1>2, FS_AddElement
  <1>4. r \in RwIn => Cardinality(RwIn \ {r}) = Cardinality(RwIn) - 1
    BY <1>2, FS_RemoveElement
  <1>5. Cardinality(RwIn) = 0 <=> RwIn = {}
    BY <1>2, FS_EmptySet
  <1>6. Cardinality(RwIn \ {r}) = 0 <=> RwIn \ {r} = {}
    BY <1>2, FS_EmptySet
  <1>7. Cardinality(RwIn \ {r}) \in Nat
    BY <1>2, FS_CardinalityType
  <1>. QED  BY <1>3, <1>4, <1>5, <1>6, <1>7 DEF RwCountInv, RwTypeInv

(* The door, the room from outside, and the writers.                       *)
LEMMA RwCallRead ==
    ASSUME RwSizes, RwIInv, NEW t \in Readers, Rw!CallRead(t) PROVE RwIInv'
  <1>1. /\ Rw!Move(t, "out", "door") /\ behind' = [w \in Writers |-> behind[w] \cup {t}]
        /\ UNCHANGED <<readers, rwMutex, roomEmpty, turnstile>>
    BY DEF Rw!CallRead
  <1>2. /\ rwPc' \in [Readers \cup Writers -> RwReading \cup RwWriting]
        /\ rwPc[t] = "out" /\ rwPc'[t] = "door"
        /\ \A u \in Readers \cup Writers : u # t => rwPc'[u] = rwPc[u]
        /\ \A r \in Readers : rwPc'[r] \in RwReading
        /\ \A w \in Writers : w # t /\ rwPc'[w] = rwPc[w] /\ rwPc'[w] \in RwWriting
    BY <1>1, RwMoveR DEF RwIInv, RwReading
  <1>3. RwTypeInv'
    BY <1>1, <1>2 DEF RwIInv, RwTypeInv
  <1>4. RwMutexInv' /\ RwCountInv'
    BY <1>1, <1>2, RwSame DEF RwIInv, RwInside, RwCounted
  <1>5. RwRoomInv'
    BY <1>1, <1>2 DEF RwIInv, RwRoomInv, RwInRoom, RwCounted
  <1>6. RwDoorInv'
    BY <1>1, <1>2 DEF RwIInv, RwTypeInv, RwDoorInv, RwAtDoor
  <1>. QED  BY <1>3, <1>4, <1>5, <1>6 DEF RwIInv

LEMMA RwPassDoor ==
    ASSUME RwSizes, RwIInv, NEW t \in Readers, Rw!PassDoor(t) PROVE RwIInv'
  <1>1. /\ Rw!Move(t, "door", "through") /\ turnstile > 0 /\ turnstile' = turnstile - 1
        /\ UNCHANGED <<readers, rwMutex, roomEmpty, behind>>
    BY DEF Rw!PassDoor, Rw!P
  <1>2. /\ rwPc' \in [Readers \cup Writers -> RwReading \cup RwWriting]
        /\ rwPc[t] = "door" /\ rwPc'[t] = "through"
        /\ \A u \in Readers \cup Writers : u # t => rwPc'[u] = rwPc[u]
        /\ \A r \in Readers : rwPc'[r] \in RwReading
        /\ \A w \in Writers : w # t /\ rwPc'[w] = rwPc[w] /\ rwPc'[w] \in RwWriting
    BY <1>1, RwMoveR DEF RwIInv, RwReading
  <1>3. turnstile = 1 /\ turnstile' = 0
    BY <1>1 DEF RwIInv, RwTypeInv
  <1>4. RwTypeInv'
    BY <1>1, <1>2, <1>3 DEF RwIInv, RwTypeInv
  <1>5. RwMutexInv' /\ RwCountInv'
    BY <1>1, <1>2, RwSame DEF RwIInv, RwInside, RwCounted
  <1>6. RwRoomInv'
    BY <1>1, <1>2 DEF RwIInv, RwRoomInv, RwInRoom, RwCounted
  <1>7. RwDoorInv'
    BY <1>1, <1>2, <1>3 DEF RwIInv, RwDoorInv, RwAtDoor
  <1>. QED  BY <1>4, <1>5, <1>6, <1>7 DEF RwIInv

LEMMA RwLeaveDoor ==
    ASSUME RwSizes, RwIInv, NEW t \in Readers, Rw!LeaveDoor(t) PROVE RwIInv'
  <1>1. /\ Rw!Move(t, "through", "enter") /\ turnstile' = turnstile + 1
        /\ UNCHANGED <<readers, rwMutex, roomEmpty, behind>>
    BY DEF Rw!LeaveDoor, Rw!V
  <1>2. /\ rwPc' \in [Readers \cup Writers -> RwReading \cup RwWriting]
        /\ rwPc[t] = "through" /\ rwPc'[t] = "enter"
        /\ \A u \in Readers \cup Writers : u # t => rwPc'[u] = rwPc[u]
        /\ \A r \in Readers : rwPc'[r] \in RwReading
        /\ \A w \in Writers : w # t /\ rwPc'[w] = rwPc[w] /\ rwPc'[w] \in RwWriting
    BY <1>1, RwMoveR DEF RwIInv, RwReading
  <1>3. turnstile = 0 /\ turnstile' = 1
    BY <1>1, <1>2 DEF RwIInv, RwTypeInv, RwDoorInv, RwAtDoor
  <1>4. RwTypeInv'
    BY <1>1, <1>2, <1>3 DEF RwIInv, RwTypeInv
  <1>5. RwMutexInv' /\ RwCountInv'
    BY <1>1, <1>2, RwSame DEF RwIInv, RwInside, RwCounted
  <1>6. RwRoomInv'
    BY <1>1, <1>2 DEF RwIInv, RwRoomInv, RwInRoom, RwCounted
  <1>7. RwDoorInv'
    <2>1. \A u \in Readers \cup Writers : rwPc'[u] \notin RwAtDoor
      BY <1>2 DEF RwIInv, RwDoorInv, RwAtDoor
    <2>. QED  BY <2>1 DEF RwDoorInv, RwAtDoor
  <1>. QED  BY <1>4, <1>5, <1>6, <1>7 DEF RwIInv

LEMMA RwCallWrite ==
    ASSUME RwSizes, RwIInv, NEW t \in Writers, Rw!CallWrite(t) PROVE RwIInv'
  <1>1. /\ Rw!Move(t, "out", "door")
        /\ UNCHANGED <<readers, rwMutex, roomEmpty, turnstile, behind>>
    BY DEF Rw!CallWrite
  <1>2. /\ rwPc' \in [Readers \cup Writers -> RwReading \cup RwWriting]
        /\ rwPc[t] = "out" /\ rwPc'[t] = "door"
        /\ \A u \in Readers \cup Writers : u # t => rwPc'[u] = rwPc[u]
        /\ \A w \in Writers : rwPc'[w] \in RwWriting
        /\ \A r \in Readers : r # t /\ rwPc'[r] = rwPc[r] /\ rwPc'[r] \in RwReading
    BY <1>1, RwMoveW DEF RwIInv, RwWriting
  <1>3. RwTypeInv'
    BY <1>1, <1>2 DEF RwIInv, RwTypeInv
  <1>4. RwMutexInv' /\ RwCountInv'
    BY <1>1, <1>2, RwSame DEF RwIInv
  <1>5. RwRoomInv'
    BY <1>1, <1>2 DEF RwIInv, RwRoomInv, RwInRoom, RwCounted
  <1>6. RwDoorInv'
    BY <1>1, <1>2 DEF RwIInv, RwTypeInv, RwDoorInv, RwAtDoor
  <1>. QED  BY <1>3, <1>4, <1>5, <1>6 DEF RwIInv

LEMMA RwShutDoor ==
    ASSUME RwSizes, RwIInv, NEW t \in Writers, Rw!ShutDoor(t) PROVE RwIInv'
  <1>1. /\ Rw!Move(t, "door", "room") /\ turnstile > 0 /\ turnstile' = turnstile - 1
        /\ behind' = [behind EXCEPT ![t] = Rw!At({"out", "door"}) \cap Readers]
        /\ UNCHANGED <<readers, rwMutex, roomEmpty>>
    BY DEF Rw!ShutDoor, Rw!P
  <1>2. /\ rwPc' \in [Readers \cup Writers -> RwReading \cup RwWriting]
        /\ rwPc[t] = "door" /\ rwPc'[t] = "room"
        /\ \A u \in Readers \cup Writers : u # t => rwPc'[u] = rwPc[u]
        /\ \A w \in Writers : rwPc'[w] \in RwWriting
        /\ \A r \in Readers : r # t /\ rwPc'[r] = rwPc[r] /\ rwPc'[r] \in RwReading
    BY <1>1, RwMoveW DEF RwIInv, RwWriting
  <1>3. turnstile = 1 /\ turnstile' = 0
    BY <1>1 DEF RwIInv, RwTypeInv
  <1>4. /\ behind' \in [Writers -> SUBSET Readers]
        /\ \A r \in behind'[t] : r \in Readers /\ rwPc[r] \in {"out", "door"}
    BY <1>1 DEF RwIInv, RwTypeInv, Rw!At
  <1>5. RwTypeInv'
    BY <1>1, <1>2, <1>3, <1>4 DEF RwIInv, RwTypeInv
  <1>6. RwMutexInv' /\ RwCountInv'
    BY <1>1, <1>2, RwSame DEF RwIInv
  <1>7. RwRoomInv'
    BY <1>1, <1>2 DEF RwIInv, RwRoomInv, RwInRoom, RwCounted
  <1>8. RwDoorInv'
    <2>1. \A u \in Readers \cup Writers : rwPc'[u] \in RwAtDoor => u = t
      BY <1>2, <1>3 DEF RwIInv, RwDoorInv, RwAtDoor
    <2>2. \A r \in behind'[t] : rwPc'[r] \in {"out", "door"}
      BY <1>2, <1>4
    <2>. QED  BY <1>3, <2>1, <2>2 DEF RwDoorInv, RwAtDoor
  <1>. QED  BY <1>5, <1>6, <1>7, <1>8 DEF RwIInv

LEMMA RwTakeRoom ==
    ASSUME RwSizes, RwIInv, NEW t \in Writers, Rw!TakeRoom(t) PROVE RwIInv'
  <1>1. /\ Rw!Move(t, "room", "writing") /\ roomEmpty > 0 /\ roomEmpty' = roomEmpty - 1
        /\ UNCHANGED <<readers, rwMutex, turnstile, behind>>
    BY DEF Rw!TakeRoom, Rw!P
  <1>2. /\ rwPc' \in [Readers \cup Writers -> RwReading \cup RwWriting]
        /\ rwPc[t] = "room" /\ rwPc'[t] = "writing"
        /\ \A u \in Readers \cup Writers : u # t => rwPc'[u] = rwPc[u]
        /\ \A w \in Writers : rwPc'[w] \in RwWriting
        /\ \A r \in Readers : r # t /\ rwPc'[r] = rwPc[r] /\ rwPc'[r] \in RwReading
    BY <1>1, RwMoveW DEF RwIInv, RwWriting
  <1>3. roomEmpty = 1 /\ roomEmpty' = 0
    BY <1>1 DEF RwIInv, RwTypeInv
  <1>4. RwTypeInv'
    BY <1>1, <1>2, <1>3 DEF RwIInv, RwTypeInv
  <1>5. RwMutexInv' /\ RwCountInv'
    BY <1>1, <1>2, RwSame DEF RwIInv
  <1>6. RwRoomInv'
    BY <1>1, <1>2, <1>3 DEF RwIInv, RwRoomInv, RwInRoom, RwCounted
  <1>7. RwDoorInv'
    BY <1>1, <1>2 DEF RwIInv, RwTypeInv, RwDoorInv, RwAtDoor
  <1>. QED  BY <1>4, <1>5, <1>6, <1>7 DEF RwIInv

LEMMA RwOpenDoor ==
    ASSUME RwSizes, RwIInv, NEW t \in Writers, Rw!OpenDoor(t) PROVE RwIInv'
  <1>1. /\ Rw!Move(t, "writing", "openRoom") /\ turnstile' = turnstile + 1
        /\ UNCHANGED <<readers, rwMutex, roomEmpty, behind>>
    BY DEF Rw!OpenDoor, Rw!V
  <1>2. /\ rwPc' \in [Readers \cup Writers -> RwReading \cup RwWriting]
        /\ rwPc[t] = "writing" /\ rwPc'[t] = "openRoom"
        /\ \A u \in Readers \cup Writers : u # t => rwPc'[u] = rwPc[u]
        /\ \A w \in Writers : rwPc'[w] \in RwWriting
        /\ \A r \in Readers : r # t /\ rwPc'[r] = rwPc[r] /\ rwPc'[r] \in RwReading
    BY <1>1, RwMoveW DEF RwIInv, RwWriting
  <1>3. turnstile = 0 /\ turnstile' = 1
    BY <1>1, <1>2 DEF RwIInv, RwTypeInv, RwDoorInv, RwAtDoor
  <1>4. RwTypeInv'
    BY <1>1, <1>2, <1>3 DEF RwIInv, RwTypeInv
  <1>5. RwMutexInv' /\ RwCountInv'
    BY <1>1, <1>2, RwSame DEF RwIInv
  <1>6. RwRoomInv'
    BY <1>1, <1>2 DEF RwIInv, RwRoomInv, RwInRoom, RwCounted
  <1>7. RwDoorInv'
    <2>1. \A u \in Readers \cup Writers : rwPc'[u] \notin RwAtDoor
      BY <1>2 DEF RwIInv, RwDoorInv, RwAtDoor
    <2>. QED  BY <2>1 DEF RwDoorInv, RwAtDoor
  <1>. QED  BY <1>4, <1>5, <1>6, <1>7 DEF RwIInv

LEMMA RwOpenRoom ==
    ASSUME RwSizes, RwIInv, NEW t \in Writers, Rw!OpenRoom(t) PROVE RwIInv'
  <1>1. /\ Rw!Move(t, "openRoom", "out") /\ roomEmpty' = roomEmpty + 1
        /\ UNCHANGED <<readers, rwMutex, turnstile, behind>>
    BY DEF Rw!OpenRoom, Rw!V
  <1>2. /\ rwPc' \in [Readers \cup Writers -> RwReading \cup RwWriting]
        /\ rwPc[t] = "openRoom" /\ rwPc'[t] = "out"
        /\ \A u \in Readers \cup Writers : u # t => rwPc'[u] = rwPc[u]
        /\ \A w \in Writers : rwPc'[w] \in RwWriting
        /\ \A r \in Readers : r # t /\ rwPc'[r] = rwPc[r] /\ rwPc'[r] \in RwReading
    BY <1>1, RwMoveW DEF RwIInv, RwWriting
  <1>3. roomEmpty = 0 /\ roomEmpty' = 1
    BY <1>1, <1>2 DEF RwIInv, RwTypeInv, RwRoomInv, RwInRoom
  <1>4. RwTypeInv'
    BY <1>1, <1>2, <1>3 DEF RwIInv, RwTypeInv
  <1>5. RwMutexInv' /\ RwCountInv'
    BY <1>1, <1>2, RwSame DEF RwIInv
  <1>6. RwRoomInv'
    <2>1. \A u \in Readers \cup Writers : rwPc'[u] \notin RwInRoom
      BY <1>2 DEF RwIInv, RwRoomInv, RwInRoom
    <2>. QED  BY <1>2, <2>1 DEF RwIInv, RwRoomInv, RwInRoom
  <1>7. RwDoorInv'
    BY <1>1, <1>2 DEF RwIInv, RwTypeInv, RwDoorInv, RwAtDoor
  <1>. QED  BY <1>4, <1>5, <1>6, <1>7 DEF RwIInv

(* The readers in the room.                                                *)
LEMMA RwEnterRoom ==
    ASSUME RwSizes, RwIInv, NEW t \in Readers, Rw!EnterRoom(t) PROVE RwIInv'
  <1>. DEFINE to == IF readers + 1 = 1 THEN "lockRoom" ELSE "entered"
  <1>1. /\ Rw!Move(t, "enter", to) /\ rwMutex > 0 /\ rwMutex' = rwMutex - 1
        /\ readers' = readers + 1 /\ UNCHANGED <<roomEmpty, turnstile, behind>>
    BY DEF Rw!EnterRoom, Rw!P
  <1>2. readers \in Nat
    BY DEF RwIInv, RwTypeInv
  <1>3. to \in {"lockRoom", "entered"} /\ (to = "lockRoom" => readers = 0) /\ (to = "entered" => readers # 0)
    BY <1>2
  <1>. HIDE DEF to
  <1>4. /\ rwPc' \in [Readers \cup Writers -> RwReading \cup RwWriting]
        /\ rwPc[t] = "enter" /\ rwPc'[t] = to
        /\ \A u \in Readers \cup Writers : u # t => rwPc'[u] = rwPc[u]
        /\ \A r \in Readers : rwPc'[r] \in RwReading
        /\ \A w \in Writers : w # t /\ rwPc'[w] = rwPc[w] /\ rwPc'[w] \in RwWriting
    BY <1>1, <1>3, RwMoveR DEF RwIInv, RwReading
  <1>5. rwMutex = 1 /\ rwMutex' = 0 /\ \A r \in Readers : rwPc[r] \notin RwInside
    BY <1>1 DEF RwIInv, RwTypeInv, RwMutexInv
  <1>6. t \notin RwIn /\ RwIn' = RwIn \cup {t}
    BY <1>3, <1>4 DEF RwIn, RwCounted
  <1>7. RwTypeInv' /\ RwCountInv' /\ RwMutexInv'
    <2>1. RwCountInv'
      BY <1>1, <1>6, RwCounts DEF RwIInv, RwCountInv
    <2>2. RwMutexInv'
      BY <1>4, <1>5 DEF RwMutexInv
    <2>. QED  BY <1>1, <1>2, <1>4, <1>5, <2>1, <2>2 DEF RwIInv, RwTypeInv
  <1>8. CASE to = "lockRoom"
    <2>1. \A q \in Readers : rwPc[q] \notin RwCounted
      BY <1>3, <1>8, RwCounts DEF RwIInv, RwIn
    <2>2. \A u \in Readers \cup Writers : rwPc'[u] \in RwInRoom => rwPc[u] \in RwInRoom
      BY <1>4, <1>8 DEF RwInRoom
    <2>3. \A q \in Readers : /\ rwPc'[q] \in RwCounted => q = t
                             /\ rwPc'[q] # "unlockRoom"
      BY <1>4, <1>5, <1>8, <2>1 DEF RwCounted, RwInside
    <2>4. RwRoomInv'
      <3>1. roomEmpty' = 1 => \A u \in Readers \cup Writers : rwPc'[u] \notin RwInRoom
        BY <1>1, <2>2 DEF RwIInv, RwRoomInv
      <3>2. \A w \in Writers, u \in Readers \cup Writers :
              rwPc'[w] \in RwInRoom /\ rwPc'[u] \in RwInRoom => u = w
        BY <2>2 DEF RwIInv, RwRoomInv
      <3>3. \A r, q \in Readers :
              /\ rwPc'[r] = "lockRoom" /\ rwPc'[q] \in RwCounted => q = r
              /\ rwPc'[r] = "unlockRoom" => rwPc'[q] \notin RwCounted
        BY <2>3 DEF RwCounted
      <3>. QED  BY <3>1, <3>2, <3>3 DEF RwRoomInv
    <2>5. RwDoorInv'
      BY <1>1, <1>4, <1>8 DEF RwIInv, RwTypeInv, RwDoorInv, RwAtDoor
    <2>. QED  BY <1>7, <2>4, <2>5 DEF RwIInv
  <1>9. CASE to = "entered"
    <2>1. PICK q \in Readers : rwPc[q] = "reading"
      <3>1. PICK q \in RwIn : TRUE
        BY <1>3, <1>9, RwCounts DEF RwIInv
      <3>2. q \in Readers /\ rwPc[q] = "reading"
        BY <1>5, <3>1 DEF RwIn, RwCounted, RwInside
      <3>. QED  BY <3>2
    <2>2. roomEmpty = 0 /\ \A w \in Writers : rwPc[w] \notin RwInRoom
      BY <2>1 DEF RwIInv, RwTypeInv, RwRoomInv, RwInRoom, RwSizes
    <2>3. \A r \in Readers : rwPc'[r] \notin {"lockRoom", "unlockRoom"}
      BY <1>4, <1>5, <1>9 DEF RwInside
    <2>4. RwRoomInv'
      BY <1>1, <1>4, <2>2, <2>3 DEF RwRoomInv
    <2>5. RwDoorInv'
      BY <1>1, <1>4, <1>9 DEF RwIInv, RwTypeInv, RwDoorInv, RwAtDoor
    <2>. QED  BY <1>7, <2>4, <2>5 DEF RwIInv
  <1>. QED  BY <1>3, <1>8, <1>9

LEMMA RwLockRoom ==
    ASSUME RwSizes, RwIInv, NEW t \in Readers, Rw!LockRoom(t) PROVE RwIInv'
  <1>1. /\ Rw!Move(t, "lockRoom", "entered") /\ roomEmpty > 0 /\ roomEmpty' = roomEmpty - 1
        /\ UNCHANGED <<readers, rwMutex, turnstile, behind>>
    BY DEF Rw!LockRoom, Rw!P
  <1>2. /\ rwPc' \in [Readers \cup Writers -> RwReading \cup RwWriting]
        /\ rwPc[t] = "lockRoom" /\ rwPc'[t] = "entered"
        /\ \A u \in Readers \cup Writers : u # t => rwPc'[u] = rwPc[u]
        /\ \A r \in Readers : rwPc'[r] \in RwReading
        /\ \A w \in Writers : w # t /\ rwPc'[w] = rwPc[w] /\ rwPc'[w] \in RwWriting
    BY <1>1, RwMoveR DEF RwIInv, RwReading
  <1>3. roomEmpty = 1 /\ roomEmpty' = 0
    BY <1>1 DEF RwIInv, RwTypeInv
  <1>4. RwTypeInv'
    BY <1>1, <1>2, <1>3 DEF RwIInv, RwTypeInv
  <1>5. RwMutexInv' /\ RwCountInv'
    BY <1>1, <1>2, RwSame DEF RwIInv, RwInside, RwCounted
  <1>6. RwRoomInv'
    BY <1>1, <1>2, <1>3 DEF RwIInv, RwRoomInv, RwMutexInv, RwInRoom, RwCounted, RwInside
  <1>7. RwDoorInv'
    BY <1>1, <1>2 DEF RwIInv, RwTypeInv, RwDoorInv, RwAtDoor
  <1>. QED  BY <1>4, <1>5, <1>6, <1>7 DEF RwIInv

LEMMA RwEntered ==
    ASSUME RwSizes, RwIInv, NEW t \in Readers, Rw!Entered(t) PROVE RwIInv'
  <1>1. /\ Rw!Move(t, "entered", "reading") /\ rwMutex' = rwMutex + 1
        /\ UNCHANGED <<readers, roomEmpty, turnstile, behind>>
    BY DEF Rw!Entered, Rw!V
  <1>2. /\ rwPc' \in [Readers \cup Writers -> RwReading \cup RwWriting]
        /\ rwPc[t] = "entered" /\ rwPc'[t] = "reading"
        /\ \A u \in Readers \cup Writers : u # t => rwPc'[u] = rwPc[u]
        /\ \A r \in Readers : rwPc'[r] \in RwReading
        /\ \A w \in Writers : w # t /\ rwPc'[w] = rwPc[w] /\ rwPc'[w] \in RwWriting
    BY <1>1, RwMoveR DEF RwIInv, RwReading
  <1>3. rwMutex = 0 /\ rwMutex' = 1
    BY <1>1, <1>2 DEF RwIInv, RwTypeInv, RwMutexInv, RwInside
  <1>4. RwTypeInv'
    BY <1>1, <1>2, <1>3 DEF RwIInv, RwTypeInv
  <1>5. RwMutexInv'
    BY <1>2 DEF RwIInv, RwMutexInv, RwInside
  <1>6. RwCountInv'
    <2>1. RwIn' = RwIn
      BY <1>2 DEF RwIn, RwCounted
    <2>. QED  BY <1>1, <2>1 DEF RwIInv, RwCountInv
  <1>7. RwRoomInv'
    BY <1>1, <1>2 DEF RwIInv, RwRoomInv, RwInRoom, RwCounted
  <1>8. RwDoorInv'
    BY <1>1, <1>2 DEF RwIInv, RwTypeInv, RwDoorInv, RwAtDoor
  <1>. QED  BY <1>4, <1>5, <1>6, <1>7, <1>8 DEF RwIInv

LEMMA RwLeaveRoom ==
    ASSUME RwSizes, RwIInv, NEW t \in Readers, Rw!LeaveRoom(t) PROVE RwIInv'
  <1>. DEFINE to == IF readers - 1 = 0 THEN "unlockRoom" ELSE "left"
  <1>1. /\ Rw!Move(t, "reading", to) /\ rwMutex > 0 /\ rwMutex' = rwMutex - 1
        /\ readers' = readers - 1 /\ UNCHANGED <<roomEmpty, turnstile, behind>>
    BY DEF Rw!LeaveRoom, Rw!P
  <1>2. to \in {"unlockRoom", "left"} /\ (to = "unlockRoom" => readers - 1 = 0)
    OBVIOUS
  <1>. HIDE DEF to
  <1>4. /\ rwPc' \in [Readers \cup Writers -> RwReading \cup RwWriting]
        /\ rwPc[t] = "reading" /\ rwPc'[t] = to
        /\ \A u \in Readers \cup Writers : u # t => rwPc'[u] = rwPc[u]
        /\ \A r \in Readers : rwPc'[r] \in RwReading
        /\ \A w \in Writers : w # t /\ rwPc'[w] = rwPc[w] /\ rwPc'[w] \in RwWriting
    <2>1. RwTypeInv /\ to \in RwReading /\ Rw!Move(t, "reading", to)
      BY <1>1, <1>2 DEF RwIInv, RwReading
    <2>. QED  BY <2>1, RwMoveR
  <1>5. rwMutex = 1 /\ rwMutex' = 0 /\ \A r \in Readers : rwPc[r] \notin RwInside
    BY <1>1 DEF RwIInv, RwTypeInv, RwMutexInv
  <1>6. t \in RwIn /\ RwIn' = RwIn \ {t}
    BY <1>2, <1>4 DEF RwIn, RwCounted
  <1>7. RwTypeInv' /\ RwCountInv' /\ RwMutexInv'
    <2>1. readers' = Cardinality(RwIn') /\ readers' \in Nat
      BY <1>1, <1>6, RwCounts DEF RwIInv
    <2>2. RwMutexInv'
      BY <1>4, <1>5 DEF RwMutexInv
    <2>. QED  BY <1>1, <1>4, <1>5, <2>1, <2>2 DEF RwIInv, RwTypeInv, RwCountInv
  <1>8. to = "unlockRoom" => \A q \in Readers : rwPc'[q] \notin RwCounted
    <2>1. to = "unlockRoom" => RwIn' = {}
      BY <1>2, <1>6, RwCounts DEF RwIInv
    <2>. QED  BY <2>1 DEF RwIn
  <1>9. \A q \in Readers : rwPc'[q] # "lockRoom" /\ (rwPc'[q] = "unlockRoom" => to = "unlockRoom")
    BY <1>2, <1>4, <1>5 DEF RwInside
  <1>10. RwRoomInv'
    <2>1. \A u \in Readers \cup Writers : rwPc'[u] \in RwInRoom => rwPc[u] \in RwInRoom
      BY <1>4 DEF RwInRoom
    <2>. QED  BY <1>1, <1>8, <1>9, <2>1 DEF RwIInv, RwRoomInv
  <1>11. RwDoorInv'
    <2>1. \A u \in Readers \cup Writers : rwPc'[u] \in RwAtDoor => rwPc[u] \in RwAtDoor
      BY <1>2, <1>4 DEF RwAtDoor
    <2>2. \A w \in Writers : rwPc[w] = "room" => t \notin behind[w]
      BY <1>4 DEF RwIInv, RwDoorInv
    <2>. QED  BY <1>1, <1>4, <2>1, <2>2 DEF RwIInv, RwTypeInv, RwDoorInv
  <1>. QED  BY <1>7, <1>10, <1>11 DEF RwIInv

LEMMA RwUnlockRoom ==
    ASSUME RwSizes, RwIInv, NEW t \in Readers, Rw!UnlockRoom(t) PROVE RwIInv'
  <1>1. /\ Rw!Move(t, "unlockRoom", "left") /\ roomEmpty' = roomEmpty + 1
        /\ UNCHANGED <<readers, rwMutex, turnstile, behind>>
    BY DEF Rw!UnlockRoom, Rw!V
  <1>2. /\ rwPc' \in [Readers \cup Writers -> RwReading \cup RwWriting]
        /\ rwPc[t] = "unlockRoom" /\ rwPc'[t] = "left"
        /\ \A u \in Readers \cup Writers : u # t => rwPc'[u] = rwPc[u]
        /\ \A r \in Readers : rwPc'[r] \in RwReading
        /\ \A w \in Writers : w # t /\ rwPc'[w] = rwPc[w] /\ rwPc'[w] \in RwWriting
    BY <1>1, RwMoveR DEF RwIInv, RwReading
  <1>3. roomEmpty = 0 /\ roomEmpty' = 1
    BY <1>1, <1>2 DEF RwIInv, RwTypeInv, RwRoomInv, RwInRoom
  <1>4. RwTypeInv'
    BY <1>1, <1>2, <1>3 DEF RwIInv, RwTypeInv
  <1>5. RwMutexInv' /\ RwCountInv'
    BY <1>1, <1>2, RwSame DEF RwIInv, RwInside, RwCounted
  <1>6. \A u \in Readers \cup Writers : rwPc'[u] \notin RwInRoom
    <2>1. \A r \in Readers : rwPc[r] \notin RwCounted /\ (rwPc[r] = "unlockRoom" => r = t)
      BY <1>2 DEF RwIInv, RwRoomInv, RwMutexInv, RwInside
    <2>2. \A w \in Writers : rwPc[w] \notin RwInRoom
      BY <1>2 DEF RwIInv, RwRoomInv, RwInRoom
    <2>. QED  BY <1>2, <2>1, <2>2 DEF RwInRoom, RwCounted, RwReading
  <1>7. RwRoomInv'
    BY <1>2, <1>6 DEF RwIInv, RwRoomInv, RwInRoom, RwCounted
  <1>8. RwDoorInv'
    BY <1>1, <1>2 DEF RwIInv, RwTypeInv, RwDoorInv, RwAtDoor
  <1>. QED  BY <1>4, <1>5, <1>7, <1>8 DEF RwIInv

LEMMA RwLeft ==
    ASSUME RwSizes, RwIInv, NEW t \in Readers, Rw!Left(t) PROVE RwIInv'
  <1>1. /\ Rw!Move(t, "left", "out") /\ rwMutex' = rwMutex + 1
        /\ UNCHANGED <<readers, roomEmpty, turnstile, behind>>
    BY DEF Rw!Left, Rw!V
  <1>2. /\ rwPc' \in [Readers \cup Writers -> RwReading \cup RwWriting]
        /\ rwPc[t] = "left" /\ rwPc'[t] = "out"
        /\ \A u \in Readers \cup Writers : u # t => rwPc'[u] = rwPc[u]
        /\ \A r \in Readers : rwPc'[r] \in RwReading
        /\ \A w \in Writers : w # t /\ rwPc'[w] = rwPc[w] /\ rwPc'[w] \in RwWriting
    BY <1>1, RwMoveR DEF RwIInv, RwReading
  <1>3. rwMutex = 0 /\ rwMutex' = 1
    BY <1>1, <1>2 DEF RwIInv, RwTypeInv, RwMutexInv, RwInside
  <1>4. RwTypeInv'
    BY <1>1, <1>2, <1>3 DEF RwIInv, RwTypeInv
  <1>5. RwMutexInv'
    BY <1>2 DEF RwIInv, RwMutexInv, RwInside
  <1>6. RwCountInv'
    <2>1. RwIn' = RwIn
      BY <1>2 DEF RwIn, RwCounted
    <2>. QED  BY <1>1, <2>1 DEF RwIInv, RwCountInv
  <1>7. RwRoomInv'
    BY <1>1, <1>2 DEF RwIInv, RwRoomInv, RwInRoom, RwCounted
  <1>8. RwDoorInv'
    BY <1>1, <1>2 DEF RwIInv, RwTypeInv, RwDoorInv, RwAtDoor
  <1>. QED  BY <1>4, <1>5, <1>6, <1>7, <1>8 DEF RwIInv

LEMMA RwStep ==
    ASSUME RwSizes, RwIInv, [Rw!Next]_Rw!vars PROVE RwIInv'
  <1>1. CASE UNCHANGED Rw!vars
    BY <1>1 DEF RwIInv, RwTypeInv, RwMutexInv, RwCountInv, RwIn, RwRoomInv, RwDoorInv, Rw!vars
  <1>2. ASSUME NEW r \in Readers, Rw!CallRead(r) \/ Rw!ReaderStep(r) PROVE RwIInv'
    BY <1>2, RwCallRead, RwPassDoor, RwLeaveDoor, RwEnterRoom, RwLockRoom, RwEntered, RwLeaveRoom,
       RwUnlockRoom, RwLeft DEF Rw!ReaderStep
  <1>3. ASSUME NEW w \in Writers, Rw!CallWrite(w) \/ Rw!WriterStep(w) PROVE RwIInv'
    BY <1>3, RwCallWrite, RwShutDoor, RwTakeRoom, RwOpenDoor, RwOpenRoom DEF Rw!WriterStep
  <1>. QED  BY <1>1, <1>2, <1>3 DEF Rw!Next

LEMMA RwExcludes == ASSUME RwSizes, RwIInv PROVE Rw!OneWriter /\ Rw!NoReaders
  BY DEF RwSizes, RwIInv, RwRoomInv, RwInRoom, Rw!OneWriter, Rw!NoReaders

(* A reader that has not passed the door does not get in by one step. *)
LEMMA RwDoor ==
    ASSUME RwSizes, RwIInv, [Rw!Next]_Rw!vars
    PROVE  \A w \in Writers : rwPc[w] = "room" => \A r \in behind[w] : ~Rw!GetsIn(r)
  <1>1. ASSUME NEW r \in Readers, Rw!GetsIn(r) PROVE rwPc[r] = "entered"
    <2>1. rwPc[r] # "reading" /\ rwPc'[r] = "reading" /\ rwPc \in [Readers \cup Writers -> RwReading \cup RwWriting]
      BY <1>1 DEF Rw!GetsIn, RwIInv, RwTypeInv
    <2>2. \A t, from, to : Rw!Move(t, from, to) /\ to # "reading" => rwPc'[r] # "reading"
      BY <2>1 DEF Rw!Move
    <2>3. ~UNCHANGED Rw!vars
      BY <2>1 DEF Rw!vars
    <2>4. \A q \in Readers : ~Rw!CallRead(q) /\ ~Rw!PassDoor(q) /\ ~Rw!LeaveDoor(q)
                             /\ ~Rw!EnterRoom(q) /\ ~Rw!LockRoom(q) /\ ~Rw!LeaveRoom(q)
                             /\ ~Rw!UnlockRoom(q) /\ ~Rw!Left(q)
      BY <2>1, <2>2 DEF Rw!CallRead, Rw!PassDoor, Rw!LeaveDoor, Rw!EnterRoom, Rw!LockRoom,
                        Rw!LeaveRoom, Rw!UnlockRoom, Rw!Left
    <2>5. \A w \in Writers : ~Rw!CallWrite(w) /\ ~Rw!WriterStep(w)
      BY <2>1, <2>2 DEF Rw!CallWrite, Rw!WriterStep, Rw!ShutDoor, Rw!TakeRoom, Rw!OpenDoor,
                        Rw!OpenRoom
    <2>6. PICK q \in Readers : Rw!Entered(q)
      BY <2>3, <2>4, <2>5 DEF Rw!Next, Rw!ReaderStep
    <2>. QED  BY <2>1, <2>6 DEF Rw!Entered, Rw!Move
  <1>2. \A w \in Writers : \A r \in behind[w] : r \in Readers
    BY DEF RwIInv, RwTypeInv
  <1>. QED  BY <1>1, <1>2 DEF RwIInv, RwDoorInv

-----------------------------------------------------------------------------
(* The primitives together.                                                *)

(* A behaviour of MCSync is one of each primitive. *)
LEMMA SyncImplements ==
    SyncSpec => /\ Spec
                /\ Spin!Init /\ [][Spin!Next]_Spin!vars
                /\ Sem!Init /\ [][Sem!Next]_Sem!vars
                /\ Bar!Init /\ [][Bar!Next]_Bar!vars
                /\ Rw!Init /\ [][Rw!Next]_Rw!vars
  <1>1. SyncInit => Init /\ Spin!Init /\ Sem!Init /\ Bar!Init /\ Rw!Init
    BY DEF SyncInit
  <1>2. [SyncNext]_syncVars => [Next]_vars
    BY DEF SyncNext, Only, syncVars, vars
  <1>3. [SyncNext]_syncVars => [Spin!Next]_Spin!vars
    BY DEF SyncNext, Only, syncVars, spinVars, Spin!vars
  <1>4. [SyncNext]_syncVars => [Sem!Next]_Sem!vars
    BY DEF SyncNext, Only, syncVars, semVars, Sem!vars
  <1>5. [SyncNext]_syncVars => [Bar!Next]_Bar!vars
    BY DEF SyncNext, Only, syncVars, barVars, Bar!vars
  <1>6. [SyncNext]_syncVars => [Rw!Next]_Rw!vars
    BY DEF SyncNext, Only, syncVars, rwVars, Rw!vars
  <1>. QED  BY <1>1, <1>2, <1>3, <1>4, <1>5, <1>6, PTL DEF SyncSpec, Spec

(* The locks that spin have one holder at a time, and the ticket lock      *)
(* serves in the order of the numbers, for any number of threads that its  *)
(* counters can tell apart.                                                *)
THEOREM SpinnersInOrder == SyncSpec => []SpinningLocks
  <1>1. SpSizes
    BY SizesAssumption DEF SpSizes
  <1>. QED  BY <1>1, SyncImplements, SpInit, SpStep, SpHolds, PTL

(* msem is the semaphore that toolkit.h promises, and no signal is lost on *)
(* a thread that does not need it, spurious wake-ups included, for any     *)
(* number of threads and any values.                                       *)
THEOREM SemaphoreKept == SyncSpec => SemImplements
  <1>1. SeSizes
    BY SizesAssumption DEF SeSizes
  <1>2. Sem!Init => Sem!waiting = {}
    BY DEF Sem!Init, Sem!waiting, Sem!At
  <1>3. SeIInv => Sem!UnitsSpokenFor
    BY DEF SeIInv
  <1>4. SeIInv /\ [Sem!Next]_Sem!vars
          => [Sem!SemPost \/ \E t \in Threads : Sem!SemCall(t) \/ Sem!SemWait(t)]_<<value, Sem!waiting>>
    BY <1>1, SeStep
  <1>. QED
    BY <1>1, <1>2, <1>3, <1>4, SyncImplements, SeInit, SeStep, PTL
    DEF SemImplements, Sem!ImplementsSemaphore, Sem!Semaphore

(* Nobody returns from a round of the barrier that somebody has not        *)
(* joined, for any number of threads and of rounds.                        *)
THEOREM BarrierKept == SyncSpec => []BarrierRounds
  <1>1. BaSizes /\ Threads # {}
    BY SizesAssumption DEF BaSizes
  <1>. QED  BY <1>1, SyncImplements, BaInit, BaStep, BaHolds, PTL

(* Any number of readers or one writer, never both, and no reader gets in  *)
(* behind a writer's back, for any readers and writers.                    *)
THEOREM ReadersExcluded == SyncSpec => RwLockWorks
  <1>1. RwSizes
    BY SizesAssumption DEF RwSizes
  <1>2. RwIInv => Rw!OneWriter /\ Rw!NoReaders
    BY <1>1, RwExcludes
  <1>3. RwIInv /\ [Rw!Next]_Rw!vars
          => [\A w \in Writers : rwPc[w] = "room" => \A r \in behind[w] : ~Rw!GetsIn(r)]_Rw!vars
    BY <1>1, RwDoor
  <1>. QED
    BY <1>1, <1>2, <1>3, SyncImplements, RwInit, RwStep, PTL
    DEF RwLockWorks, Rw!DoorHolds

=============================================================================

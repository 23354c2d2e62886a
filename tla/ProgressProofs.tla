--------------------------- MODULE ProgressProofs ---------------------------
(***************************************************************************)
(* Proofs about the programs of MCProgress, for any sizes: stop-and-wait   *)
(* delivers in order and once, and a clean exit of the client means the    *)
(* whole stream; the schedulers do not stall; the disk driver keeps its    *)
(* requests and the web server its clients apart.                          *)
(***************************************************************************)
EXTENDS MCProgress, FiniteSetTheorems, WellFoundedInduction, TLAPS

(* The client's own state: it waits only for a packet it has, and gives up *)
(* at most once per packet.                                                *)
ClientOK == (waiting => cur <= N) /\ giveups <= cur

(* Every acknowledgement under way is true. *)
AcksSound ==
    \A m \in BagToSet(net) : m.type = "ACK" =>
        (m.seq < N => m.seq < expected) /\ (m.seq = N => finSeen)

(* A client that has given up nothing had an answer to each packet so far. *)
NothingLeftOut ==
    giveups = 0 => /\ acked = {i \in 0..(N - 1) : i < cur}
                   /\ cur = N + 1 => finSeen

RelInv == TypeOK /\ ClientOK /\ InOrderOnce /\ AckedDelivered /\ AcksSound /\ NothingLeftOut

-----------------------------------------------------------------------------

(* net_send leaves the network a bag and adds at most the datagram sent. *)
LEMMA SendNet ==
    ASSUME NEW bag, IsABag(bag), NEW m, NEW sent \in AfterSend(bag, m)
    PROVE  IsABag(sent) /\ BagToSet(sent) \subseteq BagToSet(bag) \cup {m}
  <1>1. CASE sent = bag
    BY <1>1 DEF BagToSet
  <1>2. CASE sent = bag (+) SetToBag({m})
    BY <1>2 DEF IsABag, BagToSet, SetToBag, (+)
  <1>. QED  BY <1>1, <1>2 DEF AfterSend

(* net_recv leaves the network a bag and adds nothing to it. *)
LEMMA RecvNet ==
    ASSUME IsABag(net), NEW m
    PROVE  IsABag(Without(m)) /\ BagToSet(Without(m)) \subseteq BagToSet(net)
  BY DEF IsABag, BagToSet, SetToBag, (-), Without

(* A datagram received and one sent in its place. *)
LEMMA AnswerNet ==
    ASSUME IsABag(net), NEW m, NEW x, net' \in AfterSend(Without(m), x)
    PROVE  IsABag(net') /\ BagToSet(net') \subseteq BagToSet(net) \cup {x}
  <1>1. IsABag(Without(m)) /\ BagToSet(Without(m)) \subseteq BagToSet(net)
    BY RecvNet
  <1>2. IsABag(net') /\ BagToSet(net') \subseteq BagToSet(Without(m)) \cup {x}
    BY <1>1, SendNet
  <1>. QED  BY <1>1, <1>2

(* What a received datagram can be. *)
LEMMA Datagrams ==
    ASSUME TypeOK, NEW m \in BagToSet(net)
    PROVE  /\ m.type = "DATA" => m.seq \in 0..(N - 1) /\ m.payload = Payload(m.seq)
           /\ m.type = "FIN" => m.seq = N
           /\ m.type = "ACK" => m.seq \in 0..N
           /\ m.type \in {"DATA", "FIN", "ACK"} /\ m.seq \in Int
  BY ReliableAssumption DEF TypeOK, DatagramType, Data, Fin, Ack

(* The invariant holds initially. *)
LEMMA RelInit == Init => RelInv
  <1>1. SUFFICES ASSUME Init PROVE RelInv
    OBVIOUS
  <1>2. IsABag(net) /\ BagToSet(net) = {}
    BY <1>1 DEF Init, IsABag, EmptyBag, SetToBag, BagToSet
  <1>3. TypeOK
    <2>1. delivered \in Seq({Payload(i) : i \in 0..(N - 1)})
      BY <1>1 DEF Init
    <2>2. cur \in 0..(N + 1) /\ tries \in 0..Retries /\ giveups \in 0..(N + 1) /\ expected \in 0..N
      BY <1>1, ReliableAssumption DEF Init
    <2>. QED  BY <1>1, <1>2, <2>1, <2>2, Zenon DEF Init, TypeOK
  <1>4. InOrderOnce
    BY <1>1 DEF Init, InOrderOnce
  <1>. QED
    BY <1>1, <1>2, <1>3, <1>4, ReliableAssumption
    DEF Init, RelInv, ClientOK, AckedDelivered, AcksSound, NothingLeftOut

(* A transmission, the first or another, keeps the invariant. *)
LEMMA SendKeeps ==
    ASSUME RelInv, cur <= N, waiting' = TRUE, tries' \in 0..Retries, net' \in AfterSend(net, Packet),
           UNCHANGED <<cur, acked, giveups, serverVars>>
    PROVE  RelInv'
  <1>. USE ReliableAssumption DEF RelInv
  <1>1. Packet \in DatagramType /\ Packet.type # "ACK"
    BY DEF Packet, DatagramType, Data, Fin, TypeOK
  <1>2. IsABag(net') /\ BagToSet(net') \subseteq BagToSet(net) \cup {Packet}
    BY SendNet DEF TypeOK
  <1>3. TypeOK' /\ ClientOK'
    BY <1>1, <1>2 DEF TypeOK, ClientOK, serverVars
  <1>4. AcksSound'
    BY <1>1, <1>2 DEF AcksSound, serverVars
  <1>. QED  BY <1>3, <1>4 DEF InOrderOnce, AckedDelivered, NothingLeftOut, serverVars

(* The end of send_reliably keeps the invariant. *)
LEMMA FinishKeeps ==
    ASSUME RelInv, waiting, waiting' = FALSE, cur' = cur + 1,
           UNCHANGED <<tries, serverVars>>,
           IsABag(net'), BagToSet(net') \subseteq BagToSet(net),
           \/ giveups' = giveups + 1 /\ acked' = acked
           \/ /\ giveups' = giveups
              /\ acked' = IF cur < N THEN acked \cup {cur} ELSE acked
              /\ cur < N => cur < expected
              /\ cur = N => finSeen
    PROVE  RelInv'
  <1>. USE ReliableAssumption DEF RelInv
  <1>1. cur \in 0..N /\ giveups \in Nat
    BY DEF TypeOK, ClientOK
  <1>2. acked' \subseteq 0..(N - 1) /\ AckedDelivered'
    <2>1. acked' = acked \/ (cur < N /\ acked' = acked \cup {cur} /\ cur < expected)
      OBVIOUS
    <2>2. acked' \subseteq 0..(N - 1)
      <3>1. acked \subseteq 0..(N - 1) /\ (cur < N => cur \in 0..(N - 1))
        BY <1>1 DEF TypeOK
      <3>. QED  BY <2>1, <3>1
    <2>. QED  BY <2>1, <2>2 DEF AckedDelivered, serverVars
  <1>3. ClientOK' /\ giveups' \in 0..(N + 1)
    BY <1>1 DEF TypeOK, ClientOK
  <1>4. TypeOK'
    <2>1. cur' \in 0..(N + 1)
      BY <1>1
    <2>. QED  BY <1>2, <1>3, <2>1 DEF TypeOK, serverVars
  <1>5. AcksSound' /\ InOrderOnce'
    BY DEF AcksSound, InOrderOnce, serverVars
  <1>6. NothingLeftOut'
    <2>1. SUFFICES ASSUME giveups' = 0 PROVE NothingLeftOut'
      BY DEF NothingLeftOut
    <2>2. giveups = 0 /\ acked' = (IF cur < N THEN acked \cup {cur} ELSE acked) /\ (cur = N => finSeen)
      BY <1>1, <2>1
    <2>3. acked = {i \in 0..(N - 1) : i < cur}
      BY <2>2 DEF NothingLeftOut
    <2>4. acked' = {i \in 0..(N - 1) : i < cur'}
      BY <1>1, <2>2, <2>3
    <2>. QED  BY <1>1, <2>2, <2>4 DEF NothingLeftOut, serverVars
  <1>. QED  BY <1>2, <1>3, <1>4, <1>5, <1>6

(* The server's receipt of a datagram keeps the invariant. *)
LEMMA ServeKeeps ==
    ASSUME RelInv, NEW m \in BagToSet(net), Serve(m)
    PROVE  RelInv'
  <1>. USE ReliableAssumption DEF RelInv
  <1>1. CASE Deliver(m)
    <2>1. /\ m.seq = expected /\ expected \in 0..(N - 1) /\ m.payload = Payload(expected)
          /\ expected' = expected + 1 /\ delivered' = Append(delivered, Payload(expected))
          /\ UNCHANGED <<clientVars, finSeen, stopped>>
      BY <1>1, Datagrams DEF Deliver
    <2>2. IsABag(net') /\ BagToSet(net') \subseteq BagToSet(net) \cup {Ack(expected)}
      BY <1>1, <2>1, AnswerNet DEF Deliver, TypeOK
    <2>3. Ack(expected) \in DatagramType /\ Ack(expected).seq = expected
      BY <2>1 DEF DatagramType, Ack
    <2>4. TypeOK'
      BY <2>1, <2>2, <2>3 DEF TypeOK, clientVars
    <2>5. InOrderOnce'
      BY <2>1 DEF InOrderOnce, TypeOK
    <2>6. AcksSound'
      BY <2>1, <2>2, <2>3, Datagrams DEF AcksSound
    <2>. QED
      BY <2>1, <2>4, <2>5, <2>6 DEF ClientOK, AckedDelivered, NothingLeftOut, clientVars, TypeOK
  <1>2. CASE Duplicate(m) \/ ReceiveFin(m)
    <2>1. PICK x : /\ x = Ack(m.seq) /\ m.seq \in 0..N /\ UNCHANGED <<clientVars, expected, delivered, stopped>>
                   /\ (m.seq < N => m.seq < expected) /\ (m.seq = N => finSeen')
                   /\ finSeen' \in BOOLEAN /\ (finSeen => finSeen')
      <3>1. CASE Duplicate(m)
        BY <3>1, Datagrams DEF Duplicate, TypeOK, serverVars
      <3>2. CASE ReceiveFin(m)
        BY <3>2, Datagrams DEF ReceiveFin, TypeOK
      <3>. QED  BY <1>2, <3>1, <3>2
    <2>2. IsABag(net') /\ BagToSet(net') \subseteq BagToSet(net) \cup {x}
      BY <1>2, <2>1, AnswerNet DEF Duplicate, ReceiveFin, TypeOK
    <2>3. x \in DatagramType /\ x.seq = m.seq
      BY <2>1 DEF DatagramType, Ack
    <2>4. TypeOK'
      BY <2>1, <2>2, <2>3 DEF TypeOK, clientVars
    <2>5. AcksSound'
      BY <2>1, <2>2, <2>3 DEF AcksSound
    <2>. QED
      BY <2>1, <2>4, <2>5 DEF ClientOK, InOrderOnce, AckedDelivered, NothingLeftOut, clientVars
  <1>3. CASE DropFuture(m)
    <2>1. IsABag(net') /\ BagToSet(net') \subseteq BagToSet(net)
      BY <1>3, RecvNet DEF DropFuture, TypeOK
    <2>. QED
      BY <1>3, <2>1 DEF DropFuture, TypeOK, ClientOK, InOrderOnce, AckedDelivered, AcksSound,
         NothingLeftOut, clientVars, serverVars
  <1>. QED  BY <1>1, <1>2, <1>3 DEF Serve

(* Every step keeps the invariant. *)
LEMMA RelStep == RelInv /\ [Next]_vars => RelInv'
  <1>1. SUFFICES ASSUME RelInv, [Next]_vars PROVE RelInv'
    OBVIOUS
  <1>. USE <1>1, ReliableAssumption
  <1>2. CASE UNCHANGED vars
    BY <1>2 DEF vars, clientVars, serverVars, RelInv, TypeOK, ClientOK, InOrderOnce,
       AckedDelivered, AcksSound, NothingLeftOut
  <1>3. CASE Send
    BY <1>3, SendKeeps DEF Send
  <1>4. CASE Retransmit
    <2>1. cur <= N /\ waiting' = TRUE /\ tries' \in 0..Retries
      BY <1>4 DEF Retransmit, RelInv, TypeOK, ClientOK
    <2>. QED  BY <1>4, <2>1, SendKeeps DEF Retransmit
  <1>5. CASE GiveUp
    BY <1>5, FinishKeeps DEF GiveUp, RelInv, TypeOK
  <1>6. CASE \E m \in BagToSet(net) : TakeAck(m)
    <2>1. PICK m \in BagToSet(net) : TakeAck(m)
      BY <1>6
    <2>2. (cur < N => cur < expected) /\ (cur = N => finSeen)
      BY <2>1 DEF TakeAck, RelInv, AcksSound
    <2>3. IsABag(net') /\ BagToSet(net') \subseteq BagToSet(net)
      BY <2>1, RecvNet DEF TakeAck, RelInv, TypeOK
    <2>. QED  BY <2>1, <2>2, <2>3, FinishKeeps DEF TakeAck
  <1>7. CASE \E m \in BagToSet(net) : StaleAck(m)
    <2>1. IsABag(net') /\ BagToSet(net') \subseteq BagToSet(net) /\ UNCHANGED <<clientVars, serverVars>>
      BY <1>7, RecvNet DEF StaleAck, RelInv, TypeOK
    <2>. QED
      BY <2>1 DEF RelInv, TypeOK, ClientOK, InOrderOnce, AckedDelivered, AcksSound,
         NothingLeftOut, clientVars, serverVars
  <1>8. CASE \E m \in BagToSet(net) : Serve(m)
    BY <1>8, ServeKeeps
  <1>9. CASE Drain
    BY <1>9 DEF Drain, RelInv, TypeOK, ClientOK, InOrderOnce, AckedDelivered, AcksSound,
       NothingLeftOut, clientVars
  <1>. QED
    BY <1>1, <1>2, <1>3, <1>4, <1>5, <1>6, <1>7, <1>8, <1>9 DEF Next

(* Type correctness of reliable.c's two programs and the network. *)
THEOREM TypeCorrect == Spec => []TypeOK
  <1>1. RelInv => TypeOK
    BY DEF RelInv
  <1>. QED  BY <1>1, RelInit, RelStep, PTL DEF Spec

(* The server delivers exactly the messages 0, 1, ..., each once and in    *)
(* this order, under any loss, duplication by retry, and reordering.       *)
THEOREM ExactlyOnceInOrder == Spec => []InOrderOnce
  <1>1. RelInv => InOrderOnce
    BY DEF RelInv
  <1>. QED  BY <1>1, RelInit, RelStep, PTL DEF Spec

(* The client's acknowledged messages were delivered, and exit status 0 is *)
(* given only for a stream delivered to its end.                           *)
THEOREM ReportsAreTrue == Spec => []ReportsTrue
  <1>1. RelInv => ReportsTrue
    <2>1. SUFFICES ASSUME RelInv, ExitOk PROVE expected = N /\ finSeen
      BY DEF ReportsTrue, CleanExit, RelInv
    <2>2. acked = {i \in 0..(N - 1) : i < N + 1} /\ finSeen /\ expected \in 0..N
      BY <2>1 DEF RelInv, NothingLeftOut, ExitOk, TypeOK
    <2>3. N > 0 => N - 1 \in acked
      BY <2>2, ReliableAssumption
    <2>. QED  BY <2>1, <2>2, <2>3, ReliableAssumption DEF RelInv, AckedDelivered
  <1>. QED  BY <1>1, RelInit, RelStep, PTL DEF Spec

-----------------------------------------------------------------------------
(* Every set of natural numbers that is not empty has a least element.     *)
LEMMA Least ==
    ASSUME NEW S \in SUBSET Nat, S # {}
    PROVE  \E n \in S : \A m \in S : n <= m
  <1>. DEFINE R == {ss \in Nat \X Nat : ss[1] < ss[2]}
  <1>1. IsWellFoundedOn(R, Nat)
    BY NatLessThanWellFounded DEF OpToRel
  <1>2. PICK n \in S : \A m \in S : ~(<<m, n>> \in R)
    <2>. HIDE DEF R
    <2>. QED  BY <1>1, WFMin
  <1>3. ASSUME NEW m \in S PROVE n <= m
    <2>1. ~(m < n)
      BY <1>2
    <2>. QED  BY <2>1
  <1>. QED  BY <1>3

-----------------------------------------------------------------------------
(* Sched, for any number of processes and levels.                          *)

ScSizes == NPROC \in Nat \ {0} /\ NPRIO \in Nat \ {0} /\ MaxTickets \in Nat

LEMMA ScCardinality == \A S : Sc!Cardinality(S) = Cardinality(S)
  BY DEF Sc!Cardinality, Cardinality, Sc!IsFiniteSet, IsFiniteSet

(* The table, the cursors and the CPU; every process is at a level and has *)
(* a ticket.                                                               *)
ScTypeInv ==
    /\ policy \in {"RR", "LOTTERY", "MLFQ"}
    /\ state \in [Sc!Procs -> {"UNUSED", "RUNNABLE", "RUNNING", "SLEEPING", "ZOMBIE"}]
    /\ prio \in [Sc!Procs -> Sc!Levels]
    /\ tickets \in [Sc!Procs -> 1..(MaxTickets + 1)]
    /\ cpu \in Sc!Procs \cup {Sc!InSched, Sc!InWfi}
    /\ rr_next \in [Sc!Levels -> Sc!Procs]

(* A round-robin pass that has found nothing has all the table before it.  *)
ScIInv == ScTypeInv /\ (found \/ scan = 0) /\ ~stalled

LEMMA ScInit == ASSUME ScSizes, Sc!Init PROVE ScIInv
  BY DEF Sc!Init, ScSizes, ScIInv, ScTypeInv, Sc!Procs, Sc!Levels

(* Round robin: the first runnable process of the table is next. *)
LEMMA ScRoundRobin ==
    ASSUME ScSizes, ScIInv, ~found, policy = "RR", Sc!Runnable # {}
    PROVE  \E p \in Sc!Runnable : Sc!MayTake(p)
  <1>1. Sc!Runnable \in SUBSET Nat
    BY DEF ScSizes, Sc!Runnable, Sc!Procs
  <1>2. PICK p \in Sc!Runnable : \A q \in Sc!Runnable : p <= q
    BY <1>1, Least
  <1>3. p \in Nat /\ scan = 0
    BY <1>1 DEF ScIInv
  <1>4. Sc!NextInPass(p)
    BY <1>2, <1>3 DEF Sc!NextInPass
  <1>. QED  BY <1>4 DEF Sc!MayTake

(* The tickets of the runnable processes up to p. *)
LEMMA ScHeld ==
    ASSUME ScSizes, ScIInv, NEW p \in Int
    PROVE  /\ IsFiniteSet(Sc!Held(p)) /\ Sc!Acc(p) = Cardinality(Sc!Held(p)) /\ Sc!Acc(p) \in Nat
           /\ \A t : t \in Sc!Held(p) <=>
                \E r \in Sc!Runnable : r <= p /\ t \in {r} \X (1..tickets[r])
  <1>. DEFINE All == Sc!Procs \X (1..(MaxTickets + 1))
  <1>1. IsFiniteSet(All)
    <2>1. IsFiniteSet(Sc!Procs) /\ IsFiniteSet(1..(MaxTickets + 1))
      BY FS_Interval DEF ScSizes, Sc!Procs
    <2>. QED  BY <2>1, FS_Product
  <1>2. Sc!Held(p) \subseteq All
    <2>1. ASSUME NEW r \in Sc!Procs PROVE {r} \X (1..tickets[r]) \subseteq All
      BY <2>1 DEF ScIInv, ScTypeInv, ScSizes
    <2>. QED  BY <2>1 DEF Sc!Held, Sc!Runnable
  <1>3. IsFiniteSet(Sc!Held(p)) /\ Cardinality(Sc!Held(p)) \in Nat
    BY <1>1, <1>2, FS_Subset, FS_CardinalityType
  <1>4. Sc!Acc(p) = Cardinality(Sc!Held(p))
    BY ScCardinality DEF Sc!Acc
  <1>. QED  BY <1>3, <1>4 DEF Sc!Held

(* acc does not go down, and a runnable process adds its tickets. *)
LEMMA ScAcc ==
    ASSUME ScSizes, ScIInv, NEW p \in Sc!Procs
    PROVE  /\ Sc!Acc(p) = Sc!Acc(p - 1) + (IF p \in Sc!Runnable THEN tickets[p] ELSE 0)
           /\ \A q \in Sc!Procs : p <= q => Sc!Acc(p) <= Sc!Acc(q)
  <1>. DEFINE X == {p} \X (1..tickets[p])
  <1>1. p \in Int /\ p - 1 \in Int /\ Sc!Procs \subseteq Int /\ Sc!Runnable \subseteq Int
    BY DEF Sc!Procs, Sc!Runnable, ScSizes
  <1>2. Sc!Acc(p - 1) \in Nat
    BY <1>1, ScHeld
  <1>3. ASSUME NEW q \in Sc!Procs, p <= q PROVE Sc!Acc(p) <= Sc!Acc(q)
    <2>1. \A r \in Sc!Runnable : r <= p => r <= q
      BY <1>1, <1>3
    <2>2. Sc!Held(p) \subseteq Sc!Held(q)
      BY <1>1, <2>1, ScHeld
    <2>3. /\ IsFiniteSet(Sc!Held(q)) /\ Sc!Acc(p) = Cardinality(Sc!Held(p))
          /\ Sc!Acc(q) = Cardinality(Sc!Held(q))
      BY <1>1, ScHeld
    <2>. QED  BY <2>2, <2>3, FS_Subset
  <1>4. CASE p \notin Sc!Runnable
    <2>1. \A r \in Sc!Runnable : r <= p <=> r <= p - 1
      BY <1>1, <1>4
    <2>2. Sc!Held(p) = Sc!Held(p - 1)
      BY <2>1 DEF Sc!Held
    <2>3. Sc!Acc(p) = Sc!Acc(p - 1)
      BY <2>2 DEF Sc!Acc
    <2>4. \A k \in Nat : k = k + 0
      OBVIOUS
    <2>. QED  BY <1>2, <1>3, <1>4, <2>3, <2>4
  <1>5. CASE p \in Sc!Runnable
    <2>1. IsFiniteSet(X) /\ Cardinality(X) = tickets[p]
      <3>1. IsFiniteSet({p}) /\ Cardinality({p}) = 1
        BY FS_Singleton
      <3>2. tickets[p] \in Nat
        BY DEF ScIInv, ScTypeInv, ScSizes
      <3>3. IsFiniteSet(1..tickets[p]) /\ Cardinality(1..tickets[p]) = tickets[p]
        BY <3>2, FS_Interval
      <3>4. IsFiniteSet(X) /\ Cardinality(X) = Cardinality({p}) * Cardinality(1..tickets[p])
        <4>1. ASSUME NEW S, NEW T, IsFiniteSet(S), IsFiniteSet(T)
              PROVE  IsFiniteSet(S \X T) /\ Cardinality(S \X T) = Cardinality(S) * Cardinality(T)
          BY <4>1, FS_Product
        <4>. QED  BY <3>1, <3>3, <4>1
      <3>5. \A n \in Nat : 1 * n = n
        OBVIOUS
      <3>. QED  BY <3>1, <3>2, <3>3, <3>4, <3>5
    <2>2. Sc!Held(p) = Sc!Held(p - 1) \cup X
      <3>1. \A r \in Sc!Runnable : r <= p <=> r <= p - 1 \/ r = p
        BY <1>1
      <3>. QED  BY <1>1, <1>5, <3>1, ScHeld
    <2>3. Sc!Held(p - 1) \cap X = {}
      <3>1. \A r \in Sc!Runnable : r <= p - 1 => r # p
        BY <1>1
      <3>. QED  BY <1>1, <3>1, ScHeld
    <2>. HIDE DEF X
    <2>4. Cardinality(Sc!Held(p)) = Cardinality(Sc!Held(p - 1)) + tickets[p] - 0
      <3>1. IsFiniteSet(Sc!Held(p - 1))
        BY <1>1, ScHeld
      <3>. QED  BY <2>1, <2>2, <2>3, <3>1, FS_Union, FS_EmptySet
    <2>5. Sc!Acc(p) = Cardinality(Sc!Held(p)) /\ Sc!Acc(p - 1) = Cardinality(Sc!Held(p - 1))
      BY <1>1, ScHeld
    <2>6. tickets[p] \in Nat
      BY DEF ScIInv, ScTypeInv, ScSizes
    <2>7. \A k, m \in Nat : k + m - 0 = k + m
      OBVIOUS
    <2>8. Sc!Acc(p) = Sc!Acc(p - 1) + tickets[p] - 0
      BY <2>4, <2>5
    <2>. QED  BY <1>2, <1>3, <1>5, <2>6, <2>7, <2>8
  <1>. QED  BY <1>4, <1>5

(* Each draw has one holder: the process at which acc passes it, the least *)
(* of those at and after which it has.                                     *)
LEMMA ScDraw ==
    ASSUME ScSizes, ScIInv, NEW winner \in 0..(Sc!Acc(NPROC - 1) - 1)
    PROVE  \E p \in Sc!Runnable : \A q \in Sc!Runnable : Sc!Wins(q, winner) <=> q = p
  <1>. DEFINE Past == {n \in 0..NPROC : Sc!Acc(n - 1) > winner}
  <1>1. /\ NPROC \in Nat /\ NPROC >= 1 /\ winner \in Nat
        /\ \A n \in Int : Sc!Acc(n) \in Nat
    BY ScHeld DEF ScSizes
  <1>2. Past \in SUBSET Nat /\ NPROC \in Past
    <2>1. Sc!Acc(NPROC - 1) \in Nat /\ winner < Sc!Acc(NPROC - 1)
      BY <1>1
    <2>. QED  BY <1>1, <2>1
  <1>3. PICK n \in Past : \A m \in Past : n <= m
    BY <1>2, Least
  <1>4. 0 \notin Past
    <2>1. \A r \in Sc!Runnable : ~(r <= -1)
      BY DEF Sc!Runnable, Sc!Procs, ScSizes
    <2>2. Sc!Held(-1) = {}
      BY <2>1 DEF Sc!Held
    <2>3. Sc!Acc(-1) = 0
      BY <2>2, ScCardinality, FS_EmptySet DEF Sc!Acc
    <2>4. 0 - 1 = -1
      OBVIOUS
    <2>. QED  BY <1>1, <2>3, <2>4
  <1>. DEFINE p == n - 1
  <1>5. n \in 1..NPROC /\ p \in Sc!Procs /\ p \in 0..NPROC /\ p \in Int /\ p - 1 \in Int /\ ~(n <= p)
    BY <1>1, <1>3, <1>4 DEF Sc!Procs
  <1>6. Sc!Acc(p) > winner
    BY <1>3
  <1>7. Sc!Acc(p - 1) <= winner
    <2>1. p \notin Past
      BY <1>3, <1>5
    <2>. QED  BY <1>1, <1>5, <2>1
  <1>. HIDE DEF p, Past
  <1>8. Sc!Acc(p) = Sc!Acc(p - 1) + (IF p \in Sc!Runnable THEN tickets[p] ELSE 0)
    BY <1>5, ScAcc
  <1>9. /\ \A q \in Sc!Runnable : q \in Sc!Procs /\ q \in Int /\ tickets[q] \in Nat
        /\ Sc!Acc(p) \in Nat /\ Sc!Acc(p - 1) \in Nat
    <2>1. \A q \in Sc!Procs : q \in Int /\ tickets[q] \in Nat
      BY DEF Sc!Procs, ScIInv, ScTypeInv, ScSizes
    <2>. QED  BY <1>1, <1>5, <2>1 DEF Sc!Runnable
  <1>10. p \in Sc!Runnable
    BY <1>1, <1>6, <1>7, <1>8, <1>9
  <1>11. Sc!Wins(p, winner)
    BY <1>1, <1>6, <1>7, <1>8, <1>9, <1>10 DEF Sc!Wins
  <1>12. ASSUME NEW q \in Sc!Runnable, Sc!Wins(q, winner), q # p PROVE FALSE
    <2>1. /\ q \in Sc!Procs /\ q \in Int /\ q - 1 \in Int /\ tickets[q] \in Nat
          /\ Sc!Acc(q) \in Nat /\ Sc!Acc(q - 1) \in Nat
      BY <1>1, <1>9
    <2>2. Sc!Acc(q) > winner /\ Sc!Acc(q) - tickets[q] <= winner
      BY <1>12 DEF Sc!Wins
    <2>3. CASE q < p
      <3>1. q <= p - 1 /\ p - 1 \in Sc!Procs
        BY <1>5, <2>1, <2>3 DEF Sc!Procs, ScSizes
      <3>2. Sc!Acc(q) <= Sc!Acc(p - 1)
        BY <2>1, <3>1, ScAcc
      <3>. QED  BY <1>1, <1>7, <1>9, <2>1, <2>2, <3>2
    <2>4. CASE p < q
      <3>1. p <= q - 1 /\ q - 1 \in Sc!Procs
        BY <1>5, <2>1, <2>4 DEF Sc!Procs, ScSizes
      <3>2. Sc!Acc(p) <= Sc!Acc(q - 1)
        BY <1>5, <3>1, ScAcc
      <3>3. Sc!Acc(q) = Sc!Acc(q - 1) + tickets[q]
        BY <2>1, ScAcc
      <3>. QED  BY <1>1, <1>6, <1>9, <2>1, <2>2, <3>2, <3>3
    <2>. QED  BY <1>5, <1>12, <2>1, <2>3, <2>4
  <1>. QED  BY <1>10, <1>11, <1>12

(* Everybody has a ticket, so there is one to draw. *)
LEMMA ScLottery ==
    ASSUME ScSizes, ScIInv, policy = "LOTTERY", Sc!Runnable # {}
    PROVE  \E p \in Sc!Runnable : Sc!MayTake(p)
  <1>1. PICK p \in Sc!Runnable : TRUE
    OBVIOUS
  <1>2. p \in Sc!Procs /\ p <= NPROC - 1 /\ NPROC - 1 \in Int /\ tickets[p] >= 1 /\ tickets[p] \in Nat
    BY DEF Sc!Runnable, Sc!Procs, ScIInv, ScTypeInv, ScSizes
  <1>3. <<p, 1>> \in Sc!Held(NPROC - 1)
    <2>1. <<p, 1>> \in {p} \X (1..tickets[p])
      BY <1>2
    <2>. QED  BY <1>2, <2>1, ScHeld
  <1>4. Sc!Acc(NPROC - 1) \in Nat /\ Sc!Acc(NPROC - 1) # 0
    BY <1>2, <1>3, ScHeld, FS_EmptySet
  <1>5. 0 \in 0..(Sc!Acc(NPROC - 1) - 1)
    BY <1>4
  <1>6. PICK q \in Sc!Runnable : Sc!Wins(q, 0)
    BY <1>5, ScDraw
  <1>. QED  BY <1>5, <1>6 DEF Sc!MayTake

LEMMA ScLevels ==
    ASSUME ScSizes, ScIInv PROVE \A p \in Sc!Procs : Sc!Level(p) \in Sc!Levels
  <1>1. 0 \in Sc!Levels
    BY DEF ScSizes, Sc!Levels
  <1>. QED  BY <1>1 DEF Sc!Level, ScIInv, ScTypeInv

(* The queue: the best level with a runnable process, and in it the first  *)
(* from the cursor.                                                        *)
LEMMA ScFeedback ==
    ASSUME ScSizes, ScIInv, policy = "MLFQ", Sc!Runnable # {}
    PROVE  \E p \in Sc!Runnable : Sc!MayTake(p)
  <1>1. Sc!Runnable \subseteq Sc!Procs
    BY DEF Sc!Runnable
  <1>2. \A q \in Sc!Procs : Sc!Level(q) \in Sc!Levels
    BY ScLevels
  <1>. DEFINE Ls == {Sc!Level(q) : q \in Sc!Runnable}
  <1>3. PICK l \in Ls : \A m \in Ls : l <= m
    <2>1. Ls \in SUBSET Nat /\ Ls # {}
      BY <1>1, <1>2 DEF Sc!Levels, ScSizes
    <2>. QED  BY <2>1, Least
  <1>. DEFINE Ds == {Sc!Distance(q, l) : q \in {r \in Sc!Runnable : Sc!Level(r) = l}}
  <1>4. l \in Sc!Levels
    BY <1>1, <1>2
  <1>5. \A q \in Sc!Procs : Sc!Distance(q, l) \in Nat
    <2>1. ASSUME NEW q \in Sc!Procs PROVE Sc!Distance(q, l) \in Nat
      <3>1. q - rr_next[l] \in Int
        BY <1>4 DEF ScIInv, ScTypeInv, Sc!Procs, ScSizes
      <3>. QED  BY <3>1 DEF Sc!Distance, ScSizes
    <2>. QED  BY <2>1
  <1>6. PICK d \in Ds : \A e \in Ds : d <= e
    <2>1. Ds \in SUBSET Nat /\ Ds # {}
      BY <1>1, <1>5
    <2>. QED  BY <2>1, Least
  <1>7. PICK p \in Sc!Runnable : Sc!Level(p) = l /\ Sc!Distance(p, l) = d
    OBVIOUS
  <1>8. ASSUME NEW q \in Sc!Runnable
        PROVE  Sc!Level(q) > l \/ (Sc!Level(q) = l /\ Sc!Distance(p, l) <= Sc!Distance(q, l))
    <2>1. l <= Sc!Level(q)
      BY <1>3
    <2>2. Sc!Level(q) \in Int /\ l \in Int
      BY <1>1, <1>2, <1>4 DEF Sc!Levels
    <2>3. Sc!Level(q) = l => d <= Sc!Distance(q, l)
      BY <1>6
    <2>. QED  BY <1>7, <2>1, <2>2, <2>3
  <1>9. Sc!FirstOfBest(p)
    BY <1>4, <1>7, <1>8 DEF Sc!FirstOfBest
  <1>. QED  BY <1>9 DEF Sc!MayTake

(* The invariant is inductive. *)
LEMMA ScStep ==
    ASSUME ScSizes, ScIInv, [Sc!Next]_Sc!vars PROVE ScIInv'
  <1>1. CASE UNCHANGED Sc!vars
    BY <1>1 DEF ScIInv, ScTypeInv, Sc!vars
  <1>2. ASSUME NEW p \in Sc!Procs, Sc!Choose(p) PROVE ScIInv'
    <2>1. \A q \in Sc!Procs : Sc!Level(q) \in Sc!Levels
      BY ScLevels
    <2>2. prio' \in [Sc!Procs -> Sc!Levels]
      BY <1>2, <2>1 DEF Sc!Choose, Sc!Boost
    <2>3. (p + 1) % NPROC \in Sc!Procs
      BY DEF Sc!Procs, ScSizes
    <2>4. rr_next' \in [Sc!Levels -> Sc!Procs]
      BY <1>2, <2>3 DEF Sc!Choose, ScIInv, ScTypeInv
    <2>5. /\ state' \in [Sc!Procs -> {"UNUSED", "RUNNABLE", "RUNNING", "SLEEPING", "ZOMBIE"}]
          /\ cpu' \in Sc!Procs
      BY <1>2 DEF Sc!Choose, Sc!Dispatch, ScIInv, ScTypeInv
    <2>6. UNCHANGED <<policy, tickets, stalled>> /\ (found' \/ scan' = 0)
      BY <1>2 DEF Sc!Choose, ScIInv
    <2>. QED  BY <2>2, <2>4, <2>5, <2>6 DEF ScIInv, ScTypeInv
  <1>3. ASSUME NEW p \in Sc!Procs,
               \/ Sc!Wakeup(p) \/ Sc!Reap(p) \/ Sc!Fork(p)
               \/ Sc!Leave(p, "SLEEPING") \/ Sc!Leave(p, "ZOMBIE")
        PROVE  ScIInv'
    <2>1. 0 \in Sc!Levels /\ 1 \in 1..(MaxTickets + 1)
      BY DEF ScSizes, Sc!Levels
    <2>2. CASE Sc!Wakeup(p)
      BY <2>2 DEF Sc!Wakeup, Sc!AfterInterrupt, ScIInv, ScTypeInv
    <2>3. CASE Sc!Reap(p)
      BY <2>3 DEF Sc!Reap, ScIInv, ScTypeInv
    <2>4. CASE Sc!Fork(p)
      BY <2>1, <2>4 DEF Sc!Fork, ScIInv, ScTypeInv
    <2>5. CASE Sc!Leave(p, "SLEEPING") \/ Sc!Leave(p, "ZOMBIE")
      BY <2>5 DEF Sc!Leave, ScIInv, ScTypeInv
    <2>. QED  BY <1>3, <2>2, <2>3, <2>4, <2>5
  <1>4. ASSUME NEW n \in 0..(MaxTickets + 1), Sc!SetTickets(n) PROVE ScIInv'
    BY <1>4 DEF Sc!SetTickets, ScIInv, ScTypeInv, ScSizes
  <1>5. CASE Sc!NextPass
    BY <1>5 DEF Sc!NextPass, ScIInv, ScTypeInv
  <1>6. CASE Sc!Idle
    <2>1. \A q \in Sc!Procs : Sc!Level(q) \in Sc!Levels
      BY ScLevels
    <2>2. prio' \in [Sc!Procs -> Sc!Levels]
      BY <1>6, <2>1 DEF Sc!Idle, Sc!Boost
    <2>3. Sc!Runnable = {}
      BY <1>6, ScRoundRobin, ScLottery, ScFeedback DEF Sc!Idle, ScIInv, ScTypeInv
    <2>. QED  BY <1>6, <2>2, <2>3 DEF Sc!Idle, ScIInv, ScTypeInv
  <1>7. CASE Sc!Tick
    <2>1. /\ prio' \in [Sc!Procs -> Sc!Levels]
          /\ state' \in [Sc!Procs -> {"UNUSED", "RUNNABLE", "RUNNING", "SLEEPING", "ZOMBIE"}]
      <3>1. CASE cpu \in Sc!Procs /\ policy = "MLFQ"
        <4>1. prio[cpu] \in Sc!Levels /\ (Sc!Sinks(cpu) => prio[cpu] < NPRIO - 1)
          BY <3>1 DEF Sc!Sinks, ScIInv, ScTypeInv
        <4>2. Sc!Sinks(cpu) => prio[cpu] + 1 \in Sc!Levels
          BY <4>1 DEF Sc!Levels, ScSizes
        <4>. QED  BY <1>7, <3>1, <4>2 DEF Sc!Tick, ScIInv, ScTypeInv
      <3>2. CASE ~(cpu \in Sc!Procs /\ policy = "MLFQ")
        BY <1>7, <3>2 DEF Sc!Tick, ScIInv, ScTypeInv
      <3>. QED  BY <3>1, <3>2
    <2>2. cpu' \in Sc!Procs \cup {Sc!InSched, Sc!InWfi}
      BY <1>7 DEF Sc!Tick, Sc!AfterInterrupt, ScIInv, ScTypeInv
    <2>. QED  BY <1>7, <2>1, <2>2 DEF Sc!Tick, ScIInv, ScTypeInv
  <1>. QED  BY <1>1, <1>2, <1>3, <1>4, <1>5, <1>6, <1>7 DEF Sc!Next

-----------------------------------------------------------------------------
(* VirtioDisk, for any finite set of processes and number of descriptors.  *)

VdSizes == IsFiniteSet(Requesters) /\ 0 \notin Requesters /\ NUM \in Nat

VdElems(s) == {s[j] : j \in 1..Len(s)}
VdOnce(s) == \A j, k \in 1..Len(s) : s[j] = s[k] => j = k
VdOwn(p) == {idx[p][j] : j \in DOMAIN idx[p]}
VdActive == {p \in Requesters : vdPc[p] \in {"wait_disk", "woken"}}

VdTypeInv ==
    /\ free \subseteq Vd!Descs
    /\ next \in [Vd!Descs -> {0} \cup Vd!Descs]
    /\ b \in [Vd!Descs -> {0} \cup Requesters]
    /\ status \in [Vd!Descs -> {"none", "0xff", "0"}]
    /\ avail \in Seq(Vd!Descs) /\ used \in Seq(Vd!Descs) /\ taken \subseteq Vd!Descs
    /\ busy \subseteq Requesters
    /\ vdPc \in [Requesters -> {"out", "rw", "wait_desc", "wait_disk", "woken"}]
    /\ DOMAIN idx = Requesters

(* A request has three descriptors of its own, chained, the first of which *)
(* names it; the others are free.                                          *)
VdChainInv ==
    /\ \A p \in Requesters \ VdActive : idx[p] = <<>>
    /\ \A p \in VdActive : \E x, y, z \in Vd!Descs :
         /\ idx[p] = <<x, y, z>> /\ x # y /\ x # z /\ y # z
         /\ next[x] = y /\ next[y] = z /\ next[z] = 0 /\ b[x] = p
    /\ \A p, q \in VdActive : p # q => VdOwn(p) \cap VdOwn(q) = {}
    /\ free = Vd!Descs \ Vd!Chained

VdCountInv ==
    IsFiniteSet(Vd!Chained) /\ Cardinality(Vd!Chained) = 3 * Cardinality(VdActive)

(* A request is busy until its call is woken, in one place at a time, and  *)
(* completed when it is in the used ring.                                  *)
VdRingInv ==
    /\ VdOnce(avail) /\ VdOnce(used)
    /\ VdElems(avail) \cap taken = {} /\ VdElems(avail) \cap VdElems(used) = {}
    /\ taken \cap VdElems(used) = {}
    /\ \A d \in VdElems(avail) \cup taken \cup VdElems(used) : b[d] \in busy /\ idx[b[d]][1] = d
    /\ \A d \in VdElems(used) : status[d] = "0" /\ b[d] \in served

VdCallInv ==
    \A p \in Requesters : /\ p \in busy <=> vdPc[p] = "wait_disk"
                          /\ vdPc[p] = "woken" => p \in served

VdIInv == VdTypeInv /\ VdChainInv /\ VdCountInv /\ VdRingInv /\ VdCallInv
LEMMA VdCardinality == \A S : Vd!Cardinality(S) = Cardinality(S)
  BY DEF Vd!Cardinality, Cardinality, Vd!IsFiniteSet, IsFiniteSet

(* Appending to a ring, and taking its first. *)
LEMMA VdAppend ==
    ASSUME NEW D, NEW s \in Seq(D), NEW d \in D
    PROVE  /\ Append(s, d) \in Seq(D) /\ VdElems(Append(s, d)) = VdElems(s) \cup {d}
           /\ VdOnce(s) /\ d \notin VdElems(s) => VdOnce(Append(s, d))
  <1>. DEFINE a == Append(s, d)
  <1>1. /\ a \in Seq(D) /\ Len(s) \in Nat /\ Len(a) = Len(s) + 1 /\ a[Len(s) + 1] = d
        /\ \A j \in 1..Len(s) : a[j] = s[j]
    OBVIOUS
  <1>. HIDE DEF a
  <1>2. VdElems(a) = VdElems(s) \cup {d}
    <2>1. \A j \in 1..Len(a) : j \in 1..Len(s) \/ j = Len(s) + 1
      BY <1>1
    <2>2. \A j \in 1..Len(s) : j \in 1..Len(a)
      BY <1>1
    <2>3. Len(s) + 1 \in 1..Len(a)
      BY <1>1
    <2>. QED  BY <1>1, <2>1, <2>2, <2>3 DEF VdElems
  <1>3. ASSUME VdOnce(s), d \notin VdElems(s), NEW j \in 1..Len(a), NEW k \in 1..Len(a), a[j] = a[k]
        PROVE  j = k
    <2>1. j \in 1..Len(s) \/ j = Len(s) + 1
      BY <1>1
    <2>2. k \in 1..Len(s) \/ k = Len(s) + 1
      BY <1>1
    <2>. QED  BY <1>1, <1>3, <2>1, <2>2 DEF VdOnce, VdElems
  <1>. QED  BY <1>1, <1>2, <1>3 DEF VdOnce, a

LEMMA VdTail ==
    ASSUME NEW D, NEW s \in Seq(D), s # <<>>, VdOnce(s)
    PROVE  /\ Head(s) \in VdElems(s) /\ Head(s) \in D /\ Tail(s) \in Seq(D)
           /\ VdElems(Tail(s)) = VdElems(s) \ {Head(s)} /\ VdOnce(Tail(s))
  <1>. DEFINE u == Tail(s)
  <1>1. /\ u \in Seq(D) /\ Len(s) \in Nat /\ Len(s) >= 1 /\ Len(u) = Len(s) - 1 /\ Head(s) = s[1]
        /\ \A j \in 1..Len(u) : u[j] = s[j + 1]
        /\ s[1] \in D
    OBVIOUS
  <1>. HIDE DEF u
  <1>2. 1 \in 1..Len(s) /\ \A j \in 1..Len(u) : j + 1 \in 1..Len(s) /\ j + 1 # 1
    BY <1>1
  <1>3. \A j \in 1..Len(s) : j # 1 => j - 1 \in 1..Len(u) /\ (j - 1) + 1 = j
    BY <1>1
  <1>4. VdElems(u) = VdElems(s) \ {s[1]}
    <2>1. ASSUME NEW j \in 1..Len(u) PROVE u[j] \in VdElems(s) \ {s[1]}
      BY <1>1, <1>2 DEF VdElems, VdOnce
    <2>2. ASSUME NEW j \in 1..Len(s), s[j] # s[1] PROVE s[j] \in VdElems(u)
      <3>1. j # 1
        BY <2>2
      <3>2. j - 1 \in 1..Len(u) /\ u[j - 1] = s[j]
        BY <1>1, <1>3, <3>1
      <3>. QED  BY <3>2 DEF VdElems
    <2>. QED  BY <2>1, <2>2 DEF VdElems
  <1>5. VdOnce(u)
    <2>1. ASSUME NEW j \in 1..Len(u), NEW k \in 1..Len(u), u[j] = u[k] PROVE j = k
      <3>1. j + 1 = k + 1
        BY <1>1, <1>2, <2>1 DEF VdOnce
      <3>. QED  BY <3>1
    <2>. QED  BY <2>1 DEF VdOnce
  <1>. QED  BY <1>1, <1>2, <1>4, <1>5 DEF VdElems, u

(* One more element counts for one. *)
LEMMA CardinalityOneMore ==
    ASSUME NEW S, NEW e, IsFiniteSet(S), e \notin S
    PROVE  IsFiniteSet(S \cup {e}) /\ Cardinality(S \cup {e}) = Cardinality(S) + 1
  BY FS_AddElement

(* What one, two and three elements count for. *)
LEMMA CardinalityThree ==
    ASSUME NEW x, NEW y, NEW z, x # y, x # z, y # z
    PROVE  Cardinality({x}) = 1 /\ Cardinality({x, y}) = 2 /\ Cardinality({x, y, z}) = 3
  <1>1. IsFiniteSet({x}) /\ Cardinality({x}) = 1
    BY FS_Singleton
  <1>2. {x, y} = {x} \cup {y} /\ y \notin {x}
    OBVIOUS
  <1>3. IsFiniteSet({x, y}) /\ Cardinality({x, y}) = Cardinality({x}) + 1
    <2>1. IsFiniteSet({x} \cup {y}) /\ Cardinality({x} \cup {y}) = Cardinality({x}) + 1
      BY <1>1, <1>2, CardinalityOneMore
    <2>. QED  BY <1>2, <2>1
  <1>4. {x, y, z} = {x, y} \cup {z} /\ z \notin {x, y}
    OBVIOUS
  <1>5. Cardinality({x, y, z}) = Cardinality({x, y}) + 1
    <2>1. Cardinality({x, y} \cup {z}) = Cardinality({x, y}) + 1
      BY <1>3, <1>4, CardinalityOneMore
    <2>. QED  BY <1>4, <2>1
  <1>. QED  BY <1>1, <1>3, <1>5

(* Of three free descriptors and more there is a first, a second and a     *)
(* third.                                                                  *)
LEMMA VdNth ==
    ASSUME NEW S \in SUBSET Nat, IsFiniteSet(S), Vd!Cardinality(S) >= 3
    PROVE  /\ Vd!Nth(S, 1) \in S /\ Vd!Nth(S, 2) \in S /\ Vd!Nth(S, 3) \in S
           /\ Vd!Nth(S, 1) # Vd!Nth(S, 2) /\ Vd!Nth(S, 1) # Vd!Nth(S, 3)
           /\ Vd!Nth(S, 2) # Vd!Nth(S, 3)
  <1>. DEFINE UpTo(d) == {e \in S : e <= d}
  <1>1. Cardinality(S) \in Nat /\ Cardinality(S) >= 3
    BY FS_CardinalityType, VdCardinality
  <1>2. PICK x \in S : \A e \in S : x <= e
    BY <1>1, Least, FS_EmptySet
  <1>3. IsFiniteSet(S \ {x}) /\ Cardinality(S \ {x}) = Cardinality(S) - 1
    BY FS_RemoveElement
  <1>4. PICK y \in S \ {x} : \A e \in S \ {x} : y <= e
    <2>1. S \ {x} # {} /\ S \ {x} \in SUBSET Nat
      BY <1>1, <1>3, FS_EmptySet
    <2>. QED  BY <2>1, Least
  <1>5. IsFiniteSet(S \ {x, y}) /\ Cardinality(S \ {x, y}) = Cardinality(S) - 2
    <2>1. Cardinality((S \ {x}) \ {y}) = Cardinality(S \ {x}) - 1 /\ IsFiniteSet((S \ {x}) \ {y})
      BY <1>3, FS_RemoveElement
    <2>2. (S \ {x}) \ {y} = S \ {x, y}
      OBVIOUS
    <2>. QED  BY <1>1, <1>3, <2>1, <2>2
  <1>6. PICK z \in S \ {x, y} : \A e \in S \ {x, y} : z <= e
    <2>1. S \ {x, y} # {} /\ S \ {x, y} \in SUBSET Nat
      BY <1>1, <1>5, FS_EmptySet
    <2>. QED  BY <2>1, Least
  <1>7. x \in Nat /\ y \in Nat /\ z \in Nat /\ x # y /\ x # z /\ y # z /\ x <= y /\ y <= z
    BY <1>2, <1>4, <1>6
  <1>8. UpTo(x) = {x} /\ UpTo(y) = {x, y} /\ UpTo(z) = {x, y, z}
    <2>1. ASSUME NEW e \in S, e <= x PROVE e = x
      <3>1. x <= e /\ e \in Nat
        BY <1>2
      <3>. QED  BY <1>7, <2>1, <3>1
    <2>2. ASSUME NEW e \in S, e <= y PROVE e \in {x, y}
      <3>1. e # x => y <= e /\ e \in Nat
        BY <1>4
      <3>. QED  BY <1>7, <2>2, <3>1
    <2>3. ASSUME NEW e \in S, e <= z PROVE e \in {x, y, z}
      <3>1. e \notin {x, y} => z <= e /\ e \in Nat
        BY <1>6
      <3>. QED  BY <1>7, <2>3, <3>1
    <2>4. x <= x /\ y <= y /\ z <= z /\ x <= z
      BY <1>7
    <2>. QED  BY <1>4, <1>6, <1>7, <2>1, <2>2, <2>3, <2>4
  <1>9. Cardinality({x}) = 1 /\ Cardinality({x, y}) = 2 /\ Cardinality({x, y, z}) = 3
    <2>1. x # y /\ x # z /\ y # z
      BY <1>7
    <2>. QED  BY <2>1, CardinalityThree
  <1>10. \E d \in S : Cardinality(UpTo(d)) = 1
    BY <1>8, <1>9
  <1>11. \E d \in S : Cardinality(UpTo(d)) = 2
    BY <1>4, <1>8, <1>9
  <1>12. \E d \in S : Cardinality(UpTo(d)) = 3
    BY <1>6, <1>8, <1>9
  <1>. HIDE DEF UpTo
  <1>13. \A n \in 1..3 : Vd!Nth(S, n) = CHOOSE d \in S : Cardinality(UpTo(d)) = n
    BY VdCardinality DEF Vd!Nth, UpTo
  <1>14. Vd!Nth(S, 1) \in S /\ Cardinality(UpTo(Vd!Nth(S, 1))) = 1
    BY <1>10, <1>13
  <1>15. Vd!Nth(S, 2) \in S /\ Cardinality(UpTo(Vd!Nth(S, 2))) = 2
    BY <1>11, <1>13
  <1>16. Vd!Nth(S, 3) \in S /\ Cardinality(UpTo(Vd!Nth(S, 3))) = 3
    BY <1>12, <1>13
  <1>. QED  BY <1>14, <1>15, <1>16

(* The descriptors of a request. *)
LEMMA VdOwnIs ==
    ASSUME NEW p, NEW x, NEW y, NEW z, idx[p] = <<x, y, z>>
    PROVE  VdOwn(p) = {x, y, z} /\ idx[p][1] = x /\ idx[p] # <<>>
  <1>1. DOMAIN <<x, y, z>> = {1, 2, 3}
    OBVIOUS
  <1>. QED  BY <1>1 DEF VdOwn

LEMMA VdOwnNone == ASSUME NEW p, idx[p] = <<>> PROVE VdOwn(p) = {}
  BY DEF VdOwn

LEMMA VdChained == Vd!Chained = UNION {VdOwn(p) : p \in Requesters}
  BY DEF Vd!Chained, VdOwn

(* A request, opened. *)
LEMMA VdRequest ==
    ASSUME VdSizes, VdIInv, NEW p \in VdActive
    PROVE  \E x, y, z \in Vd!Descs :
             /\ idx[p] = <<x, y, z>> /\ VdOwn(p) = {x, y, z} /\ idx[p][1] = x
             /\ x # y /\ x # z /\ y # z
             /\ next[x] = y /\ next[y] = z /\ next[z] = 0 /\ b[x] = p
  BY VdOwnIs DEF VdIInv, VdChainInv

LEMMA VdInit == ASSUME VdSizes, Vd!Init PROVE VdIInv
  <1>1. VdActive = {}
    BY DEF Vd!Init, VdActive
  <1>2. Vd!Chained = {}
    BY VdChained, VdOwnNone DEF Vd!Init, Vd!None
  <1>3. VdTypeInv
    BY DEF Vd!Init, VdTypeInv
  <1>4. VdChainInv
    BY <1>1, <1>2 DEF Vd!Init, Vd!None, VdChainInv
  <1>5. VdCountInv
    BY <1>1, <1>2, FS_EmptySet DEF VdCountInv
  <1>6. VdElems(avail) = {} /\ VdElems(used) = {} /\ VdOnce(avail) /\ VdOnce(used)
    BY DEF Vd!Init, VdElems, VdOnce
  <1>7. VdRingInv /\ VdCallInv
    BY <1>6 DEF Vd!Init, VdRingInv, VdCallInv
  <1>. QED  BY <1>3, <1>4, <1>5, <1>7 DEF VdIInv

(* Nothing happens to the requests but that their calls move on. *)
LEMMA VdSameRequests ==
    ASSUME VdChainInv, VdCountInv, UNCHANGED <<free, next, b, idx>>, VdActive' = VdActive
    PROVE  VdChainInv' /\ VdCountInv'
  <1>1. Vd!Chained' = Vd!Chained /\ \A p : VdOwn(p)' = VdOwn(p)
    BY DEF Vd!Chained, VdOwn
  <1>. QED  BY <1>1 DEF VdChainInv, VdCountInv

(* Waking those who wait for descriptors touches no request. *)
LEMMA VdRoused ==
    ASSUME NEW w \in [Requesters -> {"out", "rw", "wait_desc", "wait_disk", "woken"}]
    PROVE  /\ Vd!Roused(w) \in [Requesters -> {"out", "rw", "wait_desc", "wait_disk", "woken"}]
           /\ \A p \in Requesters :
                /\ Vd!Roused(w)[p] = "wait_disk" <=> w[p] = "wait_disk"
                /\ Vd!Roused(w)[p] = "woken" <=> w[p] = "woken"
  BY DEF Vd!Roused

LEMMA VdEnter ==
    ASSUME VdSizes, VdIInv, NEW p \in Requesters, Vd!Enter(p) PROVE VdIInv'
  <1>1. /\ vdPc[p] = "out" /\ vdPc' = [vdPc EXCEPT ![p] = "rw"] /\ served' = served \ {p}
        /\ UNCHANGED <<free, next, b, status, avail, used, taken, busy, idx>>
    BY DEF Vd!Enter
  <1>2. VdTypeInv' /\ VdActive' = VdActive
    BY <1>1 DEF VdIInv, VdTypeInv, VdActive
  <1>3. VdChainInv' /\ VdCountInv'
    BY <1>1, <1>2, VdSameRequests DEF VdIInv
  <1>4. p \notin busy
    BY <1>1 DEF VdIInv, VdCallInv
  <1>5. VdRingInv'
    BY <1>1, <1>4 DEF VdIInv, VdRingInv
  <1>6. VdCallInv'
    BY <1>1 DEF VdIInv, VdTypeInv, VdCallInv
  <1>. QED  BY <1>2, <1>3, <1>5, <1>6 DEF VdIInv

LEMMA VdNoDescs ==
    ASSUME VdSizes, VdIInv, NEW p \in Requesters, Vd!NoDescs(p) PROVE VdIInv'
  <1>. DEFINE w == IF free = {} THEN vdPc ELSE Vd!Roused(vdPc)
  <1>1. /\ vdPc[p] = "rw" /\ vdPc' = [w EXCEPT ![p] = "wait_desc"]
        /\ UNCHANGED <<free, next, b, status, avail, used, taken, busy, served, idx>>
    BY DEF Vd!NoDescs
  <1>2. /\ w \in [Requesters -> {"out", "rw", "wait_desc", "wait_disk", "woken"}]
        /\ \A q \in Requesters : /\ w[q] = "wait_disk" <=> vdPc[q] = "wait_disk"
                                 /\ w[q] = "woken" <=> vdPc[q] = "woken"
    BY VdRoused DEF VdIInv, VdTypeInv
  <1>. HIDE DEF w
  <1>3. /\ vdPc' \in [Requesters -> {"out", "rw", "wait_desc", "wait_disk", "woken"}]
        /\ \A q \in Requesters : /\ vdPc'[q] = "wait_disk" <=> vdPc[q] = "wait_disk"
                                 /\ vdPc'[q] = "woken" <=> vdPc[q] = "woken"
    BY <1>1, <1>2
  <1>4. VdTypeInv' /\ VdActive' = VdActive
    BY <1>1, <1>3 DEF VdIInv, VdTypeInv, VdActive
  <1>5. VdChainInv' /\ VdCountInv'
    BY <1>1, <1>4, VdSameRequests DEF VdIInv
  <1>6. VdRingInv' /\ VdCallInv'
    BY <1>1, <1>3 DEF VdIInv, VdRingInv, VdCallInv
  <1>. QED  BY <1>4, <1>5, <1>6 DEF VdIInv

(* The device takes the first request. *)
LEMMA VdTake ==
    ASSUME VdSizes, VdIInv, Vd!Take PROVE VdIInv'
  <1>. DEFINE d == Head(avail)
  <1>1. /\ avail # <<>> /\ taken' = taken \cup {d} /\ avail' = Tail(avail)
        /\ UNCHANGED <<free, next, b, status, used, busy, served, vdPc, idx>>
    BY DEF Vd!Take
  <1>2. /\ d \in VdElems(avail) /\ d \in Vd!Descs /\ avail' \in Seq(Vd!Descs)
        /\ VdElems(avail') = VdElems(avail) \ {d} /\ VdOnce(avail')
    BY <1>1, VdTail DEF VdIInv, VdTypeInv, VdRingInv
  <1>. HIDE DEF d
  <1>3. VdTypeInv' /\ VdActive' = VdActive
    BY <1>1, <1>2 DEF VdIInv, VdTypeInv, VdActive
  <1>4. VdChainInv' /\ VdCountInv' /\ VdCallInv'
    BY <1>1, <1>3, VdSameRequests DEF VdIInv, VdCallInv
  <1>5. VdElems(avail)' = VdElems(avail') /\ VdOnce(avail)' = VdOnce(avail')
        /\ VdElems(used)' = VdElems(used)
    BY <1>1 DEF VdElems, VdOnce
  <1>6. VdRingInv'
    BY <1>1, <1>2, <1>5 DEF VdIInv, VdRingInv, VdOnce
  <1>. QED  BY <1>3, <1>4, <1>6 DEF VdIInv

(* It completes one, in any order. *)
LEMMA VdComplete ==
    ASSUME VdSizes, VdIInv, NEW d \in Vd!Descs, Vd!Complete(d) PROVE VdIInv'
  <1>1. /\ d \in taken /\ taken' = taken \ {d} /\ status' = [status EXCEPT ![d] = "0"]
        /\ served' = served \cup {b[d]} /\ used' = Append(used, d)
        /\ UNCHANGED <<free, next, b, avail, busy, vdPc, idx>>
    BY DEF Vd!Complete
  <1>2. d \notin VdElems(used) /\ d \notin VdElems(avail) /\ b[d] \in busy /\ idx[b[d]][1] = d
    BY <1>1 DEF VdIInv, VdRingInv
  <1>3. /\ used' \in Seq(Vd!Descs) /\ VdElems(used') = VdElems(used) \cup {d} /\ VdOnce(used')
    BY <1>1, <1>2, VdAppend DEF VdIInv, VdTypeInv, VdRingInv
  <1>4. VdTypeInv' /\ VdActive' = VdActive
    BY <1>1, <1>3 DEF VdIInv, VdTypeInv, VdActive
  <1>5. VdChainInv' /\ VdCountInv' /\ VdCallInv'
    BY <1>1, <1>4, VdSameRequests DEF VdIInv, VdCallInv
  <1>6. VdElems(avail)' = VdElems(avail) /\ VdElems(used)' = VdElems(used')
    BY <1>1 DEF VdElems
  <1>7. \A e \in VdElems(used') : status'[e] = "0" /\ b[e] \in served'
    BY <1>1, <1>3 DEF VdIInv, VdTypeInv, VdRingInv
  <1>8. VdRingInv'
    BY <1>1, <1>2, <1>3, <1>6, <1>7 DEF VdIInv, VdRingInv, VdOnce
  <1>. QED  BY <1>4, <1>5, <1>8 DEF VdIInv

(* The handler takes the first completion, and wakes the call. *)
LEMMA VdHandle ==
    ASSUME VdSizes, VdIInv, Vd!Handle PROVE VdIInv'
  <1>. DEFINE d == Head(used)
              p == b[d]
  <1>1. /\ used # <<>> /\ busy' = busy \ {p} /\ used' = Tail(used)
        /\ vdPc' = IF vdPc[p] = "wait_disk" THEN [vdPc EXCEPT ![p] = "woken"] ELSE vdPc
        /\ UNCHANGED <<free, next, b, status, avail, taken, served, idx>>
    BY DEF Vd!Handle
  <1>2. /\ d \in VdElems(used) /\ d \in Vd!Descs /\ used' \in Seq(Vd!Descs)
        /\ VdElems(used') = VdElems(used) \ {d} /\ VdOnce(used')
    BY <1>1, VdTail DEF VdIInv, VdTypeInv, VdRingInv
  <1>3. p \in busy /\ idx[p][1] = d /\ p \in served
    BY <1>2 DEF VdIInv, VdRingInv
  <1>. HIDE DEF d, p
  <1>4. p \in Requesters /\ vdPc[p] = "wait_disk" /\ vdPc' = [vdPc EXCEPT ![p] = "woken"]
    BY <1>1, <1>3 DEF VdIInv, VdTypeInv, VdCallInv
  <1>5. VdTypeInv' /\ VdActive' = VdActive
    BY <1>1, <1>2, <1>4 DEF VdIInv, VdTypeInv, VdActive
  <1>6. VdChainInv' /\ VdCountInv'
    BY <1>1, <1>5, VdSameRequests DEF VdIInv
  <1>7. VdCallInv'
    BY <1>1, <1>3, <1>4 DEF VdIInv, VdTypeInv, VdCallInv
  <1>8. VdElems(avail)' = VdElems(avail) /\ VdElems(used)' = VdElems(used')
    BY <1>1 DEF VdElems
  <1>9. \A e \in VdElems(avail) \cup taken \cup VdElems(used') : b[e] \in busy' /\ idx[b[e]][1] = e
    <2>1. ASSUME NEW e \in VdElems(avail) \cup taken \cup VdElems(used') PROVE e # d
      BY <1>2, <2>1 DEF VdIInv, VdRingInv
    <2>2. ASSUME NEW e \in VdElems(avail) \cup taken \cup VdElems(used')
          PROVE  b[e] \in busy /\ idx[b[e]][1] = e
      BY <1>2 DEF VdIInv, VdRingInv
    <2>. QED  BY <1>1, <1>3, <2>1, <2>2
  <1>10. VdRingInv'
    BY <1>1, <1>2, <1>8, <1>9 DEF VdIInv, VdRingInv, VdOnce
  <1>. QED  BY <1>5, <1>6, <1>7, <1>10 DEF VdIInv

(* A request in the rings is none of the free descriptors. *)
LEMMA VdInUse ==
    ASSUME VdSizes, VdIInv
    PROVE  /\ \A p \in VdActive : VdOwn(p) \subseteq Vd!Chained
           /\ \A d \in VdElems(avail) \cup taken \cup VdElems(used) :
                b[d] \in VdActive /\ d \in VdOwn(b[d]) /\ d \notin free
  <1>1. \A p \in Requesters : VdOwn(p) \subseteq Vd!Chained
    BY VdChained
  <1>2. \A p \in VdActive : p \in Requesters
    BY DEF VdActive
  <1>3. ASSUME NEW d \in VdElems(avail) \cup taken \cup VdElems(used)
        PROVE  b[d] \in VdActive /\ d \in VdOwn(b[d]) /\ d \notin free
    <2>1. b[d] \in busy /\ idx[b[d]][1] = d
      BY <1>3 DEF VdIInv, VdRingInv
    <2>2. b[d] \in VdActive
      BY <2>1 DEF VdIInv, VdTypeInv, VdCallInv, VdActive
    <2>3. d \in VdOwn(b[d])
      BY <2>1, <2>2, VdRequest
    <2>. QED  BY <1>1, <1>2, <2>2, <2>3 DEF VdIInv, VdChainInv
  <1>. QED  BY <1>1, <1>2, <1>3

LEMMA VdSubmit ==
    ASSUME VdSizes, VdIInv, NEW p \in Requesters, Vd!Submit(p) PROVE VdIInv'
  <1>1. PICK x, y, z \in free :
          /\ x # y /\ x # z /\ y # z
          /\ idx' = [idx EXCEPT ![p] = <<x, y, z>>]
          /\ free' = free \ {x, y, z}
          /\ next' = [next EXCEPT ![x] = y, ![y] = z, ![z] = 0]
          /\ status' = [status EXCEPT ![x] = "0xff"]
          /\ b' = [b EXCEPT ![x] = p]
          /\ avail' = Append(avail, x)
    <2>1. free \in SUBSET Nat /\ IsFiniteSet(free)
      <3>1. free \subseteq 1..NUM
        BY DEF VdIInv, VdTypeInv, Vd!Descs
      <3>2. IsFiniteSet(1..NUM) /\ 1..NUM \in SUBSET Nat
        BY FS_Interval DEF VdSizes
      <3>. QED  BY <3>1, <3>2, FS_Subset
    <2>2. Vd!Cardinality(free) >= 3
      BY DEF Vd!Submit
    <2>. DEFINE x == Vd!Nth(free, 1)
                y == Vd!Nth(free, 2)
                z == Vd!Nth(free, 3)
    <2>3. x \in free /\ y \in free /\ z \in free /\ x # y /\ x # z /\ y # z
      BY <2>1, <2>2, VdNth
    <2>. HIDE DEF x, y, z
    <2>4. /\ idx' = [idx EXCEPT ![p] = <<x, y, z>>]
          /\ free' = free \ {x, y, z}
          /\ next' = [next EXCEPT ![x] = y, ![y] = z, ![z] = 0]
          /\ status' = [status EXCEPT ![x] = "0xff"]
          /\ b' = [b EXCEPT ![x] = p]
          /\ avail' = Append(avail, x)
      BY DEF Vd!Submit, x, y, z
    <2>. QED  BY <2>3, <2>4
  <1>2. /\ vdPc[p] = "rw" /\ vdPc' = [vdPc EXCEPT ![p] = "wait_disk"] /\ busy' = busy \cup {p}
        /\ UNCHANGED <<used, taken, served>>
    BY DEF Vd!Submit
  <1>3. /\ x \in Vd!Descs /\ y \in Vd!Descs /\ z \in Vd!Descs
        /\ x \notin Vd!Chained /\ y \notin Vd!Chained /\ z \notin Vd!Chained
    BY <1>1 DEF VdIInv, VdTypeInv, VdChainInv
  <1>4. p \notin VdActive /\ idx[p] = <<>> /\ VdOwn(p) = {} /\ p \notin busy
    BY <1>2, VdOwnNone DEF VdActive, VdIInv, VdChainInv, VdCallInv
  <1>5. /\ VdActive' = VdActive \cup {p}
        /\ vdPc' \in [Requesters -> {"out", "rw", "wait_desc", "wait_disk", "woken"}]
    BY <1>2 DEF VdActive, VdIInv, VdTypeInv
  <1>6. /\ idx'[p] = <<x, y, z>> /\ DOMAIN idx' = Requesters
        /\ \A q \in Requesters : q # p => idx'[q] = idx[q]
    BY <1>1 DEF VdIInv, VdTypeInv
  <1>7. VdOwn(p)' = {x, y, z} /\ \A q \in Requesters : q # p => VdOwn(q)' = VdOwn(q)
    <2>1. DOMAIN <<x, y, z>> = {1, 2, 3}
      OBVIOUS
    <2>. QED  BY <1>6, <2>1 DEF VdOwn
  <1>8. Vd!Chained' = Vd!Chained \cup {x, y, z}
    <2>1. Vd!Chained' = UNION {VdOwn(q)' : q \in Requesters}
      BY DEF Vd!Chained, VdOwn
    <2>2. \A e : e \in Vd!Chained' <=> \E q \in Requesters : e \in VdOwn(q)'
      BY <2>1
    <2>3. \A e : e \in Vd!Chained <=> \E q \in Requesters : e \in VdOwn(q)
      BY VdChained
    <2>4. \A e : e \in Vd!Chained' <=> e \in Vd!Chained \cup {x, y, z}
      BY <1>4, <1>7, <2>2, <2>3
    <2>. QED  BY <2>4
  <1>9. /\ next' \in [Vd!Descs -> {0} \cup Vd!Descs] /\ b' \in [Vd!Descs -> {0} \cup Requesters]
        /\ status' \in [Vd!Descs -> {"none", "0xff", "0"}]
        /\ next'[x] = y /\ next'[y] = z /\ next'[z] = 0 /\ b'[x] = p
        /\ \A e \in Vd!Descs : e \notin {x, y, z} =>
             next'[e] = next[e] /\ b'[e] = b[e] /\ status'[e] = status[e]
    BY <1>1, <1>3 DEF VdIInv, VdTypeInv
  <1>10. x \notin VdElems(avail) /\ x \notin taken /\ x \notin VdElems(used)
    BY <1>1, VdInUse
  <1>11. /\ avail' \in Seq(Vd!Descs) /\ VdElems(avail') = VdElems(avail) \cup {x} /\ VdOnce(avail')
    BY <1>1, <1>3, <1>10, VdAppend DEF VdIInv, VdTypeInv, VdRingInv
  <1>12. VdTypeInv'
    BY <1>1, <1>2, <1>5, <1>6, <1>9, <1>11 DEF VdIInv, VdTypeInv
  <1>13. VdChainInv'
    <2>1. \A q \in Requesters \ VdActive' : idx'[q] = <<>>
      BY <1>5, <1>6 DEF VdIInv, VdChainInv
    <2>2. ASSUME NEW q \in VdActive'
          PROVE  \E u, v, w \in Vd!Descs :
                   /\ idx'[q] = <<u, v, w>> /\ u # v /\ u # w /\ v # w
                   /\ next'[u] = v /\ next'[v] = w /\ next'[w] = 0 /\ b'[u] = q
      <3>1. CASE q = p
        BY <1>1, <1>3, <1>6, <1>9, <3>1
      <3>2. CASE q # p
        <4>1. q \in VdActive /\ q \in Requesters
          BY <1>5, <3>2 DEF VdActive
        <4>2. PICK u, v, w \in Vd!Descs :
                /\ idx[q] = <<u, v, w>> /\ VdOwn(q) = {u, v, w}
                /\ u # v /\ u # w /\ v # w
                /\ next[u] = v /\ next[v] = w /\ next[w] = 0 /\ b[u] = q
          BY <4>1, VdRequest
        <4>3. u \notin {x, y, z} /\ v \notin {x, y, z} /\ w \notin {x, y, z}
          BY <1>3, <4>1, <4>2, VdInUse
        <4>. QED  BY <1>6, <1>9, <3>2, <4>1, <4>2, <4>3
      <3>. QED  BY <3>1, <3>2
    <2>3. ASSUME NEW q \in VdActive', NEW r \in VdActive', q # r
          PROVE  VdOwn(q)' \cap VdOwn(r)' = {}
      <3>1. \A s \in VdActive : s \in Requesters /\ s # p /\ VdOwn(s)' = VdOwn(s)
                                /\ x \notin VdOwn(s) /\ y \notin VdOwn(s) /\ z \notin VdOwn(s)
        BY <1>3, <1>4, <1>7, VdInUse DEF VdActive
      <3>2. CASE q # p /\ r # p
        BY <1>5, <2>3, <3>1, <3>2 DEF VdIInv, VdChainInv
      <3>3. CASE q = p
        BY <1>5, <1>7, <2>3, <3>1, <3>3
      <3>4. CASE r = p
        BY <1>5, <1>7, <2>3, <3>1, <3>4
      <3>. QED  BY <3>2, <3>3, <3>4
    <2>4. free' = Vd!Descs' \ Vd!Chained'
      BY <1>1, <1>8 DEF VdIInv, VdChainInv, Vd!Descs
    <2>. QED  BY <2>1, <2>2, <2>3, <2>4 DEF VdChainInv, Vd!Descs
  <1>14. VdCountInv'
    <2>. DEFINE C == Vd!Chained
    <2>1. IsFiniteSet(C) /\ Cardinality(C) = 3 * Cardinality(VdActive)
      BY DEF VdIInv, VdCountInv
    <2>2. IsFiniteSet(VdActive) /\ Cardinality(VdActive) \in Nat
      <3>1. VdActive \subseteq Requesters
        BY DEF VdActive
      <3>. QED  BY <3>1, FS_Subset, FS_CardinalityType DEF VdSizes
    <2>3. Cardinality(VdActive') = Cardinality(VdActive) + 1
      BY <1>4, <1>5, <2>2, FS_AddElement
    <2>4. Vd!Chained' = ((C \cup {x}) \cup {y}) \cup {z}
      BY <1>8
    <2>. HIDE DEF C
    <2>5. x \notin C /\ y \notin C \cup {x} /\ z \notin (C \cup {x}) \cup {y}
      BY <1>1, <1>3 DEF C
    <2>6. IsFiniteSet(C \cup {x}) /\ Cardinality(C \cup {x}) = Cardinality(C) + 1
      BY <2>1, <2>5, FS_AddElement
    <2>7. IsFiniteSet((C \cup {x}) \cup {y})
          /\ Cardinality((C \cup {x}) \cup {y}) = Cardinality(C \cup {x}) + 1
      BY <2>5, <2>6, FS_AddElement
    <2>8. IsFiniteSet(((C \cup {x}) \cup {y}) \cup {z})
          /\ Cardinality(((C \cup {x}) \cup {y}) \cup {z}) = Cardinality((C \cup {x}) \cup {y}) + 1
      BY <2>5, <2>7, FS_AddElement
    <2>9. Cardinality(Vd!Chained') = 3 * Cardinality(VdActive')
      BY <2>1, <2>2, <2>3, <2>4, <2>6, <2>7, <2>8
    <2>. QED  BY <2>4, <2>8, <2>9 DEF VdCountInv
  <1>15. VdRingInv'
    <2>1. VdElems(avail)' = VdElems(avail') /\ VdElems(used)' = VdElems(used)
      BY <1>2 DEF VdElems
    <2>2. ASSUME NEW d \in VdElems(avail) \cup taken \cup VdElems(used)
          PROVE  b'[d] \in busy' /\ idx'[b'[d]][1] = d /\ b'[d] = b[d] /\ status'[d] = status[d]
      <3>1. b[d] \in busy /\ idx[b[d]][1] = d /\ b[d] \in VdActive /\ d \in Vd!Chained
        BY <2>2, VdInUse DEF VdIInv, VdRingInv
      <3>2. b[d] # p /\ b[d] \in Requesters /\ d \in Vd!Descs /\ d \notin {x, y, z}
        <4>1. d \in Vd!Descs
          BY <3>1, VdInUse, VdRequest, <2>2
        <4>. QED  BY <1>3, <1>4, <3>1, <4>1 DEF VdActive
      <3>. QED  BY <1>2, <1>6, <1>9, <3>1, <3>2
    <2>3. b'[x] \in busy' /\ idx'[b'[x]][1] = x
      BY <1>2, <1>6, <1>9
    <2>4. VdOnce(used)' /\ VdOnce(avail)'
      BY <1>2, <1>11 DEF VdIInv, VdRingInv, VdOnce
    <2>. QED  BY <1>2, <1>10, <1>11, <2>1, <2>2, <2>3, <2>4 DEF VdIInv, VdRingInv
  <1>16. VdCallInv'
    BY <1>2 DEF VdIInv, VdTypeInv, VdCallInv
  <1>. QED  BY <1>12, <1>13, <1>14, <1>15, <1>16 DEF VdIInv

LEMMA VdFinish ==
    ASSUME VdSizes, VdIInv, NEW p \in Requesters, Vd!Finish(p) PROVE VdIInv'
  <1>1. vdPc[p] = "woken" /\ p \in VdActive /\ p \notin busy
    BY DEF Vd!Finish, VdActive, VdIInv, VdCallInv
  <1>2. PICK x, y, z \in Vd!Descs :
          /\ idx[p] = <<x, y, z>> /\ VdOwn(p) = {x, y, z} /\ idx[p][1] = x
          /\ x # y /\ x # z /\ y # z
          /\ next[x] = y /\ next[y] = z /\ next[z] = 0 /\ b[x] = p
    BY <1>1, VdRequest
  <1>3. Vd!Chain(idx[p][1]) = {x, y, z}
    <2>1. y # 0 /\ z # 0
      BY DEF Vd!Descs
    <2>. QED  BY <1>2, <2>1 DEF Vd!Chain
  <1>. DEFINE w == [vdPc EXCEPT ![p] = "out"]
  <1>4. /\ free' = free \cup {x, y, z}
        /\ next' = [d \in Vd!Descs |-> IF d \in {x, y, z} THEN 0 ELSE next[d]]
        /\ b' = [b EXCEPT ![x] = 0] /\ idx' = [idx EXCEPT ![p] = <<>>]
        /\ vdPc' = Vd!Roused(w)
        /\ UNCHANGED <<status, avail, used, taken, busy, served>>
    BY <1>2, <1>3 DEF Vd!Finish, Vd!None
  <1>5. /\ w \in [Requesters -> {"out", "rw", "wait_desc", "wait_disk", "woken"}]
        /\ w[p] = "out" /\ \A q \in Requesters : q # p => w[q] = vdPc[q]
    BY DEF VdIInv, VdTypeInv
  <1>. HIDE DEF w
  <1>6. /\ vdPc' \in [Requesters -> {"out", "rw", "wait_desc", "wait_disk", "woken"}]
        /\ vdPc'[p] \notin {"wait_disk", "woken"}
        /\ \A q \in Requesters : q # p => /\ vdPc'[q] = "wait_disk" <=> vdPc[q] = "wait_disk"
                                          /\ vdPc'[q] = "woken" <=> vdPc[q] = "woken"
    BY <1>4, <1>5, VdRoused
  <1>7. VdActive' = VdActive \ {p}
    BY <1>6 DEF VdActive
  <1>8. /\ idx'[p] = <<>> /\ DOMAIN idx' = Requesters
        /\ \A q \in Requesters : q # p => idx'[q] = idx[q]
    BY <1>4 DEF VdIInv, VdTypeInv
  <1>9. VdOwn(p)' = {} /\ \A q \in Requesters : q # p => VdOwn(q)' = VdOwn(q)
    BY <1>8 DEF VdOwn
  <1>10. \A q \in VdActive : q # p => /\ q \in Requesters
                                      /\ x \notin VdOwn(q) /\ y \notin VdOwn(q) /\ z \notin VdOwn(q)
    BY <1>1, <1>2 DEF VdIInv, VdChainInv, VdActive
  <1>11. \A q \in Requesters : q # p =>
           x \notin VdOwn(q) /\ y \notin VdOwn(q) /\ z \notin VdOwn(q)
    <2>1. \A q \in Requesters : q \notin VdActive => VdOwn(q) = {}
      BY VdOwnNone DEF VdIInv, VdChainInv
    <2>. QED  BY <1>10, <2>1
  <1>12. Vd!Chained' = Vd!Chained \ {x, y, z} /\ {x, y, z} \subseteq Vd!Chained
    <2>1. Vd!Chained' = UNION {VdOwn(q)' : q \in Requesters}
      BY DEF Vd!Chained, VdOwn
    <2>2. \A e : e \in Vd!Chained' <=> \E q \in Requesters : e \in VdOwn(q)'
      BY <2>1
    <2>3. \A e : e \in Vd!Chained <=> \E q \in Requesters : e \in VdOwn(q)
      BY VdChained
    <2>4. \A e : e \in Vd!Chained' <=> e \in Vd!Chained \ {x, y, z}
      BY <1>2, <1>9, <1>11, <2>2, <2>3
    <2>5. {x, y, z} \subseteq Vd!Chained
      BY <1>2, <2>3
    <2>. QED  BY <2>4, <2>5
  <1>13. /\ next' \in [Vd!Descs -> {0} \cup Vd!Descs] /\ b' \in [Vd!Descs -> {0} \cup Requesters]
         /\ \A e \in Vd!Descs : e \notin {x, y, z} => next'[e] = next[e] /\ b'[e] = b[e]
    BY <1>4 DEF VdIInv, VdTypeInv
  <1>14. VdTypeInv'
    BY <1>4, <1>6, <1>8, <1>13 DEF VdIInv, VdTypeInv
  <1>15. VdChainInv'
    <2>1. \A q \in Requesters \ VdActive' : idx'[q] = <<>>
      BY <1>7, <1>8 DEF VdIInv, VdChainInv
    <2>2. ASSUME NEW q \in VdActive'
          PROVE  \E u, v, r \in Vd!Descs :
                   /\ idx'[q] = <<u, v, r>> /\ u # v /\ u # r /\ v # r
                   /\ next'[u] = v /\ next'[v] = r /\ next'[r] = 0 /\ b'[u] = q
      <3>1. q \in VdActive /\ q # p /\ q \in Requesters
        BY <1>7, <1>10
      <3>2. PICK u, v, r \in Vd!Descs :
              /\ idx[q] = <<u, v, r>> /\ VdOwn(q) = {u, v, r}
              /\ u # v /\ u # r /\ v # r
              /\ next[u] = v /\ next[v] = r /\ next[r] = 0 /\ b[u] = q
        BY <3>1, VdRequest
      <3>3. u \notin {x, y, z} /\ v \notin {x, y, z} /\ r \notin {x, y, z}
        BY <1>10, <3>1, <3>2
      <3>. QED  BY <1>8, <1>13, <3>1, <3>2, <3>3
    <2>3. \A q, r \in VdActive' : q # r => VdOwn(q)' \cap VdOwn(r)' = {}
      <3>1. \A q \in VdActive' : q \in VdActive /\ VdOwn(q)' = VdOwn(q)
        BY <1>7, <1>9, <1>10
      <3>. QED  BY <3>1 DEF VdIInv, VdChainInv
    <2>4. free' = Vd!Descs \ Vd!Chained'
      BY <1>4, <1>12 DEF VdIInv, VdChainInv
    <2>. QED  BY <2>1, <2>2, <2>3, <2>4 DEF VdChainInv, Vd!Descs
  <1>16. VdCountInv'
    <2>. DEFINE C == Vd!Chained
    <2>1. IsFiniteSet(C) /\ Cardinality(C) = 3 * Cardinality(VdActive)
      BY DEF VdIInv, VdCountInv
    <2>2. IsFiniteSet(VdActive) /\ Cardinality(VdActive) \in Nat
      <3>1. VdActive \subseteq Requesters
        BY DEF VdActive
      <3>. QED  BY <3>1, FS_Subset, FS_CardinalityType DEF VdSizes
    <2>3. Cardinality(VdActive') = Cardinality(VdActive) - 1
      BY <1>1, <1>7, <2>2, FS_RemoveElement
    <2>4. Vd!Chained' = ((C \ {x}) \ {y}) \ {z}
      BY <1>12
    <2>5. x \in C /\ y \in C \ {x} /\ z \in (C \ {x}) \ {y}
      BY <1>2, <1>12
    <2>. HIDE DEF C
    <2>6. IsFiniteSet(C \ {x}) /\ Cardinality(C \ {x}) = Cardinality(C) - 1
      BY <2>1, <2>5, FS_RemoveElement
    <2>7. IsFiniteSet((C \ {x}) \ {y}) /\ Cardinality((C \ {x}) \ {y}) = Cardinality(C \ {x}) - 1
      BY <2>5, <2>6, FS_RemoveElement
    <2>8. /\ IsFiniteSet(((C \ {x}) \ {y}) \ {z})
          /\ Cardinality(((C \ {x}) \ {y}) \ {z}) = Cardinality((C \ {x}) \ {y}) - 1
      BY <2>5, <2>7, FS_RemoveElement
    <2>9. Cardinality(Vd!Chained') = 3 * Cardinality(VdActive')
      BY <2>1, <2>2, <2>3, <2>4, <2>6, <2>7, <2>8
    <2>. QED  BY <2>4, <2>8, <2>9 DEF VdCountInv
  <1>17. VdRingInv'
    <2>1. VdElems(avail)' = VdElems(avail) /\ VdElems(used)' = VdElems(used)
          /\ VdOnce(avail)' = VdOnce(avail) /\ VdOnce(used)' = VdOnce(used)
      BY <1>4 DEF VdElems, VdOnce
    <2>2. ASSUME NEW d \in VdElems(avail) \cup taken \cup VdElems(used)
          PROVE  b'[d] \in busy' /\ idx'[b'[d]][1] = d /\ b'[d] = b[d]
      <3>1. b[d] \in busy /\ idx[b[d]][1] = d /\ b[d] \in VdActive /\ d \in VdOwn(b[d])
        BY <2>2, VdInUse DEF VdIInv, VdRingInv
      <3>2. b[d] # p
        BY <1>1, <3>1
      <3>3. d \in Vd!Descs
        BY <3>1, VdRequest
      <3>4. d \notin {x, y, z} /\ b[d] \in Requesters
        BY <1>10, <3>1, <3>2
      <3>. QED  BY <1>4, <1>8, <1>13, <3>1, <3>2, <3>3, <3>4
    <2>. QED  BY <1>4, <2>1, <2>2 DEF VdIInv, VdRingInv
  <1>18. VdCallInv'
    BY <1>1, <1>4, <1>6 DEF VdIInv, VdCallInv
  <1>. QED  BY <1>14, <1>15, <1>16, <1>17, <1>18 DEF VdIInv

(* The invariant is inductive, and the driver does what it should. *)
LEMMA VdStep ==
    ASSUME VdSizes, VdIInv, [Vd!Next]_Vd!vars PROVE VdIInv'
  <1>1. ASSUME UNCHANGED <<free, next, b, status, avail, used, taken, busy, served, vdPc, idx>>
        PROVE  VdIInv'
    <2>1. VdActive' = VdActive /\ Vd!Chained' = Vd!Chained /\ \A p : VdOwn(p)' = VdOwn(p)
      BY <1>1 DEF VdActive, Vd!Chained, VdOwn
    <2>2. VdElems(avail)' = VdElems(avail) /\ VdElems(used)' = VdElems(used)
          /\ VdOnce(avail)' = VdOnce(avail) /\ VdOnce(used)' = VdOnce(used)
      BY <1>1 DEF VdElems, VdOnce
    <2>. QED  BY <1>1, <2>1, <2>2 DEF VdIInv, VdTypeInv, VdChainInv, VdCountInv, VdRingInv, VdCallInv
  <1>2. CASE UNCHANGED Vd!vars
    BY <1>1, <1>2 DEF Vd!vars
  <1>3. CASE Vd!Ack \/ Vd!Handled \/ Vd!Release
    BY <1>1, <1>3 DEF Vd!Ack, Vd!Handled, Vd!Release
  <1>. QED
    BY <1>2, <1>3, VdEnter, VdNoDescs, VdSubmit, VdFinish, VdTake, VdComplete, VdHandle
    DEF Vd!Next, Vd!Resume, Vd!Device, Vd!Interrupt

LEMMA VdHolds == ASSUME VdSizes, VdIInv PROVE RequestsApart
  <1>1. {p \in Requesters : idx[p] # Vd!None} = VdActive
    <2>1. \A p \in VdActive : p \in Requesters /\ idx[p] # <<>>
      BY VdRequest, VdOwnIs DEF VdActive
    <2>. QED  BY <2>1 DEF Vd!None, VdIInv, VdChainInv
  <1>2. Vd!Cardinality(Vd!Chained) = 3 * Vd!Cardinality({p \in Requesters : idx[p] # Vd!None})
    BY <1>1, VdCardinality DEF VdIInv, VdCountInv
  <1>3. used # <<>> => status[Head(used)] = "0" /\ b[Head(used)] # 0
    <2>1. used # <<>> => Head(used) \in VdElems(used)
      BY VdTail DEF VdIInv, VdTypeInv, VdRingInv
    <2>2. \A d \in VdElems(used) : status[d] = "0" /\ b[d] \in Requesters
      BY DEF VdIInv, VdTypeInv, VdRingInv
    <2>. QED  BY <2>1, <2>2 DEF VdSizes
  <1>4. \A p \in Requesters : /\ vdPc[p] = "woken" => p \in served /\ p \notin busy
                              /\ vdPc[p] = "wait_disk" => p \in busy
    BY DEF VdIInv, VdCallInv
  <1>. QED  BY <1>2, <1>3, <1>4 DEF RequestsApart, Vd!RequestsApart, VdIInv, VdChainInv

-----------------------------------------------------------------------------
(* WsEvent, for any finite set of clients and any sizes.                   *)

WbSizes ==
    /\ IsFiniteSet(Clients) /\ Tables \subseteq Nat \ {0}
    /\ WS_REQ_MAX \in Nat \ {0} /\ OutLen \in Nat \ {0} /\ Room \in Nat \ {0}

WbPieces == Clients \X BOOLEAN
WbResponses == Clients \X Nat
WbConn == [state : {"free", "reading", "writing"}, fd : Nat,
           req : Seq(WbPieces), out : Seq(WbResponses)]

(* Slot s is the connection of client c. *)
WbServes(s, c) == conns[s].state # "free" /\ fd[c] = conns[s].fd

(* The units of c's response that follow the first m. *)
WbUnits(q, c, m) == \A k \in 1..Len(q) : q[k] = <<c, m + k>>

(* The pieces are of the request of c. *)
WbOf(q, c) == \A k \in 1..Len(q) : q[k][1] = c

WbTotal(c) == Len(got[c]) + Len(out[c])

WbTypeInv ==
    /\ sock \in [Clients -> {"out", "backlog", "open", "closed"}]
    /\ fd \in [Clients -> Nat]
    /\ in \in [Clients -> Seq(WbPieces)]
    /\ out \in [Clients -> Seq(WbResponses)] /\ got \in [Clients -> Seq(WbResponses)]
    /\ hung \in [Clients -> BOOLEAN]
    /\ \E n \in Tables : conns \in [1..n -> WbConn]
    /\ wsPc \in Int /\ wsPc >= -1

(* Open sockets have descriptors of their own, and the slots of the table  *)
(* descriptors of open sockets, each its own.                              *)
WbDescInv ==
    /\ \A c \in Clients : fd[c] # 0 <=> sock[c] = "open"
    /\ \A c, d \in Clients : fd[c] = fd[d] /\ fd[c] # 0 => c = d
    /\ \A s \in DOMAIN conns : conns[s].state # "free" =>
         conns[s].fd # 0 /\ \E c \in Clients : fd[c] = conns[s].fd
    /\ \A s, t \in DOMAIN conns :
         conns[s].state # "free" /\ conns[t].state # "free" /\ s # t
           => conns[s].fd # conns[t].fd

(* What a client has and what is on its way are the units of its response  *)
(* from the first on: none before the server writes, all of them when it   *)
(* has written.                                                            *)
WbClientInv ==
    \A c \in Clients :
      /\ WbOf(in[c], c)
      /\ WbUnits(got[c], c, 0) /\ WbUnits(out[c], c, Len(got[c])) /\ WbTotal(c) <= OutLen
      /\ sock[c] \in {"out", "backlog"} => WbTotal(c) = 0
      /\ sock[c] = "closed" /\ ~hung[c] /\ in[c] = <<>> => WbTotal(c) \in {0, OutLen}

(* What a slot holds: a request of its client that still fits, or the rest *)
(* of its client's response.                                               *)
WbSlotInv ==
    \A s \in DOMAIN conns : \A c \in Clients : WbServes(s, c) =>
      /\ conns[s].state = "reading" =>
           WbTotal(c) = 0 /\ Len(conns[s].req) <= WS_REQ_MAX /\ WbOf(conns[s].req, c)
      /\ conns[s].state = "writing" =>
           WbUnits(conns[s].out, c, WbTotal(c)) /\ WbTotal(c) + Len(conns[s].out) = OutLen

(* Between two calls of select, what it left is true of the slots the loop *)
(* has not come to; descriptors given out since are in neither set.        *)
WbPassInv ==
    /\ wsPc # 0 =>
         \A s \in DOMAIN conns : \A c \in Clients : s >= wsPc /\ WbServes(s, c) =>
           /\ conns[s].state = "reading" /\ conns[s].fd \in rd => Ws!Readable(c)
           /\ conns[s].state = "writing" /\ conns[s].fd \in wr => Ws!Writable(c)
    /\ wsPc = -1 => \A f \in rd \cup wr : f # 0 => \E c \in Clients : fd[c] = f

WbIInv == WbTypeInv /\ WbDescInv /\ WbClientInv /\ WbSlotInv /\ WbPassInv

(* Sequences. *)
LEMMA WbJoin ==
    ASSUME NEW S, NEW q \in Seq(S), NEW r \in Seq(S), NEW c, NEW m \in Nat,
           WbUnits(q, c, m), WbUnits(r, c, m + Len(q))
    PROVE  q \o r \in Seq(S) /\ Len(q \o r) = Len(q) + Len(r) /\ WbUnits(q \o r, c, m)
  <1>1. /\ q \o r \in Seq(S) /\ Len(q \o r) = Len(q) + Len(r) /\ Len(q) \in Nat /\ Len(r) \in Nat
        /\ \A k \in 1..(Len(q) + Len(r)) : (q \o r)[k] = IF k <= Len(q) THEN q[k] ELSE r[k - Len(q)]
    OBVIOUS
  <1>2. ASSUME NEW k \in 1..Len(q \o r) PROVE (q \o r)[k] = <<c, m + k>>
    <2>1. CASE k <= Len(q)
      BY <1>1, <2>1 DEF WbUnits
    <2>2. CASE ~(k <= Len(q))
      <3>1. k - Len(q) \in 1..Len(r) /\ (m + Len(q)) + (k - Len(q)) = m + k
        BY <1>1, <2>2
      <3>2. (q \o r)[k] = r[k - Len(q)]
        BY <1>1, <2>2
      <3>. QED  BY <3>1, <3>2 DEF WbUnits
    <2>. QED  BY <2>1, <2>2
  <1>. QED  BY <1>1, <1>2 DEF WbUnits

LEMMA WbCut ==
    ASSUME NEW S, NEW q \in Seq(S), NEW n \in 0..Len(q)
    PROVE  /\ SubSeq(q, 1, n) \in Seq(S) /\ Len(SubSeq(q, 1, n)) = n
           /\ SubSeq(q, n + 1, Len(q)) \in Seq(S) /\ Len(SubSeq(q, n + 1, Len(q))) = Len(q) - n
           /\ \A k \in 1..n : SubSeq(q, 1, n)[k] = q[k]
           /\ \A k \in 1..(Len(q) - n) : SubSeq(q, n + 1, Len(q))[k] = q[n + k]
  OBVIOUS

LEMMA WbCutUnits ==
    ASSUME NEW S, NEW q \in Seq(S), NEW n \in 0..Len(q), NEW c, NEW m \in Nat, WbUnits(q, c, m)
    PROVE  WbUnits(SubSeq(q, 1, n), c, m) /\ WbUnits(SubSeq(q, n + 1, Len(q)), c, m + n)
  <1>. DEFINE x == SubSeq(q, 1, n)
              y == SubSeq(q, n + 1, Len(q))
  <1>1. /\ Len(q) \in Nat /\ Len(x) = n /\ Len(y) = Len(q) - n
        /\ \A k \in 1..n : x[k] = q[k]
        /\ \A k \in 1..(Len(q) - n) : y[k] = q[n + k]
    BY WbCut
  <1>. HIDE DEF x, y
  <1>2. ASSUME NEW k \in 1..Len(x) PROVE x[k] = <<c, m + k>>
    BY <1>1 DEF WbUnits
  <1>3. ASSUME NEW k \in 1..Len(y) PROVE y[k] = <<c, (m + n) + k>>
    <2>1. n + k \in 1..Len(q) /\ m + (n + k) = (m + n) + k
      BY <1>1
    <2>. QED  BY <1>1, <2>1 DEF WbUnits
  <1>. QED  BY <1>2, <1>3 DEF WbUnits, x, y

LEMMA WbMove ==
    ASSUME NEW S, NEW q \in Seq(S), NEW r \in Seq(S), r # <<>>, NEW c, NEW m \in Nat,
           WbUnits(q, c, m), WbUnits(r, c, m + Len(q))
    PROVE  /\ Append(q, Head(r)) \in Seq(S) /\ Tail(r) \in Seq(S)
           /\ Len(Append(q, Head(r))) = Len(q) + 1 /\ Len(Tail(r)) = Len(r) - 1
           /\ WbUnits(Append(q, Head(r)), c, m) /\ WbUnits(Tail(r), c, m + (Len(q) + 1))
  <1>. DEFINE x == Append(q, Head(r))
              y == Tail(r)
  <1>1. /\ Len(q) \in Nat /\ Len(r) \in Nat /\ Len(r) >= 1
        /\ x \in Seq(S) /\ y \in Seq(S) /\ Len(x) = Len(q) + 1 /\ Len(y) = Len(r) - 1
        /\ \A k \in 1..Len(q) : x[k] = q[k]
        /\ x[Len(q) + 1] = r[1]
        /\ \A k \in 1..Len(y) : y[k] = r[k + 1]
    OBVIOUS
  <1>. HIDE DEF x, y
  <1>2. ASSUME NEW k \in 1..Len(x) PROVE x[k] = <<c, m + k>>
    <2>1. CASE k \in 1..Len(q)
      BY <1>1, <2>1 DEF WbUnits
    <2>2. CASE k = Len(q) + 1
      <3>1. 1 \in 1..Len(r) /\ (m + Len(q)) + 1 = m + k
        BY <1>1, <2>2
      <3>. QED  BY <1>1, <2>2, <3>1 DEF WbUnits
    <2>. QED  BY <1>1, <2>1, <2>2
  <1>3. ASSUME NEW k \in 1..Len(y) PROVE y[k] = <<c, (m + (Len(q) + 1)) + k>>
    <2>1. k + 1 \in 1..Len(r) /\ (m + Len(q)) + (k + 1) = (m + (Len(q) + 1)) + k
      BY <1>1
    <2>. QED  BY <1>1, <2>1 DEF WbUnits
  <1>. QED  BY <1>1, <1>2, <1>3 DEF WbUnits, x, y

LEMMA WbNone == ASSUME NEW c, NEW m PROVE WbUnits(<<>>, c, m) /\ WbOf(<<>>, c)
  BY DEF WbUnits, WbOf

(* The response is the units from the first. *)
LEMMA WbResponse ==
    ASSUME WbSizes, NEW c \in Clients
    PROVE  /\ Ws!Response(c) \in Seq(WbResponses) /\ Len(Ws!Response(c)) = OutLen
           /\ WbUnits(Ws!Response(c), c, 0)
  <1>1. OutLen \in Nat /\ \A k \in 1..OutLen : <<c, k>> \in WbResponses
    BY DEF WbSizes, WbResponses
  <1>2. Ws!Response(c) \in [1..OutLen -> WbResponses]
    BY <1>1 DEF Ws!Response
  <1>3. Ws!Response(c) \in Seq(WbResponses) /\ Len(Ws!Response(c)) = OutLen
    BY <1>1, <1>2
  <1>. QED  BY <1>1, <1>3 DEF Ws!Response, WbUnits

(* The first units are the beginning of the response. *)
LEMMA WbPrefix ==
    ASSUME WbSizes, NEW c \in Clients, NEW q \in Seq(WbResponses), WbUnits(q, c, 0), Len(q) <= OutLen
    PROVE  q = SubSeq(Ws!Response(c), 1, Len(q))
  <1>1. Len(q) \in 0..Len(Ws!Response(c)) /\ Ws!Response(c) \in Seq(WbResponses)
    BY WbResponse DEF WbSizes
  <1>. DEFINE x == SubSeq(Ws!Response(c), 1, Len(q))
  <1>2. x \in Seq(WbResponses) /\ Len(x) = Len(q) /\ WbUnits(x, c, 0)
    BY <1>1, WbCut, WbCutUnits, WbResponse
  <1>. HIDE DEF x
  <1>3. \A k \in 1..Len(q) : q[k] = x[k]
    BY <1>2 DEF WbUnits
  <1>. QED  BY <1>2, <1>3 DEF x

LEMMA WbPeer ==
    ASSUME WbIInv, NEW s \in DOMAIN conns, NEW c \in Clients, WbServes(s, c)
    PROVE  Ws!Peer(conns[s].fd) = c
  <1>1. \A d \in Clients : fd[d] = conns[s].fd => d = c
    BY DEF WbIInv, WbDescInv, WbServes
  <1>. QED  BY <1>1 DEF WbServes, Ws!Peer

LEMMA WbInit == ASSUME WbSizes, Ws!Init PROVE WbIInv
  <1>1. <<>> \in Seq(WbPieces) /\ <<>> \in Seq(WbResponses) /\ Len(<<>>) = 0
    OBVIOUS
  <1>2. PICK n \in Tables : conns = [s \in 1..n |-> Ws!NoConn]
    BY DEF Ws!Init
  <1>3. Ws!NoConn \in WbConn /\ Ws!NoConn.state = "free"
    BY <1>1 DEF Ws!NoConn, Ws!FREE, WbConn
  <1>4. conns \in [1..n -> WbConn] /\ \A s \in DOMAIN conns : conns[s].state = "free"
    BY <1>2, <1>3
  <1>5. WbTypeInv
    BY <1>1, <1>4 DEF Ws!Init, Ws!SELECT, WbTypeInv
  <1>6. \A c \in Clients : WbTotal(c) = 0
    BY DEF Ws!Init, WbTotal
  <1>7. WbClientInv
    BY <1>6, WbNone DEF Ws!Init, WbClientInv, WbSizes
  <1>8. WbDescInv /\ WbSlotInv /\ WbPassInv
    BY <1>4 DEF Ws!Init, Ws!SELECT, WbDescInv, WbSlotInv, WbPassInv, WbServes
  <1>. QED  BY <1>5, <1>7, <1>8 DEF WbIInv

(* What a client does to its own socket leaves the server's table as it    *)
(* is, and what was ready is so still.                                     *)
LEMMA WbClient ==
    ASSUME WbIInv, UNCHANGED <<fd, conns, rd, wr, wsPc>>,
           sock' \in [Clients -> {"out", "backlog", "open", "closed"}],
           in' \in [Clients -> Seq(WbPieces)], out' \in [Clients -> Seq(WbResponses)],
           got' \in [Clients -> Seq(WbResponses)], hung' \in [Clients -> BOOLEAN],
           WbClientInv',
           \A d \in Clients : /\ sock'[d] = "open" <=> sock[d] = "open"
                              /\ WbTotal(d)' = WbTotal(d)
                              /\ Ws!Readable(d) => Ws!Readable(d)'
                              /\ Ws!Writable(d) => Ws!Writable(d)'
    PROVE  WbIInv'
  <1>1. WbTypeInv' /\ WbDescInv'
    BY DEF WbIInv, WbTypeInv, WbDescInv
  <1>2. \A s, d : WbServes(s, d)' = WbServes(s, d)
    BY DEF WbServes
  <1>3. WbSlotInv'
    <2>1. SUFFICES ASSUME NEW s \in DOMAIN conns, NEW d \in Clients, WbServes(s, d)
                   PROVE  /\ conns[s].state = "reading" =>
                               /\ WbTotal(d)' = 0 /\ Len(conns[s].req) <= WS_REQ_MAX
                               /\ WbOf(conns[s].req, d)
                          /\ conns[s].state = "writing" =>
                               /\ WbUnits(conns[s].out, d, WbTotal(d)')
                               /\ WbTotal(d)' + Len(conns[s].out) = OutLen
      BY <1>2 DEF WbSlotInv
    <2>. QED  BY <2>1 DEF WbIInv, WbSlotInv
  <1>4. WbPassInv'
    <2>1. ASSUME wsPc # 0, NEW s \in DOMAIN conns, NEW d \in Clients, s >= wsPc, WbServes(s, d)
          PROVE  /\ conns[s].state = "reading" /\ conns[s].fd \in rd => Ws!Readable(d)'
                 /\ conns[s].state = "writing" /\ conns[s].fd \in wr => Ws!Writable(d)'
      BY <2>1 DEF WbIInv, WbPassInv
    <2>. QED  BY <1>2, <2>1 DEF WbIInv, WbPassInv
  <1>. QED  BY <1>1, <1>3, <1>4 DEF WbIInv

LEMMA WbConnect ==
    ASSUME WbSizes, WbIInv, NEW c \in Clients, Ws!Connect(c) PROVE WbIInv'
  <1>1. /\ sock[c] = "out" /\ sock' = [sock EXCEPT ![c] = "backlog"]
        /\ UNCHANGED <<fd, in, out, got, hung, conns, rd, wr, wsPc>>
    BY DEF Ws!Connect
  <1>2. \A d \in Clients : WbTotal(d)' = WbTotal(d)
    BY <1>1 DEF WbTotal
  <1>3. WbClientInv'
    BY <1>1, <1>2 DEF WbIInv, WbTypeInv, WbClientInv
  <1>. QED  BY <1>1, <1>2, <1>3, WbClient DEF WbIInv, WbTypeInv, Ws!Readable, Ws!Writable

LEMMA WbSendPiece ==
    ASSUME WbSizes, WbIInv, NEW c \in Clients, NEW last \in BOOLEAN, Ws!SendPiece(c, last)
    PROVE  WbIInv'
  <1>1. /\ sock[c] \in {"backlog", "open"} /\ in' = [in EXCEPT ![c] = Append(@, <<c, last>>)]
        /\ UNCHANGED <<sock, fd, out, got, hung, conns, rd, wr, wsPc>>
    BY DEF Ws!SendPiece
  <1>2. \A d \in Clients : WbTotal(d)' = WbTotal(d)
    BY <1>1 DEF WbTotal
  <1>. DEFINE x == Append(in[c], <<c, last>>)
  <1>3. /\ x \in Seq(WbPieces) /\ Len(x) = Len(in[c]) + 1 /\ Len(in[c]) \in Nat
        /\ \A k \in 1..Len(in[c]) : x[k] = in[c][k]
        /\ x[Len(in[c]) + 1] = <<c, last>> /\ x # <<>>
    <2>1. in[c] \in Seq(WbPieces) /\ <<c, last>> \in WbPieces
      BY DEF WbIInv, WbTypeInv, WbPieces
    <2>. QED  BY <2>1
  <1>. HIDE DEF x
  <1>4. WbOf(x, c)
    <2>1. WbOf(in[c], c)
      BY DEF WbIInv, WbClientInv
    <2>2. \A k \in 1..Len(x) : k \in 1..Len(in[c]) \/ k = Len(in[c]) + 1
      BY <1>3
    <2>. QED  BY <1>3, <2>1, <2>2 DEF WbOf
  <1>5. in' = [in EXCEPT ![c] = x]
    BY <1>1 DEF x
  <1>6. in' \in [Clients -> Seq(WbPieces)] /\ \A d \in Clients : in'[d] = IF d = c THEN x ELSE in[d]
    BY <1>3, <1>5 DEF WbIInv, WbTypeInv
  <1>7. WbClientInv'
    BY <1>1, <1>2, <1>4, <1>6 DEF WbIInv, WbClientInv
  <1>8. \A d \in Clients : Ws!Readable(d) => Ws!Readable(d)'
    BY <1>1, <1>3, <1>6 DEF Ws!Readable
  <1>. QED  BY <1>1, <1>2, <1>6, <1>7, <1>8, WbClient DEF WbIInv, WbTypeInv, Ws!Writable

LEMMA WbRecv ==
    ASSUME WbSizes, WbIInv, NEW c \in Clients, Ws!Recv(c) PROVE WbIInv'
  <1>1. /\ out[c] # <<>>
        /\ got' = [got EXCEPT ![c] = Append(@, Head(out[c]))]
        /\ out' = [out EXCEPT ![c] = Tail(@)]
        /\ UNCHANGED <<sock, fd, in, hung, conns, rd, wr, wsPc>>
    BY DEF Ws!Recv
  <1>. DEFINE g == Append(got[c], Head(out[c]))
              o == Tail(out[c])
  <1>2. /\ got[c] \in Seq(WbResponses) /\ out[c] \in Seq(WbResponses)
        /\ WbUnits(got[c], c, 0) /\ WbUnits(out[c], c, Len(got[c]))
        /\ Len(got[c]) \in Nat /\ Len(out[c]) \in Nat
    BY DEF WbIInv, WbTypeInv, WbClientInv
  <1>3. /\ g \in Seq(WbResponses) /\ o \in Seq(WbResponses)
        /\ Len(g) = Len(got[c]) + 1 /\ Len(o) = Len(out[c]) - 1
        /\ WbUnits(g, c, 0) /\ WbUnits(o, c, Len(g))
    <2>1. 0 + Len(got[c]) = Len(got[c]) /\ 0 + (Len(got[c]) + 1) = Len(got[c]) + 1 /\ 0 \in Nat
      BY <1>2
    <2>2. WbUnits(out[c], c, 0 + Len(got[c]))
      BY <1>2, <2>1
    <2>3. /\ g \in Seq(WbResponses) /\ o \in Seq(WbResponses)
          /\ Len(g) = Len(got[c]) + 1 /\ Len(o) = Len(out[c]) - 1
          /\ WbUnits(g, c, 0) /\ WbUnits(o, c, 0 + (Len(got[c]) + 1))
      BY <1>1, <1>2, <2>1, <2>2, WbMove
    <2>. QED  BY <2>1, <2>3
  <1>4. got' = [got EXCEPT ![c] = g] /\ out' = [out EXCEPT ![c] = o]
    BY <1>1
  <1>. HIDE DEF g, o
  <1>5. /\ got' \in [Clients -> Seq(WbResponses)] /\ out' \in [Clients -> Seq(WbResponses)]
        /\ \A d \in Clients : /\ got'[d] = IF d = c THEN g ELSE got[d]
                              /\ out'[d] = IF d = c THEN o ELSE out[d]
    BY <1>3, <1>4 DEF WbIInv, WbTypeInv
  <1>6. \A d \in Clients : WbTotal(d)' = WbTotal(d)
    <2>1. \A k, m \in Nat : (k + 1) + (m - 1) = k + m
      OBVIOUS
    <2>2. Len(g) + Len(o) = Len(got[c]) + Len(out[c])
      BY <1>2, <1>3, <2>1
    <2>. QED  BY <1>5, <2>2 DEF WbTotal
  <1>7. WbClientInv'
    BY <1>1, <1>3, <1>5, <1>6 DEF WbIInv, WbClientInv
  <1>8. \A d \in Clients : Ws!Writable(d) => Ws!Writable(d)'
    BY <1>1, <1>2, <1>3, <1>5 DEF Ws!Writable, WbIInv, WbSizes
  <1>. QED  BY <1>1, <1>5, <1>6, <1>7, <1>8, WbClient DEF WbIInv, WbTypeInv, Ws!Readable

LEMMA WbHangUp ==
    ASSUME WbSizes, WbIInv, NEW c \in Clients, Ws!HangUp(c) PROVE WbIInv'
  <1>1. /\ hung' = [hung EXCEPT ![c] = TRUE]
        /\ UNCHANGED <<sock, fd, in, out, got, conns, rd, wr, wsPc>>
    BY DEF Ws!HangUp
  <1>2. \A d \in Clients : WbTotal(d)' = WbTotal(d)
    BY <1>1 DEF WbTotal
  <1>3. hung' \in [Clients -> BOOLEAN] /\ \A d \in Clients : hung[d] => hung'[d]
    BY <1>1 DEF WbIInv, WbTypeInv
  <1>4. WbClientInv'
    BY <1>1, <1>2, <1>3 DEF WbIInv, WbClientInv
  <1>. QED  BY <1>1, <1>2, <1>3, <1>4, WbClient DEF WbIInv, WbTypeInv, Ws!Readable, Ws!Writable

(* select: what it leaves is true of every slot. *)
LEMMA WbSelect == ASSUME WbSizes, WbIInv, Ws!Select PROVE WbIInv'
  <1>1. /\ rd' = {f \in Ws!Of("reading") : Ws!Readable(Ws!Peer(f))}
                   \cup (IF Ws!Backlog = {} THEN {} ELSE {0})
        /\ wr' = {f \in Ws!Of("writing") : Ws!Writable(Ws!Peer(f))}
        /\ wsPc' \in {-1, 1}
        /\ UNCHANGED <<sock, fd, in, out, got, hung, conns>>
    BY DEF Ws!Select, Ws!READING, Ws!WRITING, Ws!ACCEPT
  <1>2. \A d \in Clients : /\ WbTotal(d)' = WbTotal(d) /\ Ws!Readable(d)' = Ws!Readable(d)
                           /\ Ws!Writable(d)' = Ws!Writable(d)
    BY <1>1 DEF WbTotal, Ws!Readable, Ws!Writable
  <1>3. \A s, d : WbServes(s, d)' = WbServes(s, d)
    BY <1>1 DEF WbServes
  <1>4. ASSUME NEW s \in DOMAIN conns, NEW d \in Clients, WbServes(s, d)
        PROVE  /\ conns[s].fd \in rd' => Ws!Readable(d)
               /\ conns[s].fd \in wr' => Ws!Writable(d)
    BY <1>1, <1>4, WbPeer DEF WbServes, WbIInv, WbDescInv
  <1>5. ASSUME NEW f \in rd' \cup wr', f # 0 PROVE \E c \in Clients : fd[c] = f
    <2>1. f \in Ws!Of("reading") \cup Ws!Of("writing")
      BY <1>1, <1>5
    <2>2. PICK s \in DOMAIN conns : conns[s].state \in {"reading", "writing"} /\ conns[s].fd = f
      BY <2>1 DEF Ws!Of, Ws!Slots
    <2>. QED  BY <2>2 DEF WbIInv, WbDescInv
  <1>6. WbPassInv'
    BY <1>1, <1>2, <1>3, <1>4, <1>5 DEF WbPassInv
  <1>7. WbTypeInv' /\ WbDescInv' /\ WbClientInv'
    BY <1>1, <1>2 DEF WbIInv, WbTypeInv, WbDescInv, WbClientInv
  <1>8. WbSlotInv'
    BY <1>1, <1>2, <1>3 DEF WbIInv, WbSlotInv
  <1>. QED  BY <1>6, <1>7, <1>8 DEF WbIInv

LEMMA WbAccepted == ASSUME WbSizes, WbIInv, Ws!Accepted PROVE WbIInv'
  <1>1. /\ wsPc = -1 /\ wsPc' = 1
        /\ UNCHANGED <<sock, fd, in, out, got, hung, conns, rd, wr>>
    BY DEF Ws!Accepted, Ws!ACCEPT
  <1>2. \A d \in Clients : /\ WbTotal(d)' = WbTotal(d) /\ Ws!Readable(d)' = Ws!Readable(d)
                           /\ Ws!Writable(d)' = Ws!Writable(d)
    BY <1>1 DEF WbTotal, Ws!Readable, Ws!Writable
  <1>3. \A s, d : WbServes(s, d)' = WbServes(s, d)
    BY <1>1 DEF WbServes
  <1>4. WbTypeInv' /\ WbDescInv' /\ WbClientInv'
    BY <1>1, <1>2 DEF WbIInv, WbTypeInv, WbDescInv, WbClientInv
  <1>5. WbSlotInv'
    BY <1>1, <1>2, <1>3 DEF WbIInv, WbSlotInv
  <1>6. \A s \in DOMAIN conns : s >= -1
    BY DEF WbIInv, WbTypeInv, WbSizes
  <1>7. WbPassInv'
    BY <1>1, <1>2, <1>3, <1>6 DEF WbIInv, WbPassInv
  <1>. QED  BY <1>4, <1>5, <1>7 DEF WbIInv

(* A client that waits to be accepted has no descriptor, so one is free.   *)
LEMMA WbFreeDescriptor ==
    ASSUME WbSizes, WbIInv, NEW c \in Ws!Backlog
    PROVE  LET f == Ws!Least((1..Ws!Cardinality(Clients)) \ {fd[d] : d \in Clients})
           IN  f \in Nat /\ f # 0 /\ \A d \in Clients : fd[d] # f
  <1>. DEFINE N1 == Ws!Cardinality(Clients)
              D == Clients \ {c}
              F == {fd[d] : d \in D}
              E == (1..N1) \ {fd[d] : d \in Clients}
  <1>1. c \in Clients /\ fd[c] = 0
    BY DEF Ws!Backlog, WbIInv, WbDescInv
  <1>2. N1 = Cardinality(Clients)
    BY DEF Ws!Cardinality, Cardinality, Ws!IsFiniteSet, IsFiniteSet
  <1>3. N1 \in Nat /\ IsFiniteSet(D) /\ Cardinality(D) = N1 - 1
    BY <1>1, <1>2, FS_CardinalityType, FS_RemoveElement DEF WbSizes
  <1>4. IsFiniteSet(F) /\ Cardinality(F) <= N1 - 1 /\ Cardinality(F) \in Nat
    <2>. DEFINE g == [d \in D |-> fd[d]]
    <2>1. g \in Surjection(D, F)
      BY DEF Surjection
    <2>. QED  BY <1>3, <2>1, FS_Surjection, FS_CardinalityType
  <1>. HIDE DEF N1
  <1>5. Cardinality(1..N1) = N1
    BY <1>3, FS_Interval
  <1>6. ~(1..N1 \subseteq F)
    <2>1. SUFFICES ASSUME 1..N1 \subseteq F PROVE FALSE
      OBVIOUS
    <2>2. Cardinality(1..N1) <= Cardinality(F)
      BY <1>4, <2>1, FS_Subset
    <2>. QED  BY <1>3, <1>4, <1>5, <2>2
  <1>7. E # {}
    <2>1. PICK f \in 1..N1 : f \notin F
      BY <1>6
    <2>2. f # 0
      BY <1>3
    <2>3. \A d \in Clients : fd[d] # f
      BY <1>1, <2>1, <2>2
    <2>. QED  BY <2>1, <2>3
  <1>8. E \in SUBSET Nat
    BY <1>3
  <1>. HIDE DEF E
  <1>9. \E x \in E : \A y \in E : x <= y
    BY <1>7, <1>8, Least
  <1>10. Ws!Least(E) \in E
    BY <1>9 DEF Ws!Least
  <1>11. \A f \in E : f \in Nat /\ f # 0 /\ \A d \in Clients : fd[d] # f
    BY <1>3 DEF E
  <1>. QED  BY <1>10, <1>11 DEF E, N1

(* A connection gets a slot nobody uses and a descriptor select has not    *)
(* seen; one turned away has nothing.                                      *)
LEMMA WbAccept == ASSUME WbSizes, WbIInv, NEW c \in Clients, Ws!Accept(c) PROVE WbIInv'
  <1>. DEFINE f == Ws!Least((1..Ws!Cardinality(Clients)) \ {fd[d] : d \in Clients})
              slots == {s \in DOMAIN conns : conns[s].state = "free"}
  <1>1. /\ wsPc = -1 /\ sock[c] = "backlog" /\ c \in Ws!Backlog
        /\ UNCHANGED <<in, out, got, hung, rd, wr, wsPc>>
    BY DEF Ws!Accept, Ws!ACCEPT, Ws!Backlog
  <1>2. f \in Nat /\ f # 0 /\ \A d \in Clients : fd[d] # f
    BY <1>1, WbFreeDescriptor
  <1>3. WbTotal(c) = 0 /\ fd[c] = 0
    BY <1>1 DEF WbIInv, WbClientInv, WbDescInv
  <1>4. \A d \in Clients : /\ WbTotal(d)' = WbTotal(d) /\ Ws!Readable(d)' = Ws!Readable(d)
                           /\ Ws!Writable(d)' = Ws!Writable(d)
    BY <1>1 DEF WbTotal, Ws!Readable, Ws!Writable
  <1>5. CASE slots = {} /\ sock' = [sock EXCEPT ![c] = "closed"] /\ UNCHANGED <<conns, fd>>
    <2>1. \A s, d : WbServes(s, d)' = WbServes(s, d)
      BY <1>5 DEF WbServes
    <2>2. WbTypeInv' /\ WbDescInv'
      BY <1>1, <1>5 DEF WbIInv, WbTypeInv, WbDescInv
    <2>3. WbClientInv'
      BY <1>1, <1>3, <1>4, <1>5 DEF WbIInv, WbTypeInv, WbClientInv
    <2>4. WbSlotInv'
      BY <1>4, <1>5, <2>1 DEF WbIInv, WbSlotInv
    <2>5. WbPassInv'
      BY <1>1, <1>4, <1>5, <2>1 DEF WbIInv, WbPassInv
    <2>. QED  BY <2>2, <2>3, <2>4, <2>5 DEF WbIInv
  <1>6. CASE /\ slots # {} /\ Ws!conn_new(Ws!Least(slots), f)
             /\ sock' = [sock EXCEPT ![c] = "open"] /\ fd' = [fd EXCEPT ![c] = f]
    <2>1. PICK t \in DOMAIN conns : conns[t].state = "free" /\ Ws!conn_new(t, f)
      <3>1. slots \in SUBSET Nat
        BY DEF WbIInv, WbTypeInv, WbSizes
      <3>2. \E x \in slots : \A y \in slots : x <= y
        BY <1>6, <3>1, Least
      <3>3. Ws!Least(slots) \in slots
        BY <3>2 DEF Ws!Least
      <3>. QED  BY <1>6, <3>3
    <2>. DEFINE new == [state |-> "reading", fd |-> f, req |-> <<>>, out |-> <<>>]
    <2>. HIDE DEF f, slots, new
    <2>2. conns' = [conns EXCEPT ![t] = new]
      <3>1. [Ws!NoConn EXCEPT !.state = "reading", !.fd = f] = new
        <4>1. [Ws!NoConn EXCEPT !.state = "reading", !.fd = f]
                = [[Ws!NoConn EXCEPT !.state = "reading"] EXCEPT !.fd = f]
          OBVIOUS
        <4>2. [Ws!NoConn EXCEPT !.state = "reading"]
                = [state |-> "reading", fd |-> 0, req |-> <<>>, out |-> <<>>]
          BY DEF Ws!NoConn
        <4>3. [[state |-> "reading", fd |-> 0, req |-> <<>>, out |-> <<>>] EXCEPT !.fd = f] = new
          BY DEF new
        <4>. QED  BY <4>1, <4>2, <4>3
      <3>2. conns' = [conns EXCEPT ![t] = [Ws!NoConn EXCEPT !.state = "reading", !.fd = f]]
        BY <2>1 DEF Ws!conn_new, Ws!READING
      <3>. QED  BY <3>1, <3>2
    <2>3. new \in WbConn /\ new.state = "reading" /\ new.fd = f /\ new.req = <<>>
      <3>1. <<>> \in Seq(WbPieces) /\ <<>> \in Seq(WbResponses)
        OBVIOUS
      <3>. QED  BY <1>2, <3>1 DEF WbConn, new
    <2>4. /\ \E n \in Tables : conns' \in [1..n -> WbConn]
          /\ DOMAIN conns' = DOMAIN conns /\ conns'[t] = new
          /\ \A s \in DOMAIN conns : s # t => conns'[s] = conns[s]
      BY <2>1, <2>2, <2>3 DEF WbIInv, WbTypeInv
    <2>5. /\ fd' \in [Clients -> Nat] /\ fd'[c] = f
          /\ \A d \in Clients : d # c => fd'[d] = fd[d]
          /\ sock' \in [Clients -> {"out", "backlog", "open", "closed"}] /\ sock'[c] = "open"
          /\ \A d \in Clients : d # c => sock'[d] = sock[d]
      BY <1>2, <1>6 DEF WbIInv, WbTypeInv
    <2>6. WbTypeInv'
      BY <1>1, <2>4, <2>5 DEF WbIInv, WbTypeInv
    <2>7. WbServes(t, c)' /\ (\A d \in Clients : d # c => ~WbServes(t, d)')
      BY <1>2, <2>3, <2>4, <2>5 DEF WbServes
    <2>8. \A s \in DOMAIN conns : s # t =>
            ~WbServes(s, c)' /\ \A d \in Clients : d # c => (WbServes(s, d)' <=> WbServes(s, d))
      <3>1. \A s \in DOMAIN conns : conns[s].state # "free" => conns[s].fd # f
        BY <1>2 DEF WbIInv, WbDescInv
      <3>. QED  BY <2>4, <2>5, <3>1 DEF WbServes
    <2>9. WbDescInv'
      <3>1. \A d \in Clients : fd'[d] # 0 <=> sock'[d] = "open"
        BY <1>2, <2>5 DEF WbIInv, WbDescInv
      <3>2. \A d, e \in Clients : fd'[d] = fd'[e] /\ fd'[d] # 0 => d = e
        BY <1>2, <2>5 DEF WbIInv, WbDescInv
      <3>3. ASSUME NEW s \in DOMAIN conns, conns'[s].state # "free"
            PROVE  conns'[s].fd # 0 /\ \E d \in Clients : fd'[d] = conns'[s].fd
        <4>1. CASE s = t
          BY <1>2, <2>3, <2>4, <2>5, <4>1
        <4>2. CASE s # t
          <5>1. PICK d \in Clients : fd[d] = conns[s].fd
            BY <2>4, <3>3, <4>2 DEF WbIInv, WbDescInv
          <5>2. conns[s].fd # 0 /\ conns'[s] = conns[s]
            BY <2>4, <3>3, <4>2 DEF WbIInv, WbDescInv
          <5>3. d # c
            BY <1>3, <5>1, <5>2
          <5>. QED  BY <2>5, <5>1, <5>2, <5>3
        <4>. QED  BY <4>1, <4>2
      <3>4. \A s, u \in DOMAIN conns :
              conns'[s].state # "free" /\ conns'[u].state # "free" /\ s # u
                => conns'[s].fd # conns'[u].fd
        <4>1. \A s \in DOMAIN conns : s # t /\ conns[s].state # "free" => conns[s].fd # f
          BY <1>2 DEF WbIInv, WbDescInv
        <4>. QED  BY <2>3, <2>4, <4>1 DEF WbIInv, WbDescInv
      <3>. QED  BY <2>4, <3>1, <3>2, <3>3, <3>4 DEF WbDescInv
    <2>10. WbClientInv'
      BY <1>1, <1>4, <2>5 DEF WbIInv, WbClientInv
    <2>11. WbSlotInv'
      <3>1. WbTotal(c)' = 0 /\ Len(<<>>) <= WS_REQ_MAX /\ WbOf(<<>>, c)
        BY <1>3, <1>4, WbNone DEF WbSizes
      <3>2. conns'[t].state = "reading" /\ conns'[t].req = <<>>
        BY <2>3, <2>4
      <3>. QED  BY <1>4, <2>4, <2>7, <2>8, <3>1, <3>2 DEF WbIInv, WbSlotInv
    <2>12. WbPassInv'
      <3>1. f \notin rd \cup wr
        BY <1>1, <1>2 DEF WbIInv, WbPassInv
      <3>2. \A g \in rd \cup wr : g # 0 => \E d \in Clients : fd'[d] = g
        BY <1>1, <1>3, <2>5 DEF WbIInv, WbPassInv
      <3>3. conns'[t].fd = f
        BY <2>3, <2>4
      <3>4. ASSUME NEW s \in DOMAIN conns, NEW d \in Clients, s >= wsPc, WbServes(s, d)'
            PROVE  /\ conns'[s].state = "reading" /\ conns'[s].fd \in rd => Ws!Readable(d)'
                   /\ conns'[s].state = "writing" /\ conns'[s].fd \in wr => Ws!Writable(d)'
        <4>1. CASE s = t
          BY <3>1, <3>3, <4>1
        <4>2. CASE s # t
          <5>1. d # c /\ WbServes(s, d) /\ conns'[s] = conns[s]
            BY <2>4, <2>8, <3>4, <4>2
          <5>. QED  BY <1>1, <1>4, <3>4, <5>1 DEF WbIInv, WbPassInv
        <4>. QED  BY <4>1, <4>2
      <3>. QED  BY <1>1, <2>4, <3>2, <3>4 DEF WbPassInv
    <2>. QED  BY <2>6, <2>9, <2>10, <2>11, <2>12 DEF WbIInv
  <1>. QED  BY <1>5, <1>6 DEF Ws!Accept, Ws!Slots, Ws!FREE

(* The loop at slot s, which serves client c: what becomes of the two and  *)
(* of nobody else.                                                         *)
LEMMA WbHandled ==
    ASSUME WbSizes, WbIInv, NEW s \in DOMAIN conns, NEW c \in Clients, WbServes(s, c),
           wsPc = s, wsPc' = 0 \/ wsPc' = s + 1, UNCHANGED <<got, hung, rd, wr>>,
           in' \in [Clients -> Seq(WbPieces)], out' \in [Clients -> Seq(WbResponses)],
           \A d \in Clients : d # c => in'[d] = in[d] /\ out'[d] = out[d],
           \E n \in Tables : conns' \in [1..n -> WbConn],
           DOMAIN conns' = DOMAIN conns,
           \A t \in DOMAIN conns : t # s => conns'[t] = conns[t],
           WbOf(in'[c], c), WbUnits(out'[c], c, Len(got[c])), WbTotal(c)' <= OutLen,
           \/ /\ conns'[s].state = "free"
              /\ sock' = [sock EXCEPT ![c] = "closed"] /\ fd' = [fd EXCEPT ![c] = 0]
              /\ ~hung[c] /\ in'[c] = <<>> => WbTotal(c)' \in {0, OutLen}
           \/ /\ conns'[s].state # "free" /\ conns'[s].fd = conns[s].fd
              /\ UNCHANGED <<sock, fd>>
              /\ conns'[s].state = "reading" =>
                   /\ WbTotal(c)' = 0 /\ Len(conns'[s].req) <= WS_REQ_MAX
                   /\ WbOf(conns'[s].req, c)
              /\ conns'[s].state = "writing" =>
                   /\ WbUnits(conns'[s].out, c, WbTotal(c)')
                   /\ WbTotal(c)' + Len(conns'[s].out) = OutLen
    PROVE  WbIInv'
  <1>1. fd[c] = conns[s].fd /\ fd[c] # 0 /\ sock[c] = "open" /\ s >= 1 /\ s \in Nat
    <2>1. fd[c] = conns[s].fd /\ conns[s].state # "free"
      BY DEF WbServes
    <2>2. fd[c] # 0 /\ sock[c] = "open"
      BY <2>1 DEF WbIInv, WbDescInv
    <2>3. PICK n \in Tables : conns \in [1..n -> WbConn]
      BY DEF WbIInv, WbTypeInv
    <2>4. s \in 1..n /\ n \in Nat
      BY <2>3 DEF WbSizes
    <2>. QED  BY <2>1, <2>2, <2>4
  <1>2. \A d \in Clients : d # c => /\ WbTotal(d)' = WbTotal(d)
                                    /\ Ws!Readable(d)' = Ws!Readable(d)
                                    /\ Ws!Writable(d)' = Ws!Writable(d)
    BY DEF WbTotal, Ws!Readable, Ws!Writable
  <1>3. /\ sock' \in [Clients -> {"out", "backlog", "open", "closed"}] /\ fd' \in [Clients -> Nat]
        /\ \A d \in Clients : d # c => sock'[d] = sock[d] /\ fd'[d] = fd[d]
        /\ \/ sock'[c] = "closed" /\ fd'[c] = 0 /\ conns'[s].state = "free"
           \/ sock'[c] = "open" /\ fd'[c] = fd[c] /\ conns'[s].fd = conns[s].fd
    <2>1. /\ sock \in [Clients -> {"out", "backlog", "open", "closed"}]
          /\ fd \in [Clients -> Nat]
      BY DEF WbIInv, WbTypeInv
    <2>2. CASE /\ conns'[s].state = "free"
               /\ sock' = [sock EXCEPT ![c] = "closed"] /\ fd' = [fd EXCEPT ![c] = 0]
      BY <2>1, <2>2
    <2>3. CASE conns'[s].fd = conns[s].fd /\ UNCHANGED <<sock, fd>>
      BY <1>1, <2>1, <2>3
    <2>. QED  BY <2>2, <2>3
  <1>4. WbTypeInv'
    BY <1>1, <1>3 DEF WbIInv, WbTypeInv
  <1>5. \A d \in Clients : d # c => ~WbServes(s, d)'
    BY <1>1, <1>3 DEF WbServes, WbIInv, WbDescInv
  <1>6. \A t \in DOMAIN conns : t # s =>
          ~WbServes(t, c) /\ ~WbServes(t, c)' /\ \A d \in Clients : d # c => WbServes(t, d)' = WbServes(t, d)
    <2>1. \A t \in DOMAIN conns : t # s /\ conns[t].state # "free" =>
            conns[t].fd # fd[c] /\ conns[t].fd # 0
      BY <1>1 DEF WbServes, WbIInv, WbDescInv
    <2>. QED  BY <1>3, <2>1 DEF WbServes
  <1>7. WbDescInv'
    <2>1. \A d \in Clients : fd'[d] # 0 <=> sock'[d] = "open"
      BY <1>1, <1>3 DEF WbIInv, WbDescInv
    <2>2. \A d, e \in Clients : fd'[d] = fd'[e] /\ fd'[d] # 0 => d = e
      <3>1. \A d \in Clients : fd'[d] # 0 => fd'[d] = fd[d]
        BY <1>3
      <3>. QED  BY <3>1 DEF WbIInv, WbDescInv
    <2>3. ASSUME NEW t \in DOMAIN conns, conns'[t].state # "free"
          PROVE  conns'[t].fd # 0 /\ \E d \in Clients : fd'[d] = conns'[t].fd
      <3>1. CASE t = s
        BY <1>1, <1>3, <2>3, <3>1
      <3>2. CASE t # s
        <4>1. conns'[t] = conns[t]
          BY <3>2
        <4>2. PICK d \in Clients : fd[d] = conns[t].fd /\ conns[t].fd # 0
          BY <2>3, <4>1 DEF WbIInv, WbDescInv
        <4>3. d # c
          BY <1>6, <2>3, <3>2, <4>1, <4>2 DEF WbServes
        <4>. QED  BY <1>3, <4>1, <4>2, <4>3
      <3>. QED  BY <3>1, <3>2
    <2>4. \A t, u \in DOMAIN conns :
            conns'[t].state # "free" /\ conns'[u].state # "free" /\ t # u
              => conns'[t].fd # conns'[u].fd
      <3>1. \A t \in DOMAIN conns : conns'[t].state # "free" =>
              conns[t].state # "free" /\ conns'[t].fd = conns[t].fd
        BY <1>3 DEF WbServes
      <3>. QED  BY <3>1 DEF WbIInv, WbDescInv
    <2>. QED  BY <2>1, <2>2, <2>3, <2>4 DEF WbDescInv
  <1>8. WbClientInv'
    <2>1. \A d \in Clients : d # c => /\ WbOf(in'[d], d)
                                      /\ WbUnits(got'[d], d, 0) /\ WbUnits(out'[d], d, Len(got'[d]))
                                      /\ WbTotal(d)' <= OutLen
      BY <1>2 DEF WbIInv, WbClientInv
    <2>2. WbUnits(got'[c], c, 0)
      BY DEF WbIInv, WbClientInv
    <2>3. \A d \in Clients : d # c =>
            /\ sock'[d] \in {"out", "backlog"} => WbTotal(d)' = 0
            /\ sock'[d] = "closed" /\ ~hung'[d] /\ in'[d] = <<>> => WbTotal(d)' \in {0, OutLen}
      BY <1>2, <1>3 DEF WbIInv, WbClientInv
    <2>4. /\ sock'[c] \notin {"out", "backlog"}
          /\ sock'[c] = "closed" /\ ~hung'[c] /\ in'[c] = <<>> => WbTotal(c)' \in {0, OutLen}
      BY <1>1, <1>3
    <2>. QED  BY <2>1, <2>2, <2>3, <2>4 DEF WbClientInv
  <1>9. WbSlotInv'
    <2>1. ASSUME NEW t \in DOMAIN conns, NEW d \in Clients, WbServes(t, d)'
          PROVE  /\ conns'[t].state = "reading" =>
                      /\ WbTotal(d)' = 0 /\ Len(conns'[t].req) <= WS_REQ_MAX
                      /\ WbOf(conns'[t].req, d)
                 /\ conns'[t].state = "writing" =>
                      /\ WbUnits(conns'[t].out, d, WbTotal(d)')
                      /\ WbTotal(d)' + Len(conns'[t].out) = OutLen
      <3>1. CASE t = s
        <4>1. d = c
          BY <1>5, <2>1, <3>1
        <4>. QED  BY <3>1, <4>1
      <3>2. CASE t # s
        <4>1. d # c /\ WbServes(t, d) /\ conns'[t] = conns[t]
          BY <1>6, <2>1, <3>2
        <4>. QED  BY <1>2, <4>1 DEF WbIInv, WbSlotInv
      <3>. QED  BY <3>1, <3>2
    <2>. QED  BY <2>1 DEF WbSlotInv
  <1>10. WbPassInv'
    <2>1. ASSUME wsPc' # 0, NEW t \in DOMAIN conns, NEW d \in Clients, t >= wsPc', WbServes(t, d)'
          PROVE  /\ conns'[t].state = "reading" /\ conns'[t].fd \in rd => Ws!Readable(d)'
                 /\ conns'[t].state = "writing" /\ conns'[t].fd \in wr => Ws!Writable(d)'
      <3>1. t \in Nat /\ t # s /\ t >= wsPc
        <4>1. t \in Nat
          BY DEF WbIInv, WbTypeInv, WbSizes
        <4>. QED  BY <1>1, <2>1, <4>1
      <3>2. d # c /\ WbServes(t, d) /\ conns'[t] = conns[t]
        BY <1>6, <2>1, <3>1
      <3>3. wsPc # 0
        BY <1>1
      <3>. QED  BY <1>2, <3>1, <3>2, <3>3 DEF WbIInv, WbPassInv
    <2>2. wsPc' # -1
      BY <1>1
    <2>. QED  BY <2>1, <2>2 DEF WbPassInv
  <1>. QED  BY <1>4, <1>7, <1>8, <1>9, <1>10 DEF WbIInv

(* conn_close, in terms of the slot. *)
LEMMA WbCloses ==
    ASSUME WbSizes, WbIInv, NEW s \in DOMAIN conns, wsPc = s, NEW c \in Clients,
           NEW left \in Seq(WbResponses), Ws!conn_close(c, left)
    PROVE  /\ sock' = [sock EXCEPT ![c] = "closed"] /\ fd' = [fd EXCEPT ![c] = 0]
           /\ out' \in [Clients -> Seq(WbResponses)]
           /\ \A d \in Clients : d # c => out'[d] = out[d]
           /\ out'[c] = left \/ (in[c] # <<>> /\ out'[c] = <<>>)
           /\ \E n \in Tables : conns' \in [1..n -> WbConn]
           /\ DOMAIN conns' = DOMAIN conns /\ conns'[s].state = "free"
           /\ \A t \in DOMAIN conns : t # s => conns'[t] = conns[t]
  <1>1. <<>> \in Seq(WbResponses)
    OBVIOUS
  <1>2. /\ sock' = [sock EXCEPT ![c] = "closed"] /\ fd' = [fd EXCEPT ![c] = 0]
        /\ out' \in [Clients -> Seq(WbResponses)]
        /\ \A d \in Clients : d # c => out'[d] = out[d]
        /\ out'[c] = left \/ (in[c] # <<>> /\ out'[c] = <<>>)
    <2>1. out \in [Clients -> Seq(WbResponses)]
      BY DEF WbIInv, WbTypeInv
    <2>2. /\ sock' = [sock EXCEPT ![c] = "closed"] /\ fd' = [fd EXCEPT ![c] = 0]
          /\ \/ out' = [out EXCEPT ![c] = left]
             \/ in[c] # <<>> /\ out' = [out EXCEPT ![c] = <<>>]
      BY DEF Ws!conn_close
    <2>3. CASE out' = [out EXCEPT ![c] = left]
      BY <2>1, <2>2, <2>3
    <2>4. CASE in[c] # <<>> /\ out' = [out EXCEPT ![c] = <<>>]
      BY <1>1, <2>1, <2>2, <2>4
    <2>. QED  BY <2>2, <2>3, <2>4
  <1>. DEFINE new == [[conns[s] EXCEPT !.state = "free"] EXCEPT !.out = <<>>]
  <1>3. conns' = [conns EXCEPT ![s] = new]
    BY DEF Ws!conn_close, Ws!FREE
  <1>4. new \in WbConn /\ new.state = "free"
    <2>1. conns[s] \in WbConn
      BY DEF WbIInv, WbTypeInv
    <2>. QED  BY <1>1, <2>1 DEF WbConn
  <1>. HIDE DEF new
  <1>. QED  BY <1>2, <1>3, <1>4 DEF WbIInv, WbTypeInv

(* Pieces read follow those the slot has, and those left are as they were. *)
LEMMA WbReads ==
    ASSUME NEW q \in Seq(WbPieces), NEW r \in Seq(WbPieces), NEW c, WbOf(q, c), WbOf(r, c),
           NEW n \in 0..Len(r)
    PROVE  LET more == q \o SubSeq(r, 1, n)
               left == SubSeq(r, n + 1, Len(r)) IN
           /\ more \in Seq(WbPieces) /\ Len(more) = Len(q) + n /\ WbOf(more, c)
           /\ left \in Seq(WbPieces) /\ WbOf(left, c)
  <1>. DEFINE x == SubSeq(r, 1, n)
              left == SubSeq(r, n + 1, Len(r))
              more == q \o x
  <1>1. /\ x \in Seq(WbPieces) /\ Len(x) = n /\ left \in Seq(WbPieces) /\ Len(left) = Len(r) - n
        /\ \A k \in 1..n : x[k] = r[k]
        /\ \A k \in 1..(Len(r) - n) : left[k] = r[n + k]
    <2>1. /\ x \in Seq(WbPieces) /\ Len(x) = n /\ left \in Seq(WbPieces) /\ Len(left) = Len(r) - n
      BY WbCut
    <2>2. \A k \in 1..n : x[k] = r[k]
      BY WbCut
    <2>3. \A k \in 1..(Len(r) - n) : left[k] = r[n + k]
      BY WbCut
    <2>. QED  BY <2>1, <2>2, <2>3
  <1>. HIDE DEF x, left
  <1>2. /\ more \in Seq(WbPieces) /\ Len(more) = Len(q) + n /\ Len(q) \in Nat /\ Len(r) \in Nat
        /\ \A k \in 1..(Len(q) + n) : more[k] = IF k <= Len(q) THEN q[k] ELSE x[k - Len(q)]
    BY <1>1
  <1>. HIDE DEF more
  <1>3. ASSUME NEW k \in 1..Len(more) PROVE more[k][1] = c
    <2>1. CASE k <= Len(q)
      <3>1. k \in 1..Len(q)
        BY <1>2, <2>1
      <3>. QED  BY <1>2, <2>1, <3>1 DEF WbOf
    <2>2. CASE ~(k <= Len(q))
      <3>1. k - Len(q) \in 1..n /\ k - Len(q) \in 1..Len(r)
        BY <1>2, <2>2
      <3>. QED  BY <1>1, <1>2, <2>2, <3>1 DEF WbOf
    <2>. QED  BY <2>1, <2>2
  <1>4. ASSUME NEW k \in 1..Len(left) PROVE left[k][1] = c
    <2>1. n + k \in 1..Len(r)
      BY <1>1, <1>2
    <2>2. left[k] = r[n + k]
      BY <1>1
    <2>3. r[n + k][1] = c
      BY <1>1, <2>1 DEF WbOf
    <2>. QED  BY <2>2, <2>3
  <1>. QED  BY <1>1, <1>2, <1>3, <1>4 DEF WbOf, x, left, more

(* A slot that reads, and its client, who has had nothing yet. *)
LEMMA WbReading ==
    ASSUME WbSizes, WbIInv, NEW s \in DOMAIN conns, NEW c \in Clients, WbServes(s, c),
           conns[s].state = "reading"
    PROVE  /\ conns[s].req \in Seq(WbPieces) /\ Len(conns[s].req) <= WS_REQ_MAX
           /\ WbOf(conns[s].req, c)
           /\ in[c] \in Seq(WbPieces) /\ WbOf(in[c], c)
           /\ out[c] \in Seq(WbResponses) /\ Len(out[c]) = 0 /\ Len(got[c]) = 0
           /\ WbTotal(c) = 0 /\ WbUnits(out[c], c, Len(got[c])) /\ 0 <= OutLen
  <1>1. conns[s] \in WbConn
    BY DEF WbIInv, WbTypeInv
  <1>2. conns[s].req \in Seq(WbPieces) /\ in[c] \in Seq(WbPieces) /\ out[c] \in Seq(WbResponses)
        /\ got[c] \in Seq(WbResponses)
    BY <1>1 DEF WbConn, WbIInv, WbTypeInv
  <1>3. /\ WbTotal(c) = 0 /\ Len(conns[s].req) <= WS_REQ_MAX /\ WbOf(conns[s].req, c)
        /\ WbOf(in[c], c) /\ WbUnits(out[c], c, Len(got[c]))
    BY DEF WbIInv, WbClientInv, WbSlotInv
  <1>4. Len(out[c]) \in Nat /\ Len(got[c]) \in Nat
    BY <1>2
  <1>5. Len(out[c]) = 0 /\ Len(got[c]) = 0
    <2>1. Len(got[c]) + Len(out[c]) = 0
      BY <1>3 DEF WbTotal
    <2>2. \A k, m \in Nat : k + m = 0 => k = 0 /\ m = 0
      OBVIOUS
    <2>. QED  BY <1>4, <2>1, <2>2
  <1>. QED  BY <1>2, <1>3, <1>5 DEF WbSizes

(* respond, for a request of the client's pieces. *)
LEMMA WbRespond ==
    ASSUME WbSizes, WbIInv, NEW s \in DOMAIN conns, NEW c \in Clients, WbServes(s, c),
           conns[s].state = "reading",
           wsPc = s, wsPc' = 0 \/ wsPc' = s + 1, UNCHANGED <<got, hung, rd, wr>>,
           in' \in [Clients -> Seq(WbPieces)], \A d \in Clients : d # c => in'[d] = in[d],
           WbOf(in'[c], c),
           NEW req \in Seq(WbPieces), req # <<>>, WbOf(req, c), Ws!respond(c, req)
    PROVE  WbIInv'
  <1>1. /\ WbTotal(c) = 0 /\ Len(got[c]) = 0 /\ Len(out[c]) = 0 /\ out[c] \in Seq(WbResponses)
        /\ WbUnits(out[c], c, Len(got[c]))
    BY WbReading
  <1>2. OutLen \in Nat
    BY DEF WbSizes
  <1>3. CASE /\ conns' = [conns EXCEPT ![wsPc].req = req, ![wsPc].state = "writing",
                                       ![wsPc].out = Ws!Response(Head(req)[1])]
             /\ UNCHANGED <<sock, fd, out>>
    <2>1. Head(req)[1] = c
      <3>1. 1 \in 1..Len(req) /\ Head(req) = req[1]
        OBVIOUS
      <3>. QED  BY <3>1 DEF WbOf
    <2>. DEFINE r == Ws!Response(c)
                new == [[[conns[s] EXCEPT !.req = req] EXCEPT !.state = "writing"] EXCEPT !.out = r]
    <2>2. r \in Seq(WbResponses) /\ Len(r) = OutLen /\ WbUnits(r, c, 0)
      BY WbResponse
    <2>. HIDE DEF r
    <2>3. conns' = [conns EXCEPT ![s] = new]
      BY <1>3, <2>1 DEF r
    <2>4. /\ new \in WbConn /\ new.state = "writing" /\ new.out = r /\ new.fd = conns[s].fd
      <3>1. conns[s] \in WbConn
        BY DEF WbIInv, WbTypeInv
      <3>. QED  BY <2>2, <3>1 DEF WbConn
    <2>. HIDE DEF new
    <2>5. /\ \E n \in Tables : conns' \in [1..n -> WbConn]
          /\ DOMAIN conns' = DOMAIN conns /\ conns'[s] = new
          /\ \A t \in DOMAIN conns : t # s => conns'[t] = conns[t]
      BY <2>3, <2>4 DEF WbIInv, WbTypeInv
    <2>6. WbTotal(c)' = 0
      BY <1>1, <1>3 DEF WbTotal
    <2>7. out' \in [Clients -> Seq(WbResponses)]
      BY <1>3 DEF WbIInv, WbTypeInv
    <2>8. conns'[s].state = "writing" /\ conns'[s].out = r /\ conns'[s].fd = conns[s].fd
      BY <2>4, <2>5
    <2>9. 0 + Len(conns'[s].out) = OutLen /\ WbUnits(conns'[s].out, c, WbTotal(c)')
      BY <1>2, <2>2, <2>6, <2>8
    <2>10. /\ conns'[s].state # "free" /\ conns'[s].state # "reading" /\ UNCHANGED <<sock, fd>>
           /\ WbTotal(c)' + Len(conns'[s].out) = OutLen /\ WbTotal(c)' <= OutLen
      BY <1>2, <1>3, <2>6, <2>8, <2>9
    <2>11. WbUnits(out'[c], c, Len(got[c])) /\ \A d \in Clients : d # c => out'[d] = out[d]
      BY <1>1, <1>3
    <2>. QED  BY <2>5, <2>7, <2>8, <2>9, <2>10, <2>11, WbHandled
  <1>4. CASE Ws!conn_close(c, out[c])
    <2>1. /\ sock' = [sock EXCEPT ![c] = "closed"] /\ fd' = [fd EXCEPT ![c] = 0]
          /\ out' \in [Clients -> Seq(WbResponses)]
          /\ \A d \in Clients : d # c => out'[d] = out[d]
          /\ out'[c] = out[c] \/ (in[c] # <<>> /\ out'[c] = <<>>)
          /\ \E n \in Tables : conns' \in [1..n -> WbConn]
          /\ DOMAIN conns' = DOMAIN conns /\ conns'[s].state = "free"
          /\ \A t \in DOMAIN conns : t # s => conns'[t] = conns[t]
      BY <1>1, <1>4, WbCloses
    <2>2. WbUnits(out'[c], c, Len(got[c])) /\ Len(out'[c]) = 0
      <3>1. Len(out[c]) = 0 /\ Len(<<>>) = 0
        BY <1>1 DEF WbTotal
      <3>. QED  BY <1>1, <2>1, <3>1, WbNone
    <2>3. WbTotal(c)' = 0
      BY <1>1, <2>2 DEF WbTotal
    <2>4. WbTotal(c)' <= OutLen /\ WbTotal(c)' \in {0, OutLen}
      BY <1>2, <2>3
    <2>. QED  BY <2>1, <2>2, <2>4, WbHandled
  <1>. QED  BY <1>3, <1>4 DEF Ws!respond, Ws!WRITING

LEMMA WbOnReadable ==
    ASSUME WbSizes, WbIInv, NEW s \in DOMAIN conns, NEW c \in Clients, WbServes(s, c),
           conns[s].state = "reading",
           wsPc = s, wsPc' = 0 \/ wsPc' = s + 1, UNCHANGED <<got, hung, rd, wr>>,
           Ws!on_readable(c)
    PROVE  WbIInv'
  <1>. DEFINE req == conns[s].req
              room == WS_REQ_MAX - Len(req)
              n == IF Len(in[c]) < room THEN Len(in[c]) ELSE room
              more == req \o SubSeq(in[c], 1, n)
              left == SubSeq(in[c], n + 1, Len(in[c]))
  <1>1. /\ req \in Seq(WbPieces) /\ Len(req) \in Nat /\ Len(req) <= WS_REQ_MAX /\ WbOf(req, c)
        /\ in[c] \in Seq(WbPieces) /\ Len(in[c]) \in Nat /\ WbOf(in[c], c)
        /\ WS_REQ_MAX \in Nat /\ WS_REQ_MAX > 0
    <2>1. /\ req \in Seq(WbPieces) /\ Len(req) <= WS_REQ_MAX /\ WbOf(req, c)
          /\ in[c] \in Seq(WbPieces) /\ WbOf(in[c], c)
      BY WbReading
    <2>2. Len(req) \in Nat /\ Len(in[c]) \in Nat
      BY <2>1
    <2>. QED  BY <2>1, <2>2 DEF WbSizes
  <1>2. in \in [Clients -> Seq(WbPieces)]
    BY DEF WbIInv, WbTypeInv
  <1>3. CASE room = 0 /\ Ws!respond(c, req) /\ UNCHANGED in
    <2>1. req # <<>>
      <3>1. Len(req) # 0 /\ Len(<<>>) = 0
        BY <1>1, <1>3
      <3>. QED  BY <3>1
    <2>. QED  BY <1>1, <1>2, <1>3, <2>1, WbRespond
  <1>4. CASE room # 0 /\ n = 0 /\ hung[c] /\ Ws!conn_close(c, out[c]) /\ UNCHANGED in
    <2>1. /\ out[c] \in Seq(WbResponses) /\ Len(got[c]) = 0 /\ Len(out[c]) = 0
          /\ WbTotal(c) = 0 /\ WbUnits(out[c], c, Len(got[c])) /\ 0 <= OutLen
      BY WbReading
    <2>2. /\ sock' = [sock EXCEPT ![c] = "closed"] /\ fd' = [fd EXCEPT ![c] = 0]
          /\ out' \in [Clients -> Seq(WbResponses)]
          /\ \A d \in Clients : d # c => out'[d] = out[d]
          /\ out'[c] = out[c] \/ (in[c] # <<>> /\ out'[c] = <<>>)
          /\ \E m \in Tables : conns' \in [1..m -> WbConn]
          /\ DOMAIN conns' = DOMAIN conns /\ conns'[s].state = "free"
          /\ \A t \in DOMAIN conns : t # s => conns'[t] = conns[t]
      BY <1>4, <2>1, WbCloses
    <2>3. WbUnits(out'[c], c, Len(got[c])) /\ Len(out'[c]) = 0
      <3>1. Len(<<>>) = 0
        OBVIOUS
      <3>. QED  BY <2>1, <2>2, <3>1, WbNone
    <2>4. WbTotal(c)' = 0 /\ WbTotal(c)' <= OutLen
      BY <2>1, <2>3 DEF WbTotal
    <2>. HIDE DEF req, room, n
    <2>. QED  BY <1>1, <1>2, <1>4, <2>2, <2>3, <2>4, WbHandled
  <1>5. CASE /\ room # 0 /\ n # 0
             /\ in' = [in EXCEPT ![c] = left]
             /\ IF Ws!Complete(more) THEN Ws!respond(c, more)
                ELSE conns' = [conns EXCEPT ![wsPc].req = more] /\ UNCHANGED <<sock, fd, out>>
    <2>1. n \in 0..Len(in[c]) /\ Len(req) + n <= WS_REQ_MAX /\ n \in Nat /\ n # 0
      BY <1>1, <1>5
    <2>. HIDE DEF n, req
    <2>2. /\ more \in Seq(WbPieces) /\ Len(more) = Len(req) + n /\ WbOf(more, c)
          /\ left \in Seq(WbPieces) /\ WbOf(left, c)
      BY <1>1, <2>1, WbReads
    <2>. HIDE DEF more, left
    <2>3. /\ in' \in [Clients -> Seq(WbPieces)] /\ WbOf(in'[c], c)
          /\ \A d \in Clients : d # c => in'[d] = in[d]
      BY <1>2, <1>5, <2>2
    <2>4. CASE Ws!respond(c, more)
      <3>1. more # <<>>
        <4>1. Len(more) # 0 /\ Len(<<>>) = 0
          BY <1>1, <2>1, <2>2
        <4>. QED  BY <4>1
      <3>. QED  BY <2>2, <2>3, <2>4, <3>1, WbRespond
    <2>5. CASE conns' = [conns EXCEPT ![wsPc].req = more] /\ UNCHANGED <<sock, fd, out>>
      <3>. DEFINE new == [conns[s] EXCEPT !.req = more]
      <3>1. conns' = [conns EXCEPT ![s] = new]
        BY <2>5
      <3>2. /\ new \in WbConn /\ new.state = "reading" /\ new.req = more /\ new.fd = conns[s].fd
        <4>1. conns[s] \in WbConn
          BY DEF WbIInv, WbTypeInv
        <4>. QED  BY <2>2, <4>1 DEF WbConn
      <3>. HIDE DEF new
      <3>3. /\ \E m \in Tables : conns' \in [1..m -> WbConn]
            /\ DOMAIN conns' = DOMAIN conns /\ conns'[s] = new
            /\ \A t \in DOMAIN conns : t # s => conns'[t] = conns[t]
        BY <3>1, <3>2 DEF WbIInv, WbTypeInv
      <3>4. WbTotal(c)' = 0 /\ WbTotal(c)' <= OutLen
        <4>1. WbTotal(c) = 0 /\ 0 <= OutLen
          BY WbReading
        <4>. QED  BY <2>5, <4>1 DEF WbTotal
      <3>5. out' \in [Clients -> Seq(WbResponses)] /\ WbUnits(out'[c], c, Len(got[c]))
        BY <2>5 DEF WbIInv, WbTypeInv, WbClientInv
      <3>6. /\ conns'[s].state = "reading" /\ conns'[s].fd = conns[s].fd
            /\ Len(conns'[s].req) <= WS_REQ_MAX /\ WbOf(conns'[s].req, c)
        BY <2>1, <2>2, <3>2, <3>3
      <3>. QED  BY <2>3, <2>5, <3>3, <3>4, <3>5, <3>6, WbHandled
    <2>. QED  BY <1>5, <2>4, <2>5
  <1>. QED  BY <1>3, <1>4, <1>5 DEF Ws!on_readable

(* What is on its way and what is left to write make up the response. *)
LEMMA WbSum ==
    ASSUME NEW m \in Nat, NEW k \in Nat, NEW l \in Nat, NEW t \in Nat, m + k + l = t, NEW n \in 0..l
    PROVE  /\ m + 0 <= t /\ m + k <= t /\ m + k \in Nat
           /\ m + (k + l) = t /\ m + (k + l) <= t
           /\ (m + k) + n = m + (k + n) /\ m + (k + n) + (l - n) = t /\ m + (k + n) <= t
  OBVIOUS

LEMMA WbFits ==
    ASSUME NEW r \in Nat, NEW k \in Nat, NEW l \in Nat, k < r, ~(l <= r - k) PROVE r - k \in 0..l
  OBVIOUS

LEMMA WbOnWritable ==
    ASSUME WbSizes, WbIInv, NEW s \in DOMAIN conns, NEW c \in Clients, WbServes(s, c),
           conns[s].state = "writing", Ws!Writable(c),
           wsPc = s, wsPc' = 0 \/ wsPc' = s + 1, UNCHANGED <<got, hung, rd, wr>>,
           Ws!on_writable(c)
    PROVE  WbIInv'
  <1>. DEFINE left == conns[s].out
              o == out[c]
              n == Room - Len(out[c])
              m == Len(got[c])
  <1>1. /\ left \in Seq(WbResponses) /\ o \in Seq(WbResponses) /\ got[c] \in Seq(WbResponses)
        /\ WbUnits(o, c, m) /\ WbUnits(left, c, m + Len(o)) /\ m + Len(o) + Len(left) = OutLen
    <2>1. conns[s] \in WbConn
      BY DEF WbIInv, WbTypeInv
    <2>. QED  BY <2>1 DEF WbConn, WbIInv, WbTypeInv, WbClientInv, WbSlotInv, WbTotal
  <1>2. m \in Nat /\ Len(o) \in Nat /\ Len(left) \in Nat /\ OutLen \in Nat /\ Room \in Nat
    BY <1>1 DEF WbSizes
  <1>sum. ASSUME NEW k \in 0..Len(left)
        PROVE  /\ m + 0 <= OutLen /\ m + Len(o) <= OutLen /\ m + Len(o) \in Nat
               /\ m + (Len(o) + Len(left)) = OutLen /\ m + (Len(o) + Len(left)) <= OutLen
               /\ (m + Len(o)) + k = m + (Len(o) + k)
               /\ m + (Len(o) + k) + (Len(left) - k) = OutLen /\ m + (Len(o) + k) <= OutLen
    <2>. HIDE DEF m, o, left
    <2>. QED  BY <1>1, <1>2, WbSum
  <1>none. 0 \in 0..Len(left)
    BY <1>2
  <1>3. in \in [Clients -> Seq(WbPieces)] /\ WbOf(in[c], c)
    BY DEF WbIInv, WbTypeInv, WbClientInv
  <1>4. UNCHANGED in
    BY DEF Ws!on_writable
  <1>5. ASSUME NEW sent \in Seq(WbResponses), Ws!conn_close(c, sent),
               WbUnits(sent, c, m), m + Len(sent) <= OutLen,
               ~hung[c] => m + Len(sent) = OutLen
        PROVE  WbIInv'
    <2>1. /\ sock' = [sock EXCEPT ![c] = "closed"] /\ fd' = [fd EXCEPT ![c] = 0]
          /\ out' \in [Clients -> Seq(WbResponses)]
          /\ \A d \in Clients : d # c => out'[d] = out[d]
          /\ out'[c] = sent \/ (in[c] # <<>> /\ out'[c] = <<>>)
          /\ \E k \in Tables : conns' \in [1..k -> WbConn]
          /\ DOMAIN conns' = DOMAIN conns /\ conns'[s].state = "free"
          /\ \A t \in DOMAIN conns : t # s => conns'[t] = conns[t]
      BY <1>5, WbCloses
    <2>2. WbUnits(out'[c], c, m) /\ m + Len(out'[c]) <= OutLen
      <3>1. Len(<<>>) = 0 /\ m + 0 <= OutLen
        <4>1. Len(<<>>) = 0
          OBVIOUS
        <4>2. m + 0 <= OutLen
          BY <1>sum, <1>none
        <4>. QED  BY <4>1, <4>2
      <3>. QED  BY <1>5, <2>1, <3>1, WbNone
    <2>3. WbTotal(c)' = m + Len(out'[c])
      BY DEF WbTotal
    <2>4. ~hung[c] /\ in'[c] = <<>> => WbTotal(c)' \in {0, OutLen}
      BY <1>4, <1>5, <2>1, <2>3
    <2>. HIDE DEF m
    <2>5. WbUnits(out'[c], c, Len(got[c])) /\ WbTotal(c)' <= OutLen
      BY <2>2, <2>3 DEF m
    <2>6. in' \in [Clients -> Seq(WbPieces)] /\ WbOf(in'[c], c) /\ \A d \in Clients : in'[d] = in[d]
      BY <1>3, <1>4
    <2>. QED  BY <2>1, <2>4, <2>5, <2>6, WbHandled
  <1>6. CASE hung[c] /\ Ws!conn_close(c, out[c])
    <2>1. m + Len(o) <= OutLen
      BY <1>sum, <1>none
    <2>. QED  BY <1>1, <1>5, <1>6, <2>1
  <1>7. CASE ~hung[c] /\ Len(left) <= n /\ Ws!conn_close(c, out[c] \o left)
    <2>1. o \o left \in Seq(WbResponses) /\ Len(o \o left) = Len(o) + Len(left)
          /\ WbUnits(o \o left, c, m)
      BY <1>1, <1>2, WbJoin
    <2>2. m + Len(o \o left) = OutLen /\ m + Len(o \o left) <= OutLen
      BY <1>sum, <1>none, <2>1
    <2>. QED  BY <1>5, <1>7, <2>1, <2>2
  <1>8. CASE /\ ~hung[c] /\ ~(Len(left) <= n)
             /\ out' = [out EXCEPT ![c] = @ \o SubSeq(left, 1, n)]
             /\ conns' = [conns EXCEPT ![wsPc].out = SubSeq(@, n + 1, Len(@))]
             /\ UNCHANGED <<sock, fd>>
    <2>. DEFINE x == SubSeq(left, 1, n)
                y == SubSeq(left, n + 1, Len(left))
                z == o \o x
                new == [conns[s] EXCEPT !.out = y]
    <2>1. n \in 0..Len(left)
      <3>1. Len(o) < Room /\ ~(Len(left) <= Room - Len(o))
        BY <1>8 DEF Ws!Writable
      <3>. HIDE DEF m, o, left
      <3>2. Room - Len(o) \in 0..Len(left)
        BY <1>2, <3>1, WbFits
      <3>. QED  BY <3>2 DEF o
    <2>2. /\ x \in Seq(WbResponses) /\ Len(x) = n /\ y \in Seq(WbResponses) /\ Len(y) = Len(left) - n
          /\ WbUnits(x, c, m + Len(o)) /\ WbUnits(y, c, (m + Len(o)) + n)
      <3>1. m + Len(o) \in Nat
        BY <1>sum, <1>none
      <3>. HIDE DEF n, m, left, o
      <3>. QED  BY <1>1, <2>1, <3>1, WbCut, WbCutUnits
    <2>3. conns' = [conns EXCEPT ![s] = new] /\ out' = [out EXCEPT ![c] = z]
      BY <1>8
    <2>. HIDE DEF x, y
    <2>4. z \in Seq(WbResponses) /\ Len(z) = Len(o) + n /\ WbUnits(z, c, m)
      <3>. HIDE DEF n, m, left, o
      <3>. QED  BY <1>1, <1>2, <2>2, WbJoin
    <2>5. /\ new \in WbConn /\ new.state = "writing" /\ new.out = y /\ new.fd = conns[s].fd
      <3>1. conns[s] \in WbConn
        BY DEF WbIInv, WbTypeInv
      <3>. QED  BY <2>2, <3>1 DEF WbConn
    <2>. HIDE DEF z, new
    <2>6. /\ \E k \in Tables : conns' \in [1..k -> WbConn]
          /\ DOMAIN conns' = DOMAIN conns /\ conns'[s] = new
          /\ \A t \in DOMAIN conns : t # s => conns'[t] = conns[t]
      BY <2>3, <2>5 DEF WbIInv, WbTypeInv
    <2>7. /\ out' \in [Clients -> Seq(WbResponses)] /\ out'[c] = z
          /\ \A d \in Clients : d # c => out'[d] = out[d]
      BY <2>3, <2>4 DEF WbIInv, WbTypeInv
    <2>8. WbTotal(c)' = m + (Len(o) + n)
      BY <2>4, <2>7 DEF WbTotal
    <2>9. (m + Len(o)) + n = m + (Len(o) + n) /\ m + (Len(o) + n) + (Len(left) - n) = OutLen
          /\ m + (Len(o) + n) <= OutLen
      <3>. HIDE DEF n, m, left, o
      <3>. QED  BY <1>sum, <2>1
    <2>10. /\ conns'[s].state = "writing" /\ conns'[s].fd = conns[s].fd
           /\ WbUnits(conns'[s].out, c, WbTotal(c)')
           /\ WbTotal(c)' + Len(conns'[s].out) = OutLen /\ WbTotal(c)' <= OutLen
      <3>. HIDE DEF n, m, left, o
      <3>. QED  BY <2>2, <2>5, <2>6, <2>8, <2>9
    <2>11. WbUnits(out'[c], c, Len(got[c]))
      BY <2>4, <2>7
    <2>12. in' \in [Clients -> Seq(WbPieces)] /\ WbOf(in'[c], c) /\ \A d \in Clients : in'[d] = in[d]
      BY <1>3, <1>4
    <2>13. UNCHANGED <<sock, fd>> /\ UNCHANGED <<got, hung, rd, wr>> /\ wsPc = s
           /\ (wsPc' = 0 \/ wsPc' = s + 1)
      BY <1>8 DEF Ws!on_writable
    <2>14. s \in DOMAIN conns /\ WbServes(s, c) /\ conns'[s].state = "writing"
      BY <2>10
    <2>. HIDE DEF n, m, left, o
    <2>. QED  BY <2>6, <2>7, <2>10, <2>11, <2>12, <2>13, <2>14, WbHandled
  <1>. QED  BY <1>6, <1>7, <1>8 DEF Ws!on_writable

(* The loop comes to a slot. *)
LEMMA WbHandle == ASSUME WbSizes, WbIInv, Ws!Handle PROVE WbIInv'
  <1>. DEFINE s == wsPc
  <1>1. /\ s \in DOMAIN conns /\ UNCHANGED <<got, hung, rd, wr>> /\ (wsPc' = 0 \/ wsPc' = s + 1)
        /\ s \in Nat /\ s >= 1
    BY DEF Ws!Handle, Ws!Slots, Ws!Advance, Ws!SELECT, WbIInv, WbTypeInv, WbSizes
  <1>2. CASE UNCHANGED <<sock, fd, in, out, conns>>
    <2>1. \A d \in Clients : /\ WbTotal(d)' = WbTotal(d) /\ Ws!Readable(d)' = Ws!Readable(d)
                             /\ Ws!Writable(d)' = Ws!Writable(d)
      BY <1>1, <1>2 DEF WbTotal, Ws!Readable, Ws!Writable
    <2>2. \A t, d : WbServes(t, d)' = WbServes(t, d)
      BY <1>2 DEF WbServes
    <2>3. WbTypeInv' /\ WbDescInv' /\ WbClientInv'
      BY <1>1, <1>2, <2>1 DEF WbIInv, WbTypeInv, WbDescInv, WbClientInv
    <2>4. WbSlotInv'
      BY <1>1, <1>2, <2>1, <2>2 DEF WbIInv, WbSlotInv
    <2>5. \A t \in DOMAIN conns : wsPc' # 0 /\ t >= wsPc' => t >= wsPc
      BY <1>1 DEF WbIInv, WbTypeInv, WbSizes
    <2>6. WbPassInv'
      BY <1>1, <1>2, <2>1, <2>2, <2>5 DEF WbIInv, WbPassInv
    <2>. QED  BY <2>3, <2>4, <2>6 DEF WbIInv
  <1>3. CASE Ws!Due(s)
    <2>1. conns[s].state \in {"reading", "writing"}
      BY <1>3 DEF Ws!Due, Ws!READING, Ws!WRITING
    <2>2. PICK c \in Clients : WbServes(s, c)
      BY <1>1, <2>1 DEF WbIInv, WbDescInv, WbServes
    <2>3. Ws!Peer(conns[s].fd) = c
      BY <1>1, <2>2, WbPeer
    <2>4. CASE conns[s].state = "reading"
      <3>1. Ws!on_readable(c)
        BY <1>3, <2>3, <2>4 DEF Ws!Handle, Ws!READING
      <3>. QED  BY <1>1, <2>2, <2>4, <3>1, WbOnReadable
    <2>5. CASE conns[s].state = "writing"
      <3>1. Ws!on_writable(c)
        BY <1>3, <2>3, <2>5 DEF Ws!Handle, Ws!READING
      <3>2. conns[s].fd \in wr
        BY <1>3, <2>5 DEF Ws!Due, Ws!READING
      <3>3. Ws!Writable(c)
        BY <1>1, <2>2, <2>5, <3>2 DEF WbIInv, WbPassInv
      <3>. QED  BY <1>1, <2>2, <2>5, <3>1, <3>3, WbOnWritable
    <2>. QED  BY <2>1, <2>4, <2>5
  <1>. QED  BY <1>2, <1>3 DEF Ws!Handle

(* The invariant is inductive. *)
LEMMA WbStep == ASSUME WbSizes, WbIInv, [Ws!Next]_Ws!vars PROVE WbIInv'
  <1>1. CASE UNCHANGED Ws!vars
    <2>1. UNCHANGED <<sock, fd, in, out, got, hung, conns, rd, wr, wsPc>>
      BY <1>1 DEF Ws!vars
    <2>2. \A d \in Clients : /\ WbTotal(d)' = WbTotal(d) /\ Ws!Readable(d)' = Ws!Readable(d)
                             /\ Ws!Writable(d)' = Ws!Writable(d)
      BY <2>1 DEF WbTotal, Ws!Readable, Ws!Writable
    <2>3. WbClientInv'
      BY <2>1, <2>2 DEF WbIInv, WbClientInv
    <2>. QED  BY <2>1, <2>2, <2>3, WbClient DEF WbIInv, WbTypeInv
  <1>2. CASE Ws!Server
    BY <1>2, WbSelect, WbAccept, WbAccepted, WbHandle DEF Ws!Server
  <1>3. ASSUME NEW c \in Clients,
               \/ Ws!Connect(c) \/ Ws!Recv(c) \/ Ws!HangUp(c)
               \/ \E last \in BOOLEAN : Ws!SendPiece(c, last)
        PROVE  WbIInv'
    BY <1>3, WbConnect, WbRecv, WbHangUp, WbSendPiece
  <1>. QED  BY <1>1, <1>2, <1>3 DEF Ws!Next

(* The invariant gives each client its response and each connection its    *)
(* events.                                                                 *)
LEMMA WbHolds == ASSUME WbSizes, WbIInv PROVE ResponsesApart
  <1>1. ASSUME NEW c \in Clients
        PROVE  LET all == got[c] \o out[c] IN
               /\ all = SubSeq(Ws!Response(c), 1, Len(all))
               /\ sock[c] = "closed" /\ ~hung[c] /\ in[c] = <<>> => Len(all) \in {0, OutLen}
    <2>. DEFINE all == got[c] \o out[c]
    <2>1. /\ got[c] \in Seq(WbResponses) /\ out[c] \in Seq(WbResponses)
          /\ WbUnits(got[c], c, 0) /\ WbUnits(out[c], c, Len(got[c])) /\ WbTotal(c) <= OutLen
          /\ sock[c] = "closed" /\ ~hung[c] /\ in[c] = <<>> => WbTotal(c) \in {0, OutLen}
      BY DEF WbIInv, WbTypeInv, WbClientInv
    <2>2. 0 \in Nat /\ 0 + Len(got[c]) = Len(got[c])
      BY <2>1
    <2>3. all \in Seq(WbResponses) /\ Len(all) = WbTotal(c) /\ WbUnits(all, c, 0)
      BY <2>1, <2>2, WbJoin DEF WbTotal
    <2>. HIDE DEF all
    <2>4. all = SubSeq(Ws!Response(c), 1, Len(all))
      BY <2>1, <2>3, WbPrefix
    <2>. QED  BY <2>1, <2>3, <2>4 DEF all
  <1>2. Ws!OwnResponse
    BY <1>1 DEF Ws!OwnResponse
  <1>3. \A s, t \in Ws!Slots : conns[s].state # Ws!FREE /\ conns[t].state # Ws!FREE /\ s # t
                                 => conns[s].fd # conns[t].fd
    BY DEF Ws!Slots, Ws!FREE, WbIInv, WbDescInv
  <1>4. ASSUME wsPc \in Ws!Slots, Ws!Due(wsPc)
        PROVE  LET c == Ws!Peer(conns[wsPc].fd) IN
               IF conns[wsPc].state = Ws!READING THEN Ws!Readable(c) ELSE Ws!Writable(c)
    <2>. DEFINE s == wsPc
    <2>1. /\ s \in DOMAIN conns /\ s # 0 /\ s >= s
          /\ \/ conns[s].state = "reading" /\ conns[s].fd \in rd
             \/ conns[s].state = "writing" /\ conns[s].fd \in wr
      BY <1>4 DEF Ws!Slots, Ws!Due, Ws!READING, Ws!WRITING, WbIInv, WbTypeInv, WbSizes
    <2>2. PICK c \in Clients : WbServes(s, c)
      BY <2>1 DEF WbIInv, WbDescInv, WbServes
    <2>3. Ws!Peer(conns[s].fd) = c
      BY <2>1, <2>2, WbPeer
    <2>4. /\ conns[s].state = "reading" /\ conns[s].fd \in rd => Ws!Readable(c)
          /\ conns[s].state = "writing" /\ conns[s].fd \in wr => Ws!Writable(c)
      BY <2>1, <2>2 DEF WbIInv, WbPassInv
    <2>. QED  BY <2>1, <2>3, <2>4 DEF Ws!READING
  <1>. QED  BY <1>2, <1>3, <1>4 DEF ResponsesApart, Ws!OwnDescriptor

-----------------------------------------------------------------------------
(* The programs together.                                                  *)

(* A behaviour of MCProgress is one of each program. *)
LEMMA ProgressImplements ==
    ProgressSpec => /\ Init /\ [][Next]_vars
                    /\ Sc!Init /\ [][Sc!Next]_Sc!vars
                    /\ Vd!Init /\ [][Vd!Next]_Vd!vars
                    /\ Ws!Init /\ [][Ws!Next]_Ws!vars
  <1>1. Initially => Init /\ Sc!Init /\ Vd!Init /\ Ws!Init
    BY DEF Initially
  <1>2. [Step]_allVars => [Next]_vars
    BY DEF Step, Only, allVars
  <1>3. [Step]_allVars => [Sc!Next]_Sc!vars
    BY DEF Step, Only, allVars, schedVars, Sc!vars
  <1>4. [Step]_allVars => [Vd!Next]_Vd!vars
    BY DEF Step, Only, allVars, diskVars, Vd!vars
  <1>5. [Step]_allVars => [Ws!Next]_Ws!vars
    BY DEF Step, Only, allVars, webVars, Ws!vars
  <1>. QED  BY <1>1, <1>2, <1>3, <1>4, <1>5, PTL DEF ProgressSpec

(* proc.c of lab02: whichever the policy, a pass of the scheduler over a   *)
(* table with a runnable process takes one, and every draw of the lottery  *)
(* has exactly one holder, for any number of processes, levels, tickets.   *)
THEOREM PassFindsProcess == ProgressSpec => []NeverStalls
  <1>1. ScSizes
    BY ProgramsAssumption DEF ScSizes
  <1>2. ScIInv => NeverStalls
    BY <1>1, ScDraw DEF ScIInv, NeverStalls, Sc!NeverStalls
  <1>. QED  BY <1>1, <1>2, ScInit, ScStep, ProgressImplements, PTL

(* virtio_disk.c: requests share no descriptor and none is lost, what the  *)
(* interrupt takes from the used ring is a completed request of a caller,  *)
(* and a caller returns only after its own transfer, for any number of     *)
(* callers and descriptors.                                                *)
THEOREM RequestsKeptApart == ProgressSpec => []RequestsApart
  <1>1. VdSizes
    BY ProgramsAssumption DEF VdSizes
  <1>. QED  BY <1>1, VdHolds, VdInit, VdStep, ProgressImplements, PTL

(* wsevent.c: a client reads its own response from the first unit on and   *)
(* no other, once the server has closed all of it or nothing, unless it    *)
(* hung up or pieces of its were left unread, and no event select reported *)
(* is taken for another connection's, for any number of clients, slots,    *)
(* pieces and units.                                                       *)
THEOREM ResponsesKeptApart == ProgressSpec => []ResponsesApart
  <1>1. WbSizes
    BY ProgramsAssumption DEF WbSizes
  <1>. QED  BY <1>1, WbHolds, WbInit, WbStep, ProgressImplements, PTL

=============================================================================

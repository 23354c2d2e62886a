----------------------------- MODULE WalProofs -----------------------------
(* The write-ahead log implements AtomicDisk, for any blocks and log size. *)
EXTENDS Wal, TLAPS

(* Device invariant: one pending write per block, none on a fifo device. *)
QueueOK ==
    /\ \A i, j \in DOMAIN queue : queue[i].bno = queue[j].bno => i = j
    /\ devmode = "fifo" => queue = <<>>

(* Block b reads as d. *)
Holds(b, d) ==
    \/ \E i \in DOMAIN queue : queue[i].bno = b /\ queue[i].data = d
    \/ platter[b] = d /\ \A i \in DOMAIN queue : queue[i].bno # b

QueueIn(W) == \A i \in DOMAIN queue : queue[i] \in W

LogWrites == {[bno |-> i, data |-> buf[order[i]]] : i \in DOMAIN order}
HomeWrites == {[bno |-> order[i], data |-> platter[i]] : i \in DOMAIN order}
DirectWrites == [bno : Homes \ Tracked, data : Vals]

InMemory == {"op"} \cup EndOpSteps
Quiet == {"closed", "idle", "down", "commit", "free", "clear"}
Copying == {"checkpoint", "replay"}
Copied == {"checked", "replayed"}
Clearing == {"free", "clear"}
Cleared == {"freed", "cleared"}
AfterLog == {"commit", "committed", "checkpoint", "checked", "free", "freed"}

(* What is buffered: exactly the blocks of order, and only in an operation. *)
BufOK ==
    /\ pc \in InMemory =>
         /\ \A b \in DOMAIN buf : \E i \in DOMAIN order : order[i] = b
         /\ \A i \in DOMAIN order : order[i] \in DOMAIN buf
    /\ pc \notin InMemory => buf = Empty

(* What is pending at each step, and what the header says. *)
PendingOK ==
    /\ pc \in Quiet => queue = <<>>
    /\ pc \in {"op", "data"} => QueueIn(DirectWrites)
    /\ pc = "op" /\ direct = Empty => queue = <<>>
    /\ pc \in {"log", "logged"} => QueueIn(LogWrites)
    /\ pc \in Copying \cup Copied => QueueIn(HomeWrites)
    /\ pc = "committed" => QueueIn({[bno |-> Header, data |-> order]})
    /\ pc \in Cleared => QueueIn({[bno |-> Header, data |-> <<>>]})

HeaderOK ==
    /\ pc \in {"closed", "idle", "op", "data", "log", "logged", "commit"} => platter[Header] = <<>>
    /\ pc = "committed" => platter[Header] \in {<<>>, order} /\ Holds(Header, order)
    /\ pc \in Copying \cup Copied \cup Clearing => platter[Header] = order
    /\ pc \in Cleared => platter[Header] \in {<<>>, order} /\ Holds(Header, <<>>)

(* What has been written so far. *)
ProgressOK ==
    /\ pc = "log" => \A i \in DOMAIN order : i < k => Holds(i, buf[order[i]])
    /\ pc = "logged" => \A i \in DOMAIN order : Holds(i, buf[order[i]])
    /\ pc \in AfterLog => \A i \in DOMAIN order : platter[i] = buf[order[i]]
    /\ pc \in Copying => \A i \in DOMAIN order : i < k => Holds(order[i], platter[i])
    /\ pc \in Copied => \A i \in DOMAIN order : Holds(order[i], platter[i])
    /\ pc \in Clearing \cup Cleared => \A i \in DOMAIN order : platter[order[i]] = platter[i]

WalInv == TypeOK /\ QueueOK /\ BufOK /\ PendingOK /\ HeaderOK /\ ProgressOK

WriteRecords == [bno : Homes \cup Slots, data : Vals] \cup [bno : {Header}, data : Seq(Tracked)]

-----------------------------------------------------------------------------
(* The device.                                                             *)

(* An install takes one write off the queue and changes what no block      *)
(* reads as.                                                               *)
LEMMA InstallEffect ==
    ASSUME TypeOK, QueueOK, Install
    PROVE  /\ queue' \in Seq(WriteRecords) /\ QueueOK'
           /\ DOMAIN queue' \subseteq DOMAIN queue
           /\ \A i \in DOMAIN queue' : queue'[i] = queue[i]
           /\ \E i \in DOMAIN queue : platter' = [platter EXCEPT ![queue[i].bno] = queue[i].data]
           /\ \A b \in Blocks : \A d : Holds(b, d) => Holds(b, d)'
  <1>. DEFINE n == Len(queue)  w == queue[n]
  <1>1. queue \in Seq(WriteRecords) /\ n \in Nat \ {0} /\ n \in DOMAIN queue
    BY DEF TypeOK, Install, WriteRecords
  <1>2. /\ queue' \in Seq(WriteRecords) /\ DOMAIN queue' = 1..(n - 1) /\ DOMAIN queue = 1..n
        /\ \A i \in DOMAIN queue' : queue'[i] = queue[i]
    BY <1>1 DEF Install
  <1>3. platter' = [platter EXCEPT ![w.bno] = w.data] /\ devmode' = devmode
    BY DEF Install
  <1>4. QueueOK'
    BY <1>1, <1>2, <1>3 DEF QueueOK
  <1>5. ASSUME NEW b \in Blocks, NEW d, Holds(b, d)
        PROVE  Holds(b, d)'
    <2>1. CASE w.bno = b
      <3>1. w.data = d /\ \A i \in DOMAIN queue' : queue'[i].bno # b
        BY <1>1, <1>2, <1>5, <2>1 DEF Holds, QueueOK
      <3>2. platter'[b] = d
        BY <1>3, <2>1, <3>1 DEF TypeOK
      <3>. QED  BY <3>1, <3>2 DEF Holds
    <2>2. CASE w.bno # b
      <3>1. platter'[b] = platter[b]
        BY <1>3, <2>2 DEF TypeOK
      <3>2. CASE \E i \in DOMAIN queue : queue[i].bno = b /\ queue[i].data = d
        <4>1. PICK i \in DOMAIN queue : queue[i].bno = b /\ queue[i].data = d
          BY <3>2
        <4>2. i \in DOMAIN queue' /\ queue'[i] = queue[i]
          BY <1>1, <1>2, <2>2, <4>1
        <4>. QED  BY <4>1, <4>2 DEF Holds
      <3>3. CASE platter[b] = d /\ \A i \in DOMAIN queue : queue[i].bno # b
        BY <1>1, <1>2, <3>1, <3>3 DEF Holds
      <3>. QED  BY <1>5, <3>2, <3>3 DEF Holds
    <2>. QED  BY <2>1, <2>2
  <1>6. \A b \in Blocks : \A d : Holds(b, d) => Holds(b, d)'
    BY <1>5
  <1>7. DOMAIN queue' \subseteq DOMAIN queue
    BY <1>1, <1>2
  <1>8. \E i \in DOMAIN queue : platter' = [platter EXCEPT ![queue[i].bno] = queue[i].data]
    BY <1>1, <1>3
  <1>. QED  BY <1>2, <1>4, <1>6, <1>7, <1>8, Zenon

(* A write makes its block read as written and no other block change. *)
LEMMA WriteEffect ==
    ASSUME TypeOK, QueueOK, NEW b \in Blocks, NEW d,
           [bno |-> b, data |-> d] \in WriteRecords, DevWrite(b, d)
    PROVE  /\ queue' \in Seq(WriteRecords) /\ QueueOK'
           /\ devmode' = devmode
           /\ \A i \in DOMAIN queue' :
                \/ queue'[i] = [bno |-> b, data |-> d]
                \/ i \in DOMAIN queue /\ queue'[i] = queue[i]
           /\ \/ platter' = platter
              \/ platter' = [platter EXCEPT ![b] = d] /\ queue' = <<>>
           /\ Holds(b, d)'
           /\ \A c \in Blocks : \A e : c # b /\ Holds(c, e) => Holds(c, e)'
  <1>. DEFINE w == [bno |-> b, data |-> d]
  <1>1. queue \in Seq(WriteRecords) /\ Len(queue) \in Nat /\ DOMAIN queue = 1..Len(queue)
    BY DEF TypeOK, WriteRecords
  <1>2. CASE devmode = "fifo"
    <2>1. /\ queue = <<>> /\ queue' = queue /\ platter' = [platter EXCEPT ![b] = d]
          /\ devmode' = devmode
      BY <1>2 DEF QueueOK, DevWrite
    <2>2. platter'[b] = d /\ \A c \in Blocks : c # b => platter'[c] = platter[c]
      BY <2>1 DEF TypeOK
    <2>3. DOMAIN queue = {} /\ DOMAIN queue' = {}
      BY <2>1
    <2>4. QueueOK'
      BY <2>1, <2>3 DEF QueueOK
    <2>5. Holds(b, d)' /\ \A c \in Blocks : \A e : c # b /\ Holds(c, e) => Holds(c, e)'
      BY <2>2, <2>3 DEF Holds
    <2>. QED  BY <1>1, <2>1, <2>3, <2>4, <2>5
  <1>3. CASE devmode # "fifo" /\ Pending(b) = {}
    <2>1. queue' = Append(queue, w) /\ platter' = platter /\ devmode' = devmode
      BY <1>3 DEF DevWrite
    <2>2. /\ queue' \in Seq(WriteRecords) /\ DOMAIN queue' = 1..(Len(queue) + 1)
          /\ queue'[Len(queue) + 1] = w /\ \A i \in DOMAIN queue : queue'[i] = queue[i]
      BY <1>1, <2>1
    <2>3. \A i \in DOMAIN queue : queue[i].bno # b
      BY <1>3 DEF Pending
    <2>4. \A i \in DOMAIN queue' : i = Len(queue) + 1 \/ i \in DOMAIN queue
      BY <1>1, <2>2
    <2>5. QueueOK'
      BY <1>1, <1>3, <2>1, <2>2, <2>3, <2>4 DEF QueueOK
    <2>6. Holds(b, d)'
      BY <1>1, <2>2 DEF Holds
    <2>7. ASSUME NEW c \in Blocks, NEW e, c # b, Holds(c, e)
          PROVE  Holds(c, e)'
      <3>1. CASE \E i \in DOMAIN queue : queue[i].bno = c /\ queue[i].data = e
        BY <1>1, <2>2, <3>1 DEF Holds
      <3>2. CASE platter[c] = e /\ \A i \in DOMAIN queue : queue[i].bno # c
        BY <2>1, <2>2, <2>4, <2>7, <3>2 DEF Holds
      <3>. QED  BY <2>7, <3>1, <3>2 DEF Holds
    <2>8. \A c \in Blocks : \A e : c # b /\ Holds(c, e) => Holds(c, e)'
      BY <2>7
    <2>9. \A i \in DOMAIN queue' : queue'[i] = w \/ (i \in DOMAIN queue /\ queue'[i] = queue[i])
      BY <2>2, <2>4
    <2>. QED  BY <2>1, <2>2, <2>5, <2>6, <2>8, <2>9, Zenon
  <1>4. CASE devmode # "fifo" /\ Pending(b) # {}
    <2>1. /\ queue' = [i \in DOMAIN queue |-> IF i \in Pending(b) THEN w ELSE queue[i]]
          /\ platter' = platter /\ devmode' = devmode
      BY <1>4 DEF DevWrite
    <2>2. /\ queue' \in Seq(WriteRecords) /\ DOMAIN queue' = DOMAIN queue
          /\ \A i \in DOMAIN queue : queue'[i] = IF queue[i].bno = b THEN w ELSE queue[i]
      BY <1>1, <2>1 DEF Pending
    <2>3. \A i \in DOMAIN queue : queue'[i].bno = queue[i].bno
      BY <2>2
    <2>4. QueueOK'
      BY <1>4, <2>1, <2>2, <2>3 DEF QueueOK
    <2>5. Holds(b, d)'
      BY <1>4, <2>2 DEF Holds, Pending
    <2>6. ASSUME NEW c \in Blocks, NEW e, c # b, Holds(c, e)
          PROVE  Holds(c, e)'
      <3>1. CASE \E i \in DOMAIN queue : queue[i].bno = c /\ queue[i].data = e
        BY <2>2, <2>6, <3>1 DEF Holds
      <3>2. CASE platter[c] = e /\ \A i \in DOMAIN queue : queue[i].bno # c
        BY <2>1, <2>2, <2>3, <3>2 DEF Holds
      <3>. QED  BY <2>6, <3>1, <3>2 DEF Holds
    <2>7. \A c \in Blocks : \A e : c # b /\ Holds(c, e) => Holds(c, e)'
      BY <2>6
    <2>8. \A i \in DOMAIN queue' : queue'[i] = w \/ (i \in DOMAIN queue /\ queue'[i] = queue[i])
      BY <2>2
    <2>. QED  BY <2>1, <2>2, <2>4, <2>5, <2>7, <2>8, Zenon
  <1>. QED  BY <1>2, <1>3, <1>4

(* With nothing pending, what a block reads as is on the platter. *)
LEMMA HoldsDrained ==
    ASSUME queue = <<>>, NEW b, NEW d, Holds(b, d)
    PROVE  platter[b] = d
  BY DEF Holds

-----------------------------------------------------------------------------
(* The invariant.                                                          *)

(* What the assumptions and the type invariant say of blocks and order. *)
LEMMA OrderFacts ==
    ASSUME TypeOK
    PROVE  /\ order \in Seq(Tracked) /\ Len(order) \in Nat /\ Len(order) <= LogCap
           /\ DOMAIN order = 1..Len(order) /\ DOMAIN order \subseteq Slots
           /\ \A i \in DOMAIN order : order[i] \in Tracked
           /\ Tracked \subseteq Homes /\ Homes \cap Slots = {}
           /\ Header \notin Homes /\ Header \notin Slots
           /\ Homes \subseteq Blocks /\ Slots \subseteq Blocks /\ Header \in Blocks
  <1>1. order \in Seq(Tracked) /\ Len(order) \in Nat /\ Len(order) <= LogCap
    BY DEF TypeOK, FitsLog
  <1>2. DOMAIN order = 1..Len(order) /\ \A i \in DOMAIN order : order[i] \in Tracked
    BY <1>1
  <1>3. DOMAIN order \subseteq Slots
    BY <1>1, <1>2, BlocksAssumption DEF Slots
  <1>4. Tracked \subseteq Homes
    BY DEF Tracked, Homes
  <1>. QED  BY <1>1, <1>2, <1>3, <1>4, BlocksAssumption DEF Blocks

(* The empty transaction fits. *)
LEMMA EmptyFits == FitsLog(<<>>)
  BY BlocksAssumption DEF FitsLog

(* A well-typed change of one block keeps the platter well typed. *)
LEMMA PlatterTyped ==
    ASSUME TypeOK, NEW b \in Blocks, NEW d, platter' = [platter EXCEPT ![b] = d],
           (b \in Homes \cup Slots /\ d \in Vals) \/ (b = Header /\ FitsLog(d))
    PROVE  /\ DOMAIN platter' = Blocks
           /\ \A c \in Homes \cup Slots : platter'[c] \in Vals
           /\ FitsLog(platter'[Header])
           /\ platter'[b] = d /\ \A c \in Blocks : c # b => platter'[c] = platter[c]
  <1>1. DOMAIN platter' = Blocks /\ platter'[b] = d /\ \A c \in Blocks : c # b => platter'[c] = platter[c]
    BY DEF TypeOK
  <1>2. \A c \in Homes \cup Slots : platter'[c] \in Vals
    BY <1>1, BlocksAssumption DEF TypeOK, Blocks
  <1>3. platter'[Header] = platter[Header] \/ (platter'[Header] = d /\ b = Header)
    BY <1>1 DEF Blocks
  <1>4. FitsLog(platter'[Header])
    BY <1>3, BlocksAssumption DEF TypeOK
  <1>. QED  BY <1>1, <1>2, <1>4

(* What a barrier finds in the queue. *)
LEMMA Queued ==
    ASSUME WalInv, NEW i \in DOMAIN queue
    PROVE  LET b == queue[i].bno  d == queue[i].data IN
           /\ pc = "data" => b \in Homes \ Tracked /\ d \in Vals
           /\ pc = "logged" => b \in DOMAIN order /\ d = buf[order[b]]
           /\ pc \in Copied => \E j \in DOMAIN order : b = order[j] /\ d = platter[j]
           /\ pc = "committed" => b = Header /\ d = order
           /\ pc \in Cleared => b = Header /\ d = <<>>
  <1>. USE DEF WalInv
  <1>1. CASE pc = "data"
    BY <1>1 DEF PendingOK, QueueIn, DirectWrites, Copied, Cleared
  <1>2. CASE pc = "logged"
    BY <1>2 DEF PendingOK, QueueIn, LogWrites, Copied, Cleared
  <1>3. CASE pc \in Copied
    BY <1>3 DEF PendingOK, QueueIn, HomeWrites, Copied, Cleared
  <1>4. CASE pc = "committed" \/ pc \in Cleared
    BY <1>4 DEF PendingOK, QueueIn, Copied, Cleared
  <1>. QED  BY <1>1, <1>2, <1>3, <1>4 DEF Copied, Cleared

(* A barrier at work keeps the invariant. *)
LEMMA DrainStep ==
    ASSUME WalInv, Install, UNCHANGED <<pc, k, txn>>,
           pc \in {"data", "logged", "committed", "checked", "freed", "replayed", "cleared"}
    PROVE  WalInv'
  <1>. USE DEF WalInv
  <1>1. PICK i \in DOMAIN queue : platter' = [platter EXCEPT ![queue[i].bno] = queue[i].data]
    BY InstallEffect
  <1>2. /\ queue' \in Seq(WriteRecords) /\ QueueOK' /\ devmode' = devmode
        /\ DOMAIN queue' \subseteq DOMAIN queue /\ \A j \in DOMAIN queue' : queue'[j] = queue[j]
    BY InstallEffect DEF Install
  <1>3. \A b \in Blocks : \A d : Holds(b, d) => Holds(b, d)'
    BY InstallEffect
  <1>. DEFINE b == queue[i].bno  d == queue[i].data
  <1>4. queue[i] \in WriteRecords
    BY DEF TypeOK, WriteRecords
  <1>5. /\ pc = "data" => b \in Homes \ Tracked /\ d \in Vals
        /\ pc = "logged" => b \in DOMAIN order /\ d = buf[order[b]]
        /\ pc \in Copied => \E j \in DOMAIN order : b = order[j] /\ d = platter[j]
        /\ pc = "committed" => b = Header /\ d = order
        /\ pc \in Cleared => b = Header /\ d = <<>>
    BY Queued
  <1>6. pc \in {"data", "logged", "committed"} \cup Copied \cup Cleared
    BY DEF Copied, Cleared
  <1>7. b \in Blocks /\ ((b \in Homes \cup Slots /\ d \in Vals) \/ (b = Header /\ FitsLog(d)))
    <2>1. CASE pc = "data"
      BY <1>5, <2>1 DEF Blocks
    <2>2. CASE pc = "logged"
      BY <1>4, <1>5, <2>2, OrderFacts DEF WriteRecords
    <2>3. CASE pc \in Copied
      BY <1>5, <2>3, OrderFacts DEF TypeOK
    <2>4. CASE pc = "committed" \/ pc \in Cleared
      BY <1>5, <2>4, OrderFacts, EmptyFits DEF TypeOK
    <2>. QED  BY <1>6, <2>1, <2>2, <2>3, <2>4
  <1>8. /\ DOMAIN platter' = Blocks
        /\ \A c \in Homes \cup Slots : platter'[c] \in Vals
        /\ FitsLog(platter'[Header])
        /\ platter'[b] = d /\ \A c \in Blocks : c # b => platter'[c] = platter[c]
    BY <1>1, <1>7, PlatterTyped
  <1>9. pc' = pc /\ k' = k /\ order' = order /\ buf' = buf /\ direct' = direct
    BY DEF txn
  <1>10. TypeOK'
    BY <1>2, <1>8, <1>9 DEF TypeOK, WriteRecords, FitsLog
  <1>11. BufOK'
    BY <1>9 DEF BufOK
  <1>12. pc \in Copied \cup Cleared => \A j \in DOMAIN order : platter'[j] = platter[j]
    BY <1>5, <1>8, OrderFacts
  <1>13. PendingOK'
    <2>1. pc \in Copied => HomeWrites' = HomeWrites
      BY <1>9, <1>12 DEF HomeWrites
    <2>2. \A W : QueueIn(W) => \A j \in DOMAIN queue' : queue'[j] \in W
      BY <1>2 DEF QueueIn
    <2>3. pc \in Copied => QueueIn(HomeWrites)'
      BY <2>1, <2>2 DEF PendingOK, QueueIn
    <2>4. pc = "logged" => QueueIn(LogWrites)'
      <3>1. LogWrites' = LogWrites
        BY <1>9 DEF LogWrites
      <3>2. pc = "logged" => QueueIn(LogWrites)
        BY DEF PendingOK
      <3>. QED  BY <2>2, <3>1, <3>2 DEF QueueIn
    <2>5. pc = "data" => QueueIn(DirectWrites)'
      BY <2>2 DEF PendingOK, QueueIn, DirectWrites
    <2>6. /\ pc = "committed" => QueueIn({[bno |-> Header, data |-> order]})'
          /\ pc \in Cleared => QueueIn({[bno |-> Header, data |-> <<>>]})'
      BY <1>9, <2>2 DEF PendingOK, QueueIn
    <2>. QED
      BY <1>6, <1>9, <2>3, <2>4, <2>5, <2>6 DEF PendingOK, Quiet, Copying, Copied, Cleared
  <1>14. HeaderOK'
    <2>1. CASE pc \in {"data", "logged"} \cup Copied
      <3>1. platter'[Header] = platter[Header]
        BY <1>5, <1>8, <2>1, OrderFacts
      <3>. QED  BY <1>9, <2>1, <3>1 DEF HeaderOK, Copying, Copied, Clearing, Cleared
    <2>2. CASE pc = "committed" \/ pc \in Cleared
      <3>1. platter'[Header] = d
        BY <1>5, <1>8, <2>2
      <3>2. /\ pc = "committed" => Holds(Header, order)'
            /\ pc \in Cleared => Holds(Header, <<>>)'
        BY <1>3, <1>9, OrderFacts DEF HeaderOK, Holds
      <3>. QED  BY <1>5, <1>9, <2>2, <3>1, <3>2 DEF HeaderOK, Copying, Copied, Clearing, Cleared
    <2>. QED  BY <1>6, <2>1, <2>2
  <1>15. ProgressOK'
    <2>1. CASE pc = "data"
      BY <1>9, <2>1 DEF ProgressOK, AfterLog, Copying, Copied, Clearing, Cleared
    <2>2. CASE pc = "logged"
      BY <1>3, <1>9, <2>2, OrderFacts DEF ProgressOK, Holds, AfterLog, Copying, Copied, Clearing, Cleared
    <2>3. CASE pc \in Copied
      <3>1. \A j \in DOMAIN order : Holds(order[j], platter[j])'
        <4>1. SUFFICES ASSUME NEW j \in DOMAIN order
                       PROVE  Holds(order[j], platter[j])'
          BY <1>9
        <4>2. PICK c, e : c \in Blocks /\ c = order[j] /\ e = platter[j]
          BY OrderFacts
        <4>3. Holds(c, e)'
          BY <1>3, <2>3, <4>2 DEF ProgressOK
        <4>4. order'[j] = c /\ platter'[j] = e
          BY <1>9, <1>12, <2>3, <4>2
        <4>. QED  BY <4>3, <4>4 DEF Holds
      <3>. QED
        BY <1>9, <1>12, <2>3, <3>1 DEF ProgressOK, AfterLog, Copying, Copied, Clearing, Cleared
    <2>4. CASE pc = "committed" \/ pc \in Cleared
      <3>1. \A j \in DOMAIN order : platter'[j] = platter[j] /\ platter'[order[j]] = platter[order[j]]
        BY <1>5, <1>8, <2>4, OrderFacts
      <3>. QED
        BY <1>9, <2>4, <3>1 DEF ProgressOK, AfterLog, Copying, Copied, Clearing, Cleared
    <2>. QED  BY <1>6, <2>1, <2>2, <2>3, <2>4
  <1>. QED  BY <1>2, <1>10, <1>11, <1>13, <1>14, <1>15

(* A block written to its log slot. *)
LEMMA LogStep ==
    ASSUME WalInv, pc = "log", k \in DOMAIN order, DevWrite(k, buf[order[k]]),
           k' = k + 1, UNCHANGED <<pc, txn>>
    PROVE  WalInv'
  <1>. USE DEF WalInv
  <1>0. PICK b, d : b \in Blocks /\ b = k /\ d = buf[order[k]] /\ DevWrite(b, d)
    BY OrderFacts
  <1>1. order' = order /\ buf' = buf /\ direct' = direct /\ pc' = pc /\ platter[Header] = <<>>
    BY DEF txn, HeaderOK
  <1>2. b \in Slots /\ d \in Vals /\ b \notin Homes /\ b # Header
    BY <1>0, OrderFacts DEF BufOK, InMemory, EndOpSteps, TypeOK
  <1>3. [bno |-> b, data |-> d] \in WriteRecords
    BY <1>2 DEF WriteRecords
  <1>4. /\ queue' \in Seq(WriteRecords) /\ QueueOK' /\ devmode' = devmode
        /\ \A i \in DOMAIN queue' :
             \/ queue'[i] = [bno |-> b, data |-> d]
             \/ i \in DOMAIN queue /\ queue'[i] = queue[i]
        /\ \/ platter' = platter
           \/ platter' = [platter EXCEPT ![b] = d] /\ queue' = <<>>
    BY <1>0, <1>2, <1>3, WriteEffect
  <1>5. Holds(b, d)' /\ \A c \in Blocks : \A e : c # b /\ Holds(c, e) => Holds(c, e)'
    BY <1>0, <1>2, <1>3, WriteEffect
  <1>6. /\ DOMAIN platter' = Blocks
        /\ \A c \in Homes \cup Slots : platter'[c] \in Vals
        /\ FitsLog(platter'[Header])
        /\ \A c \in Blocks : c # b => platter'[c] = platter[c]
    BY <1>0, <1>2, <1>4, PlatterTyped DEF TypeOK
  <1>7. TypeOK'
    BY <1>1, <1>4, <1>6, OrderFacts, BlocksAssumption DEF TypeOK, WriteRecords, FitsLog, Slots
  <1>8. BufOK'
    BY <1>1 DEF BufOK
  <1>9. QueueIn(LogWrites)'
    BY <1>0, <1>1, <1>4 DEF PendingOK, QueueIn, LogWrites
  <1>10. PendingOK'
    BY <1>1, <1>9 DEF PendingOK, Quiet, Copying, Copied, Cleared
  <1>11. HeaderOK'
    BY <1>1, <1>2, <1>6, OrderFacts DEF HeaderOK, Copying, Copied, Clearing, Cleared
  <1>12. \A i \in DOMAIN order : i < k + 1 => Holds(i, buf[order[i]])'
    <2>1. SUFFICES ASSUME NEW i \in DOMAIN order, i < k + 1
                   PROVE  Holds(i, buf[order[i]])'
      OBVIOUS
    <2>2. PICK c, e : c \in Blocks /\ c = i /\ e = buf[order[i]]
      BY OrderFacts
    <2>3. Holds(c, e)'
      <3>1. CASE i = k
        BY <1>0, <1>5, <2>2, <3>1 DEF Holds
      <3>2. CASE i # k
        <4>1. i < k
          BY <2>1, <3>2, OrderFacts DEF TypeOK
        <4>. QED  BY <1>0, <1>5, <2>2, <3>2, <4>1 DEF ProgressOK
      <3>. QED  BY <3>1, <3>2
    <2>. QED  BY <1>1, <2>2, <2>3 DEF Holds
  <1>13. ProgressOK'
    BY <1>1, <1>12 DEF ProgressOK, AfterLog, Copying, Copied, Clearing, Cleared
  <1>. QED  BY <1>4, <1>7, <1>8, <1>10, <1>11, <1>13

(* A block copied from the log to its home, by end_op or by recover. *)
LEMMA CopyStep ==
    ASSUME WalInv, pc \in Copying, k \in DOMAIN order, DevWrite(order[k], platter[k]),
           k' = k + 1, UNCHANGED <<pc, txn>>
    PROVE  WalInv'
  <1>. USE DEF WalInv
  <1>0. PICK b, d : b \in Blocks /\ b = order[k] /\ d = platter[k] /\ DevWrite(b, d)
    BY OrderFacts
  <1>1. order' = order /\ buf' = buf /\ direct' = direct /\ pc' = pc
    BY DEF txn
  <1>2. b \in Homes /\ d \in Vals /\ b \notin Slots /\ b # Header /\ k \in Slots
    BY <1>0, OrderFacts DEF TypeOK
  <1>3. [bno |-> b, data |-> d] \in WriteRecords
    BY <1>2 DEF WriteRecords
  <1>4. /\ queue' \in Seq(WriteRecords) /\ QueueOK' /\ devmode' = devmode
        /\ \A i \in DOMAIN queue' :
             \/ queue'[i] = [bno |-> b, data |-> d]
             \/ i \in DOMAIN queue /\ queue'[i] = queue[i]
        /\ \/ platter' = platter
           \/ platter' = [platter EXCEPT ![b] = d] /\ queue' = <<>>
    BY <1>0, <1>2, <1>3, WriteEffect
  <1>5. Holds(b, d)' /\ \A c \in Blocks : \A e : c # b /\ Holds(c, e) => Holds(c, e)'
    BY <1>0, <1>2, <1>3, WriteEffect
  <1>6. /\ DOMAIN platter' = Blocks
        /\ \A c \in Homes \cup Slots : platter'[c] \in Vals
        /\ FitsLog(platter'[Header])
        /\ \A c \in Blocks : c # b => platter'[c] = platter[c]
    BY <1>0, <1>2, <1>4, PlatterTyped DEF TypeOK
  <1>7. TypeOK'
    BY <1>1, <1>4, <1>6, OrderFacts, BlocksAssumption DEF TypeOK, WriteRecords, FitsLog, Slots
  <1>8. BufOK'
    BY <1>1 DEF BufOK
  <1>9. \A i \in DOMAIN order : platter'[i] = platter[i]
    BY <1>2, <1>6, OrderFacts
  <1>10. PendingOK'
    <2>1. HomeWrites' = HomeWrites
      BY <1>1, <1>9 DEF HomeWrites
    <2>2. [bno |-> b, data |-> d] \in HomeWrites
      BY <1>0 DEF HomeWrites
    <2>3. QueueIn(HomeWrites)
      BY DEF PendingOK
    <2>4. QueueIn(HomeWrites)'
      BY <1>4, <2>1, <2>2, <2>3 DEF QueueIn
    <2>. QED  BY <1>1, <2>4 DEF PendingOK, Quiet, Copying, Copied, Cleared
  <1>11. HeaderOK'
    BY <1>1, <1>2, <1>6, OrderFacts DEF HeaderOK, Copying, Copied, Clearing, Cleared
  <1>12. \A i \in DOMAIN order : i < k + 1 => Holds(order[i], platter[i])'
    <2>1. SUFFICES ASSUME NEW i \in DOMAIN order, i < k + 1
                   PROVE  Holds(order[i], platter[i])'
      OBVIOUS
    <2>2. PICK c, e : c \in Blocks /\ c = order[i] /\ e = platter[i]
      BY OrderFacts
    <2>3. Holds(c, e)'
      <3>1. CASE i = k
        BY <1>0, <1>5, <2>2, <3>1 DEF Holds
      <3>2. CASE i # k
        <4>1. i < k
          BY <2>1, <3>2, OrderFacts DEF TypeOK
        <4>2. c # b
          BY <1>0, <2>2, <3>2 DEF TypeOK, FitsLog
        <4>. QED  BY <1>5, <2>2, <4>1, <4>2 DEF ProgressOK
      <3>. QED  BY <3>1, <3>2
    <2>. QED  BY <1>1, <1>9, <2>2, <2>3 DEF Holds
  <1>13. ProgressOK'
    BY <1>1, <1>9, <1>12 DEF ProgressOK, AfterLog, Copying, Copied, Clearing, Cleared
  <1>. QED  BY <1>4, <1>7, <1>8, <1>10, <1>11, <1>13

(* The header written: the commit record, or the record that frees the log. *)
LEMMA HeaderStep ==
    ASSUME WalInv, NEW h, DevWrite(Header, h), UNCHANGED <<k, txn>>,
           \/ pc = "commit" /\ pc' = "committed" /\ h = order
           \/ pc = "free" /\ pc' = "freed" /\ h = <<>>
           \/ pc = "clear" /\ pc' = "cleared" /\ h = <<>>
    PROVE  WalInv'
  <1>. USE DEF WalInv
  <1>1. order' = order /\ buf' = buf /\ direct' = direct /\ k' = k
    BY DEF txn
  <1>2. FitsLog(h) /\ h \in Seq(Tracked) /\ Header \in Blocks
    BY EmptyFits, OrderFacts DEF TypeOK, FitsLog
  <1>3. [bno |-> Header, data |-> h] \in WriteRecords
    BY <1>2 DEF WriteRecords
  <1>4. queue = <<>>
    BY DEF PendingOK, Quiet
  <1>5. /\ queue' \in Seq(WriteRecords) /\ QueueOK' /\ devmode' = devmode
        /\ \A i \in DOMAIN queue' : queue'[i] = [bno |-> Header, data |-> h]
        /\ \/ platter' = platter
           \/ platter' = [platter EXCEPT ![Header] = h] /\ queue' = <<>>
        /\ Holds(Header, h)'
    <2>1. DOMAIN queue = {}
      BY <1>4
    <2>. QED  BY <1>2, <1>3, <2>1, WriteEffect
  <1>6. /\ DOMAIN platter' = Blocks
        /\ \A c \in Homes \cup Slots : platter'[c] \in Vals
        /\ FitsLog(platter'[Header])
        /\ platter'[Header] \in {platter[Header], h}
        /\ \A c \in Blocks : c # Header => platter'[c] = platter[c]
    BY <1>2, <1>5, PlatterTyped DEF TypeOK
  <1>7. TypeOK'
    BY <1>1, <1>5, <1>6 DEF TypeOK, WriteRecords, FitsLog, Places, EndOpSteps, RecoverSteps
  <1>8. BufOK'
    BY <1>1 DEF BufOK, InMemory, EndOpSteps
  <1>9. PendingOK'
    BY <1>1, <1>5 DEF PendingOK, QueueIn, Quiet, Copying, Copied, Cleared
  <1>10. HeaderOK'
    BY <1>1, <1>5, <1>6 DEF HeaderOK, Holds, Copying, Copied, Clearing, Cleared
  <1>11. \A i \in DOMAIN order : platter'[i] = platter[i] /\ platter'[order[i]] = platter[order[i]]
    BY <1>6, OrderFacts
  <1>12. ProgressOK'
    BY <1>1, <1>11 DEF ProgressOK, AfterLog, Copying, Copied, Clearing, Cleared
  <1>. QED  BY <1>5, <1>7, <1>8, <1>9, <1>10, <1>12

(* Data written in place in ordered mode. *)
LEMMA DirectStep ==
    ASSUME WalInv, NEW b \in Homes \ Tracked, NEW v \in Vals, WriteDirect(b, v)
    PROVE  WalInv'
  <1>. USE DEF WalInv
  <1>1. /\ pc = "op" /\ pc' = pc /\ k' = k /\ order' = order /\ buf' = buf
        /\ direct' = Set(direct, b, v) /\ DevWrite(b, v)
    BY DEF WriteDirect
  <1>2. b \in Blocks /\ b # Header /\ [bno |-> b, data |-> v] \in WriteRecords
    BY OrderFacts DEF WriteRecords
  <1>3. /\ queue' \in Seq(WriteRecords) /\ QueueOK' /\ devmode' = devmode
        /\ \A i \in DOMAIN queue' :
             \/ queue'[i] = [bno |-> b, data |-> v]
             \/ i \in DOMAIN queue /\ queue'[i] = queue[i]
        /\ \/ platter' = platter
           \/ platter' = [platter EXCEPT ![b] = v] /\ queue' = <<>>
    BY <1>1, <1>2, WriteEffect
  <1>4. /\ DOMAIN platter' = Blocks
        /\ \A c \in Homes \cup Slots : platter'[c] \in Vals
        /\ FitsLog(platter'[Header])
        /\ \A c \in Blocks : c # b => platter'[c] = platter[c]
    BY <1>2, <1>3, PlatterTyped DEF TypeOK
  <1>5. /\ DOMAIN direct' = DOMAIN direct \cup {b}
        /\ \A c \in DOMAIN direct' : direct'[c] = IF c = b THEN v ELSE direct[c]
    BY <1>1 DEF Set
  <1>6. TypeOK'
    BY <1>1, <1>3, <1>4, <1>5 DEF TypeOK, WriteRecords, FitsLog
  <1>7. BufOK'
    BY <1>1 DEF BufOK
  <1>8. QueueIn(DirectWrites)'
    BY <1>1, <1>3 DEF PendingOK, QueueIn, DirectWrites
  <1>9. direct' # Empty
    BY <1>5 DEF Empty
  <1>10. PendingOK'
    BY <1>1, <1>8, <1>9 DEF PendingOK, Quiet, Copying, Copied, Cleared
  <1>11. HeaderOK'
    BY <1>1, <1>2, <1>4, OrderFacts DEF HeaderOK, Copying, Copied, Clearing, Cleared
  <1>12. ProgressOK'
    BY <1>1 DEF ProgressOK, AfterLog, Copying, Copied, Clearing, Cleared
  <1>. QED  BY <1>3, <1>6, <1>7, <1>10, <1>11, <1>12

(* A block buffered. *)
LEMMA BufferStep ==
    ASSUME WalInv, NEW b \in Tracked, NEW v \in Vals, Write(b, v)
    PROVE  WalInv'
  <1>. USE DEF WalInv
  <1>1. /\ pc = "op" /\ pc' = pc /\ k' = k /\ direct' = direct
        /\ platter' = platter /\ queue' = queue /\ devmode' = devmode
        /\ b \in DOMAIN buf \/ Len(order) < LogCap
        /\ order' = IF b \in DOMAIN buf THEN order ELSE Append(order, b)
        /\ buf' = Set(buf, b, v)
    BY DEF Write, dev
  <1>2. /\ DOMAIN buf' = DOMAIN buf \cup {b}
        /\ \A c \in DOMAIN buf' : buf'[c] = IF c = b THEN v ELSE buf[c]
    BY <1>1 DEF Set
  <1>3. /\ FitsLog(order')
        /\ \A c \in DOMAIN buf' : \E i \in DOMAIN order' : order'[i] = c
        /\ \A i \in DOMAIN order' : order'[i] \in DOMAIN buf'
    <2>1. /\ \A c \in DOMAIN buf : \E i \in DOMAIN order : order[i] = c
          /\ \A i \in DOMAIN order : order[i] \in DOMAIN buf
      BY <1>1 DEF BufOK, InMemory
    <2>2. CASE b \in DOMAIN buf
      BY <1>1, <1>2, <2>1, <2>2 DEF TypeOK
    <2>3. CASE b \notin DOMAIN buf
      <3>1. /\ order' = Append(order, b) /\ Len(order) < LogCap
            /\ order' \in Seq(Tracked) /\ Len(order') = Len(order) + 1
            /\ DOMAIN order' = 1..(Len(order) + 1) /\ order'[Len(order) + 1] = b
            /\ \A i \in DOMAIN order : order'[i] = order[i]
        BY <1>1, <2>3, OrderFacts
      <3>2. \A i \in DOMAIN order' : i \in DOMAIN order \/ i = Len(order) + 1
        BY <3>1, OrderFacts
      <3>3. Len(order') <= LogCap
        BY <3>1, OrderFacts, BlocksAssumption
      <3>4. \A i, j \in DOMAIN order' : order'[i] = order'[j] => i = j
        BY <2>1, <2>3, <3>1, <3>2 DEF TypeOK, FitsLog
      <3>5. \A i \in DOMAIN order' : order'[i] \in DOMAIN buf'
        BY <1>2, <2>1, <3>1, <3>2
      <3>6. \A c \in DOMAIN buf' : \E i \in DOMAIN order' : order'[i] = c
        BY <1>2, <2>1, <3>1, OrderFacts
      <3>. QED  BY <3>1, <3>3, <3>4, <3>5, <3>6 DEF FitsLog
    <2>. QED  BY <2>2, <2>3
  <1>4. TypeOK'
    BY <1>1, <1>2, <1>3 DEF TypeOK, FitsLog
  <1>5. QueueOK' /\ BufOK'
    BY <1>1, <1>3 DEF QueueOK, BufOK, InMemory
  <1>6. PendingOK'
    BY <1>1 DEF PendingOK, QueueIn, DirectWrites, Quiet, Copying, Copied, Cleared
  <1>7. HeaderOK' /\ ProgressOK'
    BY <1>1 DEF HeaderOK, ProgressOK, AfterLog, Copying, Copied, Clearing, Cleared
  <1>. QED  BY <1>4, <1>5, <1>6, <1>7

(* The program moves on and touches neither the device nor the buffers:    *)
(* at the end of a loop, when a barrier is done, when end_op begins.       *)
LEMMA MoveStep ==
    ASSUME WalInv, UNCHANGED <<dev, txn>>, k' \in {1, k},
           \/ pc = "op" /\ pc' = "data" /\ direct # Empty
           \/ pc = "op" /\ pc' = "log" /\ direct = Empty /\ k' = 1
           \/ pc = "data" /\ pc' = "log" /\ queue = <<>> /\ k' = 1
           \/ pc = "log" /\ pc' = "logged" /\ ~(k <= Len(order))
           \/ pc = "logged" /\ pc' = "commit" /\ queue = <<>>
           \/ pc = "committed" /\ pc' = "checkpoint" /\ queue = <<>> /\ k' = 1
           \/ pc = "checkpoint" /\ pc' = "checked" /\ ~(k <= Len(order))
           \/ pc = "checked" /\ pc' = "free" /\ queue = <<>>
           \/ pc = "replay" /\ pc' = "replayed" /\ ~(k <= Len(order))
           \/ pc = "replayed" /\ pc' = "clear" /\ queue = <<>>
           \/ pc = "cleared" /\ pc' = "closed" /\ queue = <<>>
    PROVE  WalInv'
  <1>. USE DEF WalInv
  <1>1. /\ platter' = platter /\ queue' = queue /\ devmode' = devmode
        /\ order' = order /\ buf' = buf /\ direct' = direct
    BY DEF dev, txn
  <1>2. 1 \in 1..(LogCap + 1)
    BY BlocksAssumption
  <1>3. TypeOK'
    BY <1>1, <1>2 DEF TypeOK, FitsLog, Places, EndOpSteps, RecoverSteps
  <1>4. QueueOK' /\ BufOK'
    BY <1>1 DEF QueueOK, BufOK, InMemory, EndOpSteps
  <1>5. queue = <<>> => DOMAIN queue = {}
    OBVIOUS
  <1>6. PendingOK'
    BY <1>1, <1>5 DEF PendingOK, QueueIn, DirectWrites, LogWrites, HomeWrites, Quiet, Copying, Copied, Cleared
  <1>7. \A b, d : Holds(b, d) /\ queue = <<>> => platter[b] = d
    BY HoldsDrained
  <1>8. HeaderOK'
    BY <1>1, <1>7 DEF HeaderOK, Copying, Copied, Clearing, Cleared
  <1>9. \A i \in DOMAIN order : 1 <= i /\ i <= Len(order) /\ i \in Int
    BY OrderFacts
  <1>10. k \in Int /\ Len(order) \in Int
    BY OrderFacts DEF TypeOK
  <1>11. ~(k <= Len(order)) => \A i \in DOMAIN order : i < k
    BY <1>9, <1>10
  <1>12. \A i \in DOMAIN order : ~(i < 1)
    BY <1>9
  <1>13. \A b, d : Holds(b, d) => Holds(b, d)'
    BY <1>1 DEF Holds
  <1>14. /\ pc' = "log" => \A i \in DOMAIN order' : ~(i < k')
         /\ pc' \in Copying => \A i \in DOMAIN order' : ~(i < k')
    BY <1>1, <1>12 DEF Copying
  <1>15. pc' = "logged" => \A i \in DOMAIN order' : Holds(i, buf[order[i]])'
    BY <1>1, <1>11 DEF ProgressOK, Holds
  <1>16. pc' \in Copied => \A i \in DOMAIN order' : Holds(order[i], platter[i])'
    BY <1>1, <1>11 DEF ProgressOK, Holds, Copied, Copying
  <1>17. pc' \in AfterLog => \A i \in DOMAIN order' : platter'[i] = buf'[order'[i]]
    BY <1>1, <1>7 DEF ProgressOK, AfterLog
  <1>18. pc' \in Clearing \cup Cleared => \A i \in DOMAIN order' : platter'[order'[i]] = platter'[i]
    BY <1>1, <1>7 DEF ProgressOK, Clearing, Cleared, Copied
  <1>19. ProgressOK'
    BY <1>14, <1>15, <1>16, <1>17, <1>18 DEF ProgressOK
  <1>. QED  BY <1>3, <1>4, <1>6, <1>8, <1>19

(* The steps between operations: opening, begin_op, the end of end_op. *)
LEMMA BetweenStep ==
    ASSUME WalInv, (\E m \in {"fifo", "reorder"} : Open(m)) \/ BeginOp \/
           (Freed /\ queue = <<>>)
    PROVE  WalInv'
  <1>. USE DEF WalInv
  <1>1. /\ platter' = platter /\ queue' = queue /\ queue = <<>> /\ k' = k
        /\ devmode' \in {"fifo", "reorder"}
        /\ pc' \in {"idle", "op"}
        /\ direct' = direct \/ direct' = Empty
        /\ platter[Header] = <<>>
    <2>1. CASE \E m \in {"fifo", "reorder"} : Open(m)
      BY <2>1 DEF Open, txn, PendingOK, HeaderOK, Quiet
    <2>2. CASE BeginOp
      BY <2>2 DEF BeginOp, dev, PendingOK, HeaderOK, Quiet, TypeOK
    <2>3. CASE Freed /\ queue = <<>>
      <3>1. pc = "freed" /\ ~Install
        BY <2>3 DEF Freed, Install
      <3>2. platter[Header] = <<>>
        BY <2>3, <3>1, HoldsDrained DEF HeaderOK, Cleared
      <3>. QED  BY <2>3, <3>1, <3>2 DEF Freed, dev, TypeOK
    <2>. QED  BY <2>1, <2>2, <2>3
  <1>2. \/ order' = <<>> /\ buf' = Empty
        \/ order' = order /\ buf' = buf /\ buf = Empty /\ pc' = "idle"
    <2>1. CASE \E m \in {"fifo", "reorder"} : Open(m)
      BY <2>1 DEF Open, txn, BufOK, InMemory, EndOpSteps
    <2>2. CASE BeginOp
      BY <2>2 DEF BeginOp
    <2>3. CASE Freed /\ queue = <<>>
      BY <2>3 DEF Freed, Install
    <2>. QED  BY <2>1, <2>2, <2>3
  <1>3. DOMAIN Empty = {} /\ DOMAIN <<>> = {} /\ DOMAIN queue = {}
    BY <1>1 DEF Empty
  <1>4. FitsLog(order') /\ DOMAIN buf' = {}
    BY <1>2, <1>3, EmptyFits DEF TypeOK
  <1>5. TypeOK'
    BY <1>1, <1>3, <1>4 DEF TypeOK, FitsLog, Places
  <1>6. QueueOK' /\ BufOK'
    BY <1>1, <1>2, <1>3 DEF QueueOK, BufOK, InMemory, EndOpSteps
  <1>7. PendingOK' /\ HeaderOK' /\ ProgressOK'
    BY <1>1, <1>3 DEF PendingOK, HeaderOK, ProgressOK, QueueIn, Quiet, AfterLog, Copying, Copied, Clearing, Cleared
  <1>. QED  BY <1>5, <1>6, <1>7

(* The crash, and the first step of recover. *)
LEMMA CrashStep ==
    ASSUME WalInv, Crash \/ \E m \in {"fifo", "reorder"} : Recover(m)
    PROVE  WalInv'
  <1>. USE DEF WalInv
  <1>1. DOMAIN Empty = {} /\ DOMAIN <<>> = {} /\ 1 \in 1..(LogCap + 1)
    BY BlocksAssumption DEF Empty
  <1>2. CASE Crash
    <2>1. /\ platter' = platter /\ queue' = <<>> /\ devmode' = devmode /\ k' = 1 /\ pc' = "down"
          /\ order' = <<>> /\ buf' = Empty /\ direct' = Empty
      BY <1>2 DEF Crash
    <2>2. TypeOK'
      BY <1>1, <2>1, EmptyFits DEF TypeOK, FitsLog, Places
    <2>3. QueueOK' /\ BufOK'
      BY <1>1, <2>1 DEF QueueOK, BufOK, InMemory, EndOpSteps
    <2>4. PendingOK' /\ HeaderOK' /\ ProgressOK'
      BY <2>1 DEF PendingOK, HeaderOK, ProgressOK, QueueIn, Quiet, AfterLog, Copying, Copied, Clearing, Cleared
    <2>. QED  BY <2>2, <2>3, <2>4
  <1>3. CASE \E m \in {"fifo", "reorder"} : Recover(m)
    <2>1. /\ platter' = platter /\ queue' = queue /\ devmode' \in {"fifo", "reorder"} /\ k' = 1
          /\ pc = "down" /\ pc' = IF platter[Header] = <<>> THEN "closed" ELSE "replay"
          /\ order' = platter[Header] /\ buf' = buf /\ direct' = direct
      BY <1>3 DEF Recover
    <2>2. queue = <<>> /\ buf = Empty
      BY <2>1 DEF PendingOK, Quiet, BufOK, InMemory, EndOpSteps
    <2>3. TypeOK'
      BY <1>1, <2>1, <2>2 DEF TypeOK, FitsLog, Places, RecoverSteps
    <2>4. QueueOK' /\ BufOK'
      BY <1>1, <2>1, <2>2 DEF QueueOK, BufOK, InMemory, EndOpSteps
    <2>5. PendingOK' /\ HeaderOK'
      BY <1>1, <2>1, <2>2 DEF PendingOK, HeaderOK, QueueIn, Quiet, AfterLog, Copying, Copied, Clearing, Cleared
    <2>6. \A i \in DOMAIN order' : ~(i < k')
      BY <2>1 DEF TypeOK, FitsLog
    <2>7. ProgressOK'
      BY <2>1, <2>6 DEF ProgressOK, AfterLog, Copying, Copied, Clearing, Cleared
    <2>. QED  BY <2>3, <2>4, <2>5, <2>7
  <1>. QED  BY <1>2, <1>3

(* While recover copies, no slot has a pending write. *)
LEMMA ReplayReads ==
    ASSUME WalInv, pc = "replay", k \in DOMAIN order
    PROVE  DevRead(k) = platter[k]
  <1>1. \A i \in DOMAIN queue : queue[i].bno # k
    BY OrderFacts DEF WalInv, PendingOK, QueueIn, HomeWrites, Copying
  <1>. QED  BY <1>1 DEF DevRead, Pending

(* A fresh file system satisfies the invariant. *)
LEMMA WalInit == Init => WalInv
  <1>1. SUFFICES ASSUME Init PROVE WalInv
    OBVIOUS
  <1>2. PICK home \in [Homes -> Vals], slot \in [Slots -> Vals] :
          platter = [b \in Blocks |-> IF b \in Homes THEN home[b]
                                      ELSE IF b \in Slots THEN slot[b] ELSE <<>>]
    BY <1>1 DEF Init
  <1>3. DOMAIN platter = Blocks /\ platter[Header] = <<>> /\ \A b \in Homes \cup Slots : platter[b] \in Vals
    BY <1>2, BlocksAssumption DEF Blocks
  <1>4. /\ queue = <<>> /\ devmode = "fifo" /\ pc = "closed" /\ k = 1
        /\ order = <<>> /\ buf = Empty /\ direct = Empty /\ DOMAIN Empty = {} /\ DOMAIN <<>> = {}
    BY <1>1 DEF Init, Empty
  <1>5. 1 \in 1..(LogCap + 1)
    BY BlocksAssumption
  <1>6. TypeOK
    BY <1>3, <1>4, <1>5, EmptyFits DEF TypeOK, Places
  <1>7. QueueOK /\ BufOK /\ PendingOK /\ HeaderOK /\ ProgressOK
    BY <1>3, <1>4 DEF QueueOK, BufOK, PendingOK, HeaderOK, ProgressOK, InMemory, EndOpSteps,
       QueueIn, Quiet, AfterLog, Copying, Copied, Clearing, Cleared
  <1>. QED  BY <1>6, <1>7 DEF WalInv

BarrierSteps ==
    {<<"data", "log">>, <<"logged", "commit">>, <<"committed", "checkpoint">>,
     <<"checked", "free">>, <<"replayed", "clear">>, <<"cleared", "closed">>}

(* A barrier is at work or done. *)
LEMMA BarrierStep ==
    ASSUME WalInv, NEW from, NEW to, Barrier(from, to),
           <<from, to>> \in BarrierSteps
    PROVE  WalInv'
  <1>1. CASE Install /\ UNCHANGED <<pc, k>>
    BY <1>1, DrainStep DEF Barrier, BarrierSteps
  <1>2. CASE queue = <<>> /\ pc' = to /\ k' = 1 /\ UNCHANGED dev
    BY <1>2, MoveStep DEF Barrier, BarrierSteps
  <1>. QED  BY <1>1, <1>2 DEF Barrier

(* Every step keeps the invariant. *)
LEMMA WalStep == WalInv /\ [Next]_vars => WalInv'
  <1>1. SUFFICES ASSUME WalInv, [Next]_vars PROVE WalInv'
    OBVIOUS
  <1>2. CASE UNCHANGED vars
    BY <1>1, <1>2 DEF vars, dev, txn, WalInv, TypeOK, FitsLog, QueueOK, BufOK, PendingOK,
       HeaderOK, ProgressOK, QueueIn, Holds, LogWrites, HomeWrites
  <1>3. CASE \E b \in Meta, v \in Vals : Write(b, v)
    BY <1>1, <1>3, BufferStep DEF Tracked, Homes
  <1>4. CASE \E b \in Data, v \in Vals : WriteData(b, v)
    <2>1. PICK b \in Data, v \in Vals : WriteData(b, v)
      BY <1>4
    <2>2. CASE Mode = "ordered"
      <3>1. b \in Homes \ Tracked
        BY <2>2, BlocksAssumption DEF Homes, Tracked
      <3>. QED  BY <1>1, <2>1, <2>2, <3>1, DirectStep DEF WriteData
    <2>3. CASE Mode = "data"
      BY <1>1, <2>1, <2>3, BufferStep DEF WriteData, Tracked, Homes
    <2>. QED  BY <2>2, <2>3, ModeAssumption
  <1>5. CASE EndOp
    <2>1. direct = Empty <=> DOMAIN direct = {}
      BY <1>1 DEF Empty, WalInv, TypeOK
    <2>. QED  BY <1>1, <1>5, <2>1, MoveStep DEF EndOp
  <1>6. CASE LogBlock
    <2>1. k <= Len(order) => k \in DOMAIN order
      BY <1>1, OrderFacts DEF WalInv, TypeOK
    <2>. QED  BY <1>1, <1>6, <2>1, LogStep, MoveStep DEF LogBlock
  <1>7. CASE Checkpoint
    <2>1. k <= Len(order) => k \in DOMAIN order
      BY <1>1, OrderFacts DEF WalInv, TypeOK
    <2>2. k \in DOMAIN order => buf[order[k]] = platter[k]
      BY <1>1, <1>7 DEF Checkpoint, WalInv, ProgressOK, AfterLog
    <2>. QED  BY <1>1, <1>7, <2>1, <2>2, CopyStep, MoveStep DEF Checkpoint, Copying
  <1>8. CASE Replay
    <2>1. k <= Len(order) => k \in DOMAIN order
      BY <1>1, OrderFacts DEF WalInv, TypeOK
    <2>. QED  BY <1>1, <1>8, <2>1, ReplayReads, CopyStep, MoveStep DEF Replay, Copying
  <1>9. CASE Commit \/ Free \/ Clear
    <2>1. PICK h : /\ DevWrite(Header, h) /\ UNCHANGED <<k, txn>>
                   /\ \/ pc = "commit" /\ pc' = "committed" /\ h = order
                      \/ pc = "free" /\ pc' = "freed" /\ h = <<>>
                      \/ pc = "clear" /\ pc' = "cleared" /\ h = <<>>
      BY <1>9 DEF Commit, Free, Clear
    <2>. QED  BY <1>1, <2>1, HeaderStep
  <1>10. CASE Freed
    <2>1. CASE Install /\ UNCHANGED <<pc, k, txn>>
      BY <1>1, <1>10, <2>1, DrainStep DEF Freed
    <2>2. CASE queue = <<>>
      BY <1>1, <1>10, <2>2, BetweenStep
    <2>. QED  BY <1>10, <2>1, <2>2 DEF Freed
  <1>11. CASE \/ Barrier("data", "log") \/ Logged \/ Barrier("committed", "checkpoint")
              \/ Barrier("checked", "free") \/ Barrier("replayed", "clear") \/ Barrier("cleared", "closed")
    <2>1. \A from, to : <<from, to>> \in BarrierSteps /\ Barrier(from, to) => WalInv'
      BY <1>1, BarrierStep
    <2>2. /\ <<"data", "log">> \in BarrierSteps /\ <<"logged", "commit">> \in BarrierSteps
          /\ <<"committed", "checkpoint">> \in BarrierSteps /\ <<"checked", "free">> \in BarrierSteps
          /\ <<"replayed", "clear">> \in BarrierSteps /\ <<"cleared", "closed">> \in BarrierSteps
      BY DEF BarrierSteps
    <2>. QED  BY <1>11, <2>1, <2>2 DEF Logged
  <1>12. CASE (\E m \in {"fifo", "reorder"} : Open(m)) \/ BeginOp
    BY <1>1, <1>12, BetweenStep
  <1>13. CASE Crash \/ \E m \in {"fifo", "reorder"} : Recover(m)
    BY <1>1, <1>13, CrashStep
  <1>. QED
    BY <1>1, <1>2, <1>3, <1>4, <1>5, <1>6, <1>7, <1>8, <1>9, <1>10, <1>11, <1>12, <1>13
    DEF Next, Barriers

(* The journal never names more blocks than the log has slots, nor the     *)
(* same block twice, in memory or on the disk.                             *)
THEOREM TypeCorrect == Spec => []TypeOK
  <1>1. WalInv => TypeOK
    BY DEF WalInv
  <1>. QED  BY <1>1, WalInit, WalStep, PTL DEF Spec


-----------------------------------------------------------------------------
(* The refinement.                                                         *)

(* The protected blocks on the platter, and under the buffered writes. *)
Plain == [b \in Tracked |-> platter[b]]
Buffered == [b \in Tracked |-> IF b \in DOMAIN buf THEN buf[b] ELSE platter[b]]

(* The mapped state, step by step. *)
RecFacts ==
    /\ InOp \/ pc = "idle" => View = Buffered
    /\ pc \notin InMemory => Buffered = Plain
    /\ platter[Header] = <<>> => Recovered = Plain
    /\ pc \in AfterLog /\ platter[Header] = order => Recovered = Buffered
    /\ pc \in Clearing \cup Cleared => Recovered = Plain
    /\ pc \in {"free", "freed"} => Buffered = Plain

(* What the invariant says of the mapped state. *)
LEMMA Mapped == WalInv => RecFacts
  <1>1. SUFFICES ASSUME WalInv PROVE RecFacts
    OBVIOUS
  <1>. USE <1>1 DEF WalInv
  <1>2. InOp \/ pc = "idle" => View = Buffered
    <2>1. SUFFICES ASSUME InOp \/ pc = "idle", NEW b \in Tracked, b \notin DOMAIN buf
                   PROVE  DevRead(b) = platter[b]
      BY DEF View, Buffered, Read
    <2>2. pc \in InMemory \/ pc = "idle"
      BY <2>1 DEF InOp, InMemory
    <2>3. ASSUME NEW i \in DOMAIN queue PROVE queue[i].bno # b
      <3>1. CASE pc \in {"op", "data"}
        BY <2>1, <3>1 DEF PendingOK, QueueIn, DirectWrites
      <3>2. CASE pc \in {"log", "logged"}
        BY <2>1, <3>2, OrderFacts DEF PendingOK, QueueIn, LogWrites
      <3>3. CASE pc \in {"checkpoint", "checked"}
        BY <2>1, <3>3 DEF PendingOK, QueueIn, HomeWrites, Copying, Copied, BufOK, InMemory, EndOpSteps
      <3>4. CASE pc \in {"committed", "freed"}
        BY <2>1, <3>4, OrderFacts DEF PendingOK, QueueIn, Cleared
      <3>5. CASE pc \in {"idle", "commit", "free"}
        BY <3>5 DEF PendingOK, Quiet
      <3>. QED  BY <2>2, <3>1, <3>2, <3>3, <3>4, <3>5 DEF InMemory, EndOpSteps
    <2>. QED  BY <2>3 DEF DevRead, Pending
  <1>3. pc \notin InMemory => Buffered = Plain
    BY DEF BufOK, Buffered, Plain, Empty
  <1>4. platter[Header] = <<>> => Recovered = Plain
    BY DEF Recovered, Plain
  <1>5. pc \in AfterLog /\ platter[Header] = order => Recovered = Buffered
    <2>1. SUFFICES ASSUME pc \in AfterLog, platter[Header] = order, NEW b \in Tracked
                   PROVE  (IF \E i \in DOMAIN order : order[i] = b
                           THEN platter[CHOOSE i \in DOMAIN order : order[i] = b] ELSE platter[b])
                          = IF b \in DOMAIN buf THEN buf[b] ELSE platter[b]
      BY DEF Recovered, Buffered
    <2>2. /\ b \in DOMAIN buf <=> \E i \in DOMAIN order : order[i] = b
          /\ \A i \in DOMAIN order : platter[i] = buf[order[i]]
      BY <2>1 DEF BufOK, ProgressOK, AfterLog, InMemory, EndOpSteps
    <2>. QED  BY <2>2
  <1>6. pc \in Clearing \cup Cleared => Recovered = Plain
    <2>1. SUFFICES ASSUME pc \in Clearing \cup Cleared, platter[Header] = order, NEW b \in Tracked
                   PROVE  (IF \E i \in DOMAIN order : order[i] = b
                           THEN platter[CHOOSE i \in DOMAIN order : order[i] = b] ELSE platter[b])
                          = platter[b]
      BY <1>4 DEF Recovered, Plain, HeaderOK
    <2>2. \A i \in DOMAIN order : platter[order[i]] = platter[i]
      BY <2>1 DEF ProgressOK
    <2>. QED  BY <2>2
  <1>7. pc \in {"free", "freed"} => Buffered = Plain
    <2>1. SUFFICES ASSUME pc \in {"free", "freed"}, NEW b \in Tracked, b \in DOMAIN buf
                   PROVE  buf[b] = platter[b]
      BY DEF Buffered, Plain
    <2>2. PICK i \in DOMAIN order : order[i] = b
      BY <2>1 DEF BufOK, InMemory, EndOpSteps
    <2>. QED  BY <2>1, <2>2 DEF ProgressOK, AfterLog, Clearing, Cleared
  <1>. QED  BY <1>2, <1>3, <1>4, <1>5, <1>6, <1>7 DEF RecFacts

(* A write or an install changes one block and so what depends on it. *)
LEMMA OneBlock ==
    ASSUME WalInv, NEW b \in Blocks, NEW d,
           platter' = platter \/ platter' = [platter EXCEPT ![b] = d]
    PROVE  /\ b \notin Tracked => Plain' = Plain
           /\ buf' = buf /\ b \in Tracked => (b \in DOMAIN buf => Buffered' = Buffered)
           /\ buf' = buf /\ b \notin Tracked => Buffered' = Buffered
           /\ b # Header => platter'[Header] = platter[Header]
           /\ platter'[Header] = platter[Header] \/ (b = Header /\ platter'[Header] = d)
  <1>1. \A c \in Blocks : c # b => platter'[c] = platter[c]
    BY DEF WalInv, TypeOK
  <1>2. Tracked \subseteq Blocks /\ Header \in Blocks /\ Header \notin Tracked
    BY OrderFacts DEF WalInv
  <1>3. b \notin Tracked => \A c \in Tracked : platter'[c] = platter[c]
    BY <1>1, <1>2
  <1>4. platter'[Header] = platter[Header] \/ (b = Header /\ platter'[Header] = d)
    BY <1>1, <1>2 DEF WalInv, TypeOK
  <1>5. b \notin Tracked => Plain' = Plain
    BY <1>3 DEF Plain, Tracked
  <1>6. buf' = buf /\ b \notin Tracked => Buffered' = Buffered
    BY <1>3 DEF Buffered, Tracked
  <1>7. buf' = buf /\ b \in DOMAIN buf => Buffered' = Buffered
    <2>1. SUFFICES ASSUME buf' = buf, b \in DOMAIN buf, NEW c \in Tracked
                   PROVE  (IF c \in DOMAIN buf THEN buf[c] ELSE platter'[c])
                          = IF c \in DOMAIN buf THEN buf[c] ELSE platter[c]
      BY DEF Buffered, Tracked
    <2>. QED  BY <1>1, <1>2, <2>1
  <1>. QED  BY <1>1, <1>2, <1>4, <1>5, <1>6, <1>7

(* While recover copies, what it will have restored does not change. *)
LEMMA ReplaySame ==
    ASSUME WalInv, pc \in {"replay", "replayed"}, NEW i \in DOMAIN order, NEW d,
           platter' = platter \/ platter' = [platter EXCEPT ![order[i]] = d]
    PROVE  Recovered' = Recovered
  <1>1. \A c \in Blocks : c # order[i] => platter'[c] = platter[c]
    BY DEF WalInv, TypeOK
  <1>2. platter[Header] = order /\ platter'[Header] = order /\ \A j \in DOMAIN order : platter'[j] = platter[j]
    BY <1>1, OrderFacts DEF WalInv, HeaderOK, Copying, Copied
  <1>3. SUFFICES ASSUME NEW b \in Tracked
                 PROVE  (IF \E j \in DOMAIN order : order[j] = b
                         THEN platter'[CHOOSE j \in DOMAIN order : order[j] = b] ELSE platter'[b])
                        = IF \E j \in DOMAIN order : order[j] = b
                          THEN platter[CHOOSE j \in DOMAIN order : order[j] = b] ELSE platter[b]
    BY <1>2 DEF Recovered, Tracked
  <1>4. CASE \E j \in DOMAIN order : order[j] = b
    BY <1>2, <1>4
  <1>5. CASE ~ \E j \in DOMAIN order : order[j] = b
    BY <1>1, <1>5, OrderFacts DEF WalInv
  <1>. QED  BY <1>4, <1>5

(* The mapped state before the commit record is written, when it may be on *)
(* the platter, and afterwards; and outside an operation.                  *)
PhaseFacts ==
    /\ pc \in {"op", "data", "log", "logged", "commit"} =>
         InOp /\ Recovered = Plain /\ View = Buffered /\ platter[Header] = <<>>
    /\ pc = "committed" =>
         /\ InOp /\ View = Buffered
         /\ platter[Header] = <<>> => Recovered = Plain
         /\ platter[Header] = order => Recovered = Buffered
         /\ platter[Header] \in {<<>>, order}
    /\ pc \in {"checkpoint", "checked", "free", "freed"} =>
         InOp /\ Recovered = Buffered /\ View = Buffered
    /\ pc \in {"closed", "idle"} =>
         /\ ~InOp /\ View = Plain /\ Recovered = Plain
         /\ platter[Header] = <<>> /\ Buffered = Plain
    /\ pc \in {"down", "replay", "replayed", "clear", "cleared"} => ~InOp /\ View = Recovered

(* The invariant fixes the mapped state in each phase. *)
LEMMA Phases == WalInv => PhaseFacts
  <1>. SUFFICES ASSUME WalInv PROVE PhaseFacts
    OBVIOUS
  <1>1. RecFacts
    BY Mapped
  <1>2. InOp <=> pc \in InMemory
    BY DEF InOp, InMemory
  <1>3. CASE pc \in {"op", "data", "log", "logged", "commit"}
    BY <1>1, <1>2, <1>3 DEF PhaseFacts, RecFacts, InMemory, EndOpSteps, WalInv, HeaderOK
  <1>4. CASE pc = "committed"
    BY <1>1, <1>2, <1>4 DEF PhaseFacts, RecFacts, InMemory, EndOpSteps, WalInv, HeaderOK, AfterLog
  <1>5. CASE pc \in {"checkpoint", "checked"}
    BY <1>1, <1>2, <1>5 DEF PhaseFacts, RecFacts, InMemory, EndOpSteps, WalInv, HeaderOK, AfterLog, Copying, Copied
  <1>6. CASE pc \in {"free", "freed"}
    BY <1>1, <1>2, <1>6 DEF PhaseFacts, RecFacts, InMemory, EndOpSteps, Clearing, Cleared
  <1>7. CASE pc \in {"closed", "idle"}
    BY <1>1, <1>2, <1>7 DEF PhaseFacts, RecFacts, InMemory, EndOpSteps, WalInv, HeaderOK, View
  <1>8. CASE pc \in {"down", "replay", "replayed", "clear", "cleared"}
    BY <1>2, <1>8 DEF PhaseFacts, InMemory, EndOpSteps, View
  <1>. QED
    BY <1>3, <1>4, <1>5, <1>6, <1>7, <1>8 DEF PhaseFacts, WalInv, TypeOK, Places, EndOpSteps, RecoverSteps

(* Steps that the abstract disk does not see. *)
Stutter == Recovered' = Recovered /\ View' = View /\ InOp' = InOp

(* A device write by end_op before the commit, to a log slot or, in        *)
(* ordered mode, to a data block, is not seen.                             *)
LEMMA QuietWrite ==
    ASSUME WalInv, WalInv', NEW b \in Blocks \ (Tracked \cup {Header}), NEW d,
           platter' = platter \/ platter' = [platter EXCEPT ![b] = d],
           buf' = buf, pc \in {"op", "data", "log", "logged"}, pc' = pc
    PROVE  Stutter
  <1>1. PhaseFacts /\ PhaseFacts'
    BY Phases, PTL
  <1>2. Plain' = Plain /\ Buffered' = Buffered
    BY OneBlock
  <1>. QED  BY <1>1, <1>2 DEF PhaseFacts, Stutter, InOp

(* A write of the header by end_op is the commit or is not seen. *)
LEMMA HeaderWrite ==
    ASSUME WalInv, WalInv', NEW d, buf' = buf, pc' = "committed" => d = order,
           platter' = platter \/ platter' = [platter EXCEPT ![Header] = d],
           <<pc, pc'>> \in {<<"commit", "committed">>, <<"committed", "committed">>,
                            <<"free", "freed">>, <<"freed", "freed">>}
    PROVE  Stutter \/ Disk!Commit
  <1>1. PhaseFacts /\ PhaseFacts'
    BY Phases, PTL
  <1>2. Plain' = Plain /\ Buffered' = Buffered
    BY OneBlock, OrderFacts DEF WalInv
  <1>3. CASE pc' = "freed"
    BY <1>1, <1>2, <1>3 DEF PhaseFacts, Stutter, InOp, EndOpSteps
  <1>4. CASE pc' = "committed"
    <2>1. InOp /\ InOp' /\ View' = View /\ Recovered \in {Plain, Buffered} /\ View = Buffered
      BY <1>1, <1>2, <1>4 DEF PhaseFacts
    <2>2. Recovered' \in {Plain, Buffered}
      BY <1>1, <1>2, <1>4 DEF PhaseFacts
    <2>3. CASE Recovered' = Buffered
      BY <2>1, <2>3 DEF Disk!Commit
    <2>4. CASE Recovered' # Buffered
      <3>1. platter'[Header] = <<>>
        BY <1>1, <1>2, <1>4, <2>4 DEF PhaseFacts
      <3>2. platter'[Header] \in {platter[Header], order}
        BY <1>4, OneBlock, OrderFacts DEF WalInv
      <3>3. platter[Header] = <<>>
        BY <1>1, <1>4, <3>1, <3>2 DEF PhaseFacts
      <3>. QED  BY <1>1, <1>2, <2>1, <2>2, <2>4, <3>3 DEF PhaseFacts, Stutter
    <2>. QED  BY <2>3, <2>4
  <1>. QED  BY <1>3, <1>4

(* A write of a block to its home is not seen, in end_op or in recover. *)
LEMMA HomeWrite ==
    ASSUME WalInv, WalInv', NEW i \in DOMAIN order, NEW d, buf' = buf,
           platter' = platter \/ platter' = [platter EXCEPT ![order[i]] = d],
           pc \in Copying \cup Copied, pc' = pc
    PROVE  Stutter
  <1>1. PhaseFacts /\ PhaseFacts'
    BY Phases, PTL
  <1>2. CASE pc \in {"checkpoint", "checked"}
    <2>1. order[i] \in DOMAIN buf /\ order[i] \in Tracked /\ order[i] \in Blocks
      BY <1>2, OrderFacts DEF WalInv, BufOK, InMemory, EndOpSteps
    <2>2. Buffered' = Buffered
      BY <2>1, OneBlock
    <2>. QED  BY <1>1, <1>2, <2>2 DEF PhaseFacts, Stutter, InOp
  <1>3. CASE pc \in {"replay", "replayed"}
    BY <1>1, <1>3, ReplaySame DEF PhaseFacts, Stutter, InOp
  <1>. QED  BY <1>2, <1>3 DEF Copying, Copied

(* Nor is the clearing of the header by recover. *)
LEMMA ClearWrite ==
    ASSUME WalInv, WalInv', NEW d,
           platter' = platter \/ platter' = [platter EXCEPT ![Header] = d],
           pc \in {"clear", "cleared"}, pc' = "cleared"
    PROVE  Stutter
  <1>1. PhaseFacts /\ PhaseFacts' /\ RecFacts /\ RecFacts'
    BY Phases, Mapped, PTL
  <1>2. Plain' = Plain
    BY OneBlock, OrderFacts DEF WalInv
  <1>. QED  BY <1>1, <1>2 DEF PhaseFacts, RecFacts, Stutter, Clearing, Cleared, InOp, EndOpSteps

(* An install by a barrier. *)
LEMMA DrainSeen ==
    ASSUME WalInv, WalInv', Install, UNCHANGED <<pc, k, txn>>,
           pc \in {"data", "logged", "committed", "checked", "freed", "replayed", "cleared"}
    PROVE  Stutter \/ Disk!Commit
  <1>1. PICK i \in DOMAIN queue : platter' = [platter EXCEPT ![queue[i].bno] = queue[i].data]
    BY InstallEffect DEF WalInv
  <1>2. PICK b, d : b = queue[i].bno /\ d = queue[i].data
    OBVIOUS
  <1>3. /\ pc = "data" => b \in Homes \ Tracked
        /\ pc = "logged" => b \in DOMAIN order
        /\ pc \in Copied => \E j \in DOMAIN order : b = order[j]
        /\ pc = "committed" => b = Header /\ d = order
        /\ pc \in Cleared => b = Header
    BY <1>2, Queued
  <1>4. platter' = [platter EXCEPT ![b] = d] /\ pc' = pc /\ buf' = buf
    BY <1>1, <1>2 DEF txn
  <1>5. CASE pc \in {"data", "logged"}
    <2>1. b \in Blocks \ (Tracked \cup {Header})
      BY <1>3, <1>5, OrderFacts DEF WalInv
    <2>. QED  BY <1>4, <1>5, <2>1, QuietWrite
  <1>6. CASE pc \in {"committed", "freed"}
    BY <1>3, <1>4, <1>6, HeaderWrite DEF Cleared
  <1>7. CASE pc \in Copied
    BY <1>3, <1>4, <1>7, HomeWrite
  <1>8. CASE pc = "cleared"
    BY <1>3, <1>4, <1>8, ClearWrite DEF Cleared
  <1>. QED  BY <1>5, <1>6, <1>7, <1>8 DEF Copied

(* The program moves on and touches nothing else. *)
LEMMA MoveSeen ==
    ASSUME WalInv, WalInv', UNCHANGED <<dev, txn>>, InOp' = InOp,
           pc # "idle", pc' # "idle"
    PROVE  Stutter
  <1>1. Recovered' = Recovered
    BY DEF dev, Recovered, Tracked
  <1>2. \A b : Read(b)' = Read(b)
    BY DEF dev, txn, Read, DevRead, Pending
  <1>3. InOp => View' = View
    BY <1>2 DEF View, Tracked
  <1>4. ~InOp => View' = View
    BY <1>1 DEF View
  <1>. QED  BY <1>1, <1>3, <1>4 DEF Stutter

(* A buffered write is a write of the abstract disk. *)
LEMMA BufferSeen ==
    ASSUME WalInv, WalInv', NEW b \in Tracked, NEW v \in Vals, Write(b, v)
    PROVE  Disk!Write(b, v)
  <1>1. PhaseFacts /\ PhaseFacts'
    BY Phases, PTL
  <1>2. pc = "op" /\ pc' = "op" /\ platter' = platter /\ buf' = Set(buf, b, v)
    BY DEF Write, dev
  <1>3. Plain' = Plain
    BY <1>2 DEF Plain, Tracked
  <1>4. Buffered' = [Buffered EXCEPT ![b] = v]
    BY <1>2 DEF Buffered, Set, Tracked
  <1>. QED  BY <1>1, <1>2, <1>3, <1>4 DEF PhaseFacts, Disk!Write, InOp

(* Open, begin_op and the return of end_op. *)
LEMMA BetweenSeen ==
    ASSUME WalInv, WalInv', (\E m \in {"fifo", "reorder"} : Open(m)) \/ BeginOp \/
           (Freed /\ queue = <<>>)
    PROVE  Stutter \/ Disk!BeginOp \/ Disk!EndOp
  <1>1. PhaseFacts /\ PhaseFacts' /\ RecFacts /\ RecFacts'
    BY Phases, Mapped, PTL
  <1>2. CASE \E m \in {"fifo", "reorder"} : Open(m)
    <2>1. pc = "closed" /\ pc' = "idle" /\ platter' = platter
      BY <1>2 DEF Open
    <2>2. Plain' = Plain
      BY <2>1 DEF Plain, Tracked
    <2>. QED  BY <1>1, <2>1, <2>2 DEF PhaseFacts, Stutter, InOp, EndOpSteps
  <1>3. CASE BeginOp
    <2>1. pc = "idle" /\ pc' = "op" /\ platter' = platter /\ buf' = Empty
      BY <1>3 DEF BeginOp, dev
    <2>2. Plain' = Plain /\ Buffered' = Plain
      BY <2>1 DEF Plain, Buffered, Tracked, Empty
    <2>. QED  BY <1>1, <2>1, <2>2 DEF PhaseFacts, Disk!BeginOp, InOp, EndOpSteps
  <1>4. CASE Freed /\ queue = <<>>
    <2>1. pc = "freed" /\ pc' = "idle" /\ platter' = platter
      BY <1>4 DEF Freed, Install, dev
    <2>2. Plain' = Plain
      BY <2>1 DEF Plain, Tracked
    <2>3. Buffered = Plain
      BY <1>1, <2>1 DEF RecFacts
    <2>. QED  BY <1>1, <2>1, <2>2, <2>3 DEF PhaseFacts, Disk!EndOp, InOp, EndOpSteps
  <1>. QED  BY <1>2, <1>3, <1>4

(* A barrier. *)
LEMMA BarrierSeen ==
    ASSUME WalInv, WalInv', NEW from, NEW to, Barrier(from, to), <<from, to>> \in BarrierSteps
    PROVE  Stutter \/ Disk!Commit
  <1>1. CASE Install /\ UNCHANGED <<pc, k>>
    BY <1>1, DrainSeen DEF Barrier, BarrierSteps
  <1>2. CASE queue = <<>> /\ pc' = to /\ k' = 1 /\ UNCHANGED dev
    <2>1. UNCHANGED <<dev, txn>> /\ InOp' = InOp /\ pc # "idle" /\ pc' # "idle"
      BY <1>2 DEF Barrier, BarrierSteps, InOp, EndOpSteps
    <2>. QED  BY <2>1, MoveSeen
  <1>. QED  BY <1>1, <1>2 DEF Barrier

(* A write to the device touches one block of the platter or none. *)
LEMMA Touches ==
    ASSUME NEW b, NEW d, DevWrite(b, d)
    PROVE  platter' = platter \/ platter' = [platter EXCEPT ![b] = d]
  BY DEF DevWrite

(* Every step of the log is a step of the abstract disk or is not seen. *)
LEMMA AtomicStep == WalInv /\ WalInv' /\ [Next]_vars => [Disk!Next]_Disk!diskVars
  <1>1. SUFFICES ASSUME WalInv, WalInv', [Next]_vars
                 PROVE  Stutter \/ Disk!Next
    BY DEF Disk!diskVars, Stutter
  <1>. USE <1>1
  <1>2. CASE UNCHANGED vars
    <2>1. Recovered' = Recovered /\ InOp' = InOp
      BY <1>2 DEF vars, dev, Recovered, Tracked, InOp
    <2>2. \A b : Read(b)' = Read(b)
      BY <1>2 DEF vars, dev, txn, Read, DevRead, Pending
    <2>. QED  BY <1>2, <2>1, <2>2 DEF vars, View, Stutter, Tracked
  <1>3. CASE \E b \in Meta, v \in Vals : Write(b, v)
    BY <1>3, BufferSeen DEF Disk!Next, Tracked, Homes
  <1>4. CASE \E b \in Data, v \in Vals : WriteData(b, v)
    <2>1. PICK b \in Data, v \in Vals : WriteData(b, v)
      BY <1>4
    <2>2. CASE Mode = "ordered"
      <3>1. b \in Blocks \ (Tracked \cup {Header})
        BY <2>2, BlocksAssumption DEF Homes, Tracked, Blocks
      <3>2. DevWrite(b, v) /\ pc = "op" /\ pc' = pc /\ buf' = buf
        BY <2>1, <2>2 DEF WriteData, WriteDirect
      <3>. QED  BY <3>1, <3>2, Touches, QuietWrite
    <2>3. CASE Mode = "data"
      BY <2>1, <2>3, BufferSeen DEF WriteData, Tracked, Homes, Disk!Next
    <2>. QED  BY <2>2, <2>3, ModeAssumption
  <1>5. CASE EndOp
    BY <1>5, MoveSeen DEF EndOp, InOp, EndOpSteps
  <1>6. CASE LogBlock \/ Checkpoint \/ Replay
    <2>1. k <= Len(order) => k \in DOMAIN order
      BY OrderFacts DEF WalInv, TypeOK
    <2>2. CASE k <= Len(order) /\ LogBlock
      <3>1. k \in Blocks \ (Tracked \cup {Header})
        BY <2>1, <2>2, OrderFacts DEF WalInv
      <3>2. PICK d : DevWrite(k, d) /\ pc = "log" /\ pc' = pc /\ buf' = buf
        BY <2>2 DEF LogBlock, txn
      <3>. QED  BY <3>1, <3>2, Touches, QuietWrite
    <2>3. CASE k <= Len(order) /\ (Checkpoint \/ Replay)
      <3>1. PICK d : DevWrite(order[k], d) /\ pc \in Copying /\ pc' = pc /\ buf' = buf
        BY <2>3 DEF Checkpoint, Replay, Copying, txn
      <3>. QED  BY <2>1, <2>3, <3>1, Touches, HomeWrite
    <2>4. CASE ~(k <= Len(order))
      <3>1. UNCHANGED <<dev, txn>> /\ InOp' = InOp /\ pc # "idle" /\ pc' # "idle"
        BY <1>6, <2>4 DEF LogBlock, Checkpoint, Replay, InOp, EndOpSteps
      <3>. QED  BY <3>1, MoveSeen
    <2>. QED  BY <1>6, <2>2, <2>3, <2>4
  <1>7. CASE Commit \/ Free
    <2>1. PICK d : /\ DevWrite(Header, d) /\ buf' = buf
                   /\ (pc = "commit" /\ pc' = "committed" /\ d = order) \/ (pc = "free" /\ pc' = "freed")
      BY <1>7 DEF Commit, Free, txn
    <2>. QED  BY <2>1, Touches, HeaderWrite DEF Disk!Next
  <1>8. CASE Clear
    BY <1>8, Touches, ClearWrite DEF Clear
  <1>9. CASE Freed
    <2>1. CASE Install /\ UNCHANGED <<pc, k, txn>>
      BY <1>9, <2>1, DrainSeen DEF Freed, Disk!Next
    <2>2. CASE queue = <<>>
      BY <1>9, <2>2, BetweenSeen DEF Disk!Next
    <2>. QED  BY <1>9, <2>1, <2>2 DEF Freed
  <1>10. CASE \/ Barrier("data", "log") \/ Logged \/ Barrier("committed", "checkpoint")
              \/ Barrier("checked", "free") \/ Barrier("replayed", "clear") \/ Barrier("cleared", "closed")
    <2>1. \A from, to : <<from, to>> \in BarrierSteps /\ Barrier(from, to) => Stutter \/ Disk!Commit
      BY BarrierSeen
    <2>2. /\ <<"data", "log">> \in BarrierSteps /\ <<"logged", "commit">> \in BarrierSteps
          /\ <<"committed", "checkpoint">> \in BarrierSteps /\ <<"checked", "free">> \in BarrierSteps
          /\ <<"replayed", "clear">> \in BarrierSteps /\ <<"cleared", "closed">> \in BarrierSteps
      BY DEF BarrierSteps
    <2>. QED  BY <1>10, <2>1, <2>2 DEF Logged, Disk!Next
  <1>11. CASE (\E m \in {"fifo", "reorder"} : Open(m)) \/ BeginOp
    BY <1>11, BetweenSeen DEF Disk!Next
  <1>12. CASE Crash \/ \E m \in {"fifo", "reorder"} : Recover(m)
    <2>1. platter' = platter /\ (pc' \in {"down", "closed", "replay"})
      BY <1>12 DEF Crash, Recover
    <2>2. Recovered' = Recovered
      BY <2>1 DEF Recovered, Tracked
    <2>3. InOp' = FALSE /\ View' = Recovered'
      BY <2>1 DEF InOp, EndOpSteps, View
    <2>. QED  BY <2>2, <2>3 DEF Disk!Next, Disk!Crash
  <1>. QED
    BY <1>1, <1>2, <1>3, <1>4, <1>5, <1>6, <1>7, <1>8, <1>9, <1>10, <1>11, <1>12
    DEF Next, Barriers

(* A fresh file system is an initial state of the abstract disk. *)
LEMMA AtomicInit == Init => Disk!Init
  <1>1. SUFFICES ASSUME Init PROVE Disk!Init
    OBVIOUS
  <1>2. WalInv /\ PhaseFacts /\ pc = "closed"
    BY <1>1, WalInit, Phases DEF Init
  <1>3. Plain \in [Tracked -> Vals]
    BY <1>2, OrderFacts DEF Plain, WalInv, TypeOK
  <1>. QED  BY <1>2, <1>3 DEF PhaseFacts, Disk!Init, InOp, EndOpSteps

(* The write-ahead log implements the atomic disk: whatever the number of  *)
(* blocks and log slots, on either kind of device and in either mode, a    *)
(* crash at any step of an operation, of end_op or of recover leaves every *)
(* transaction whole or absent, and none is lost once end_op returned.     *)
THEOREM Refinement == Spec => ImplementsAtomicDisk
  <1>. QED
    BY WalInit, WalStep, AtomicInit, AtomicStep, PTL DEF Spec, ImplementsAtomicDisk, Disk!Spec

-----------------------------------------------------------------------------
(* Ordered mode.                                                           *)

(* What write_data wrote is what the device reads, then what it holds. *)
DirectInv ==
    /\ pc \in {"op", "data"} => \A b \in DOMAIN direct : Holds(b, direct[b])
    /\ DataBeforeJournal

(* From the log writes on, no step touches a block written in place. *)
LEMMA DirectUntouched ==
    ASSUME WalInv, DirectInv, pc \in EndOpSteps \ {"data"}, pc' \in EndOpSteps \ {"data"}, direct' = direct,
           NEW c \in Blocks \ (Homes \ Tracked), NEW d,
           platter' = platter \/ platter' = [platter EXCEPT ![c] = d]
    PROVE  DirectInv'
  <1>1. \A b \in DOMAIN direct : b \in Blocks /\ b # c
    BY OrderFacts DEF WalInv, TypeOK
  <1>2. \A b \in DOMAIN direct : platter'[b] = platter[b]
    BY <1>1 DEF WalInv, TypeOK
  <1>. QED  BY <1>2 DEF DirectInv, DataBeforeJournal, EndOpSteps

(* Every step keeps it. *)
LEMMA DirectStepInv == WalInv /\ DirectInv /\ [Next]_vars => DirectInv'
  <1>1. SUFFICES ASSUME WalInv, DirectInv, [Next]_vars PROVE DirectInv'
    OBVIOUS
  <1>. USE <1>1
  <1>2. CASE pc' \notin {"op"} \cup EndOpSteps
    BY <1>2 DEF DirectInv, DataBeforeJournal, EndOpSteps
  <1>3. CASE UNCHANGED <<dev, pc, direct>>
    BY <1>3 DEF dev, DirectInv, DataBeforeJournal, Holds
  <1>4. CASE BeginOp
    BY <1>4 DEF BeginOp, DirectInv, DataBeforeJournal, EndOpSteps, Empty
  <1>5. CASE \E b \in Data, v \in Vals : Mode = "ordered" /\ WriteDirect(b, v)
    <2>1. PICK b \in Data, v \in Vals : Mode = "ordered" /\ WriteDirect(b, v)
      BY <1>5
    <2>2. b \in Blocks /\ [bno |-> b, data |-> v] \in WriteRecords
      BY DEF Blocks, Homes, WriteRecords
    <2>3. /\ pc = "op" /\ pc' = "op" /\ Holds(b, v)' /\ direct' = Set(direct, b, v)
          /\ \A c \in Blocks : \A e : c # b /\ Holds(c, e) => Holds(c, e)'
      BY <2>1, <2>2, WriteEffect DEF WriteDirect, WalInv
    <2>4. DOMAIN direct' = DOMAIN direct \cup {b} /\ DOMAIN direct \subseteq Blocks
      BY <2>3, OrderFacts DEF Set, WalInv, TypeOK
    <2>5. ASSUME NEW c \in DOMAIN direct' PROVE Holds(c, direct[c])'
      <3>1. CASE c = b
        BY <2>3, <3>1 DEF Set, Holds
      <3>2. CASE c # b
        <4>1. c \in DOMAIN direct /\ direct'[c] = direct[c] /\ c \in Blocks
          BY <2>3, <2>4, <3>2 DEF Set
        <4>2. PICK e : e = direct[c]
          OBVIOUS
        <4>3. Holds(c, e)'
          BY <2>3, <3>2, <4>1, <4>2 DEF DirectInv
        <4>. QED  BY <4>1, <4>2, <4>3 DEF Holds
      <3>. QED  BY <3>1, <3>2
    <2>. QED  BY <2>3, <2>5 DEF DirectInv, DataBeforeJournal, EndOpSteps
  <1>6. CASE EndOp
    <2>1. pc = "op" /\ pc' = IF DOMAIN direct # {} THEN "data" ELSE "log"
      BY <1>6 DEF EndOp
    <2>2. platter' = platter /\ queue' = queue /\ direct' = direct
      BY <1>6 DEF EndOp, dev, txn
    <2>. QED  BY <2>1, <2>2 DEF DirectInv, DataBeforeJournal, EndOpSteps, Holds
  <1>7. CASE Barrier("data", "log")
    <2>1. pc = "data" /\ direct' = direct
      BY <1>7 DEF Barrier, txn
    <2>2. CASE Install /\ UNCHANGED <<pc, k>>
      <3>1. \A b \in Blocks : \A e : Holds(b, e) => Holds(b, e)'
        BY <2>2, InstallEffect DEF WalInv
      <3>2. \A b \in DOMAIN direct : b \in Blocks
        BY OrderFacts DEF WalInv, TypeOK
      <3>3. ASSUME NEW b \in DOMAIN direct PROVE Holds(b, direct[b])'
        <4>1. PICK e : e = direct[b]
          OBVIOUS
        <4>2. Holds(b, e)'
          BY <2>1, <3>1, <3>2, <4>1 DEF DirectInv
        <4>. QED  BY <2>1, <4>1, <4>2 DEF Holds
      <3>. QED  BY <2>1, <2>2, <3>3 DEF DirectInv, DataBeforeJournal, EndOpSteps
    <2>3. CASE queue = <<>> /\ pc' = "log" /\ UNCHANGED dev
      <3>1. \A b \in DOMAIN direct : platter[b] = direct[b]
        BY <2>1, <2>3, HoldsDrained DEF DirectInv
      <3>. QED  BY <2>1, <2>3, <3>1 DEF DirectInv, DataBeforeJournal, EndOpSteps, dev
    <2>. QED  BY <1>7, <2>2, <2>3 DEF Barrier
  <1>8. CASE LogBlock \/ Commit \/ Checkpoint \/ Free
    <2>1. pc \in EndOpSteps \ {"data"} /\ pc' \in EndOpSteps \ {"data"} /\ direct' = direct
      BY <1>8 DEF LogBlock, Commit, Checkpoint, Free, EndOpSteps, txn
    <2>2. k <= Len(order) => k \in DOMAIN order
      BY OrderFacts DEF WalInv, TypeOK
    <2>3. PICK c, d :
            /\ c \in Blocks \ (Homes \ Tracked)
            /\ platter' = platter \/ platter' = [platter EXCEPT ![c] = d]
      <3>1. CASE LogBlock
        BY <2>2, <3>1, OrderFacts, Touches DEF WalInv, LogBlock, dev
      <3>2. CASE Commit \/ Free
        BY <3>2, OrderFacts, Touches DEF WalInv, Commit, Free
      <3>3. CASE Checkpoint
        BY <2>2, <3>3, OrderFacts, Touches DEF WalInv, Checkpoint, dev
      <3>. QED  BY <1>8, <3>1, <3>2, <3>3
    <2>. QED  BY <2>1, <2>3, DirectUntouched
  <1>9. CASE \/ Logged \/ Barrier("committed", "checkpoint") \/ Barrier("checked", "free")
             \/ (Freed /\ pc' = "freed")
    <2>1. pc \in {"logged", "committed", "checked", "freed"} /\ pc' \in EndOpSteps \ {"data"} /\ direct' = direct
      BY <1>9 DEF Logged, Barrier, Freed, EndOpSteps, txn
    <2>2. Install \/ UNCHANGED dev
      BY <1>9 DEF Logged, Barrier, Freed
    <2>3. CASE UNCHANGED dev
      <3>1. platter' = platter /\ Header \in Blocks \ (Homes \ Tracked)
        BY <2>3, OrderFacts DEF dev, WalInv
      <3>. QED  BY <2>1, <3>1, DirectUntouched DEF EndOpSteps
    <2>4. CASE Install
      <3>1. PICK i \in DOMAIN queue : platter' = [platter EXCEPT ![queue[i].bno] = queue[i].data]
        BY <2>4, InstallEffect DEF WalInv
      <3>2. queue[i].bno \in Blocks \ (Homes \ Tracked)
        BY <2>1, Queued, OrderFacts DEF WalInv, Copied, Cleared
      <3>. QED  BY <2>1, <3>1, <3>2, DirectUntouched DEF EndOpSteps
    <2>. QED  BY <2>2, <2>3, <2>4
  <1>10. CASE \E b \in Homes, v \in Vals : Write(b, v)
    BY <1>3, <1>10 DEF Write
  <1>11. CASE Freed
    BY <1>2, <1>9, <1>11 DEF Freed, EndOpSteps
  <1>12. CASE \/ Crash \/ Replay \/ Clear \/ Barrier("replayed", "clear") \/ Barrier("cleared", "closed")
              \/ \E m \in {"fifo", "reorder"} : Open(m) \/ Recover(m)
    BY <1>2, <1>12 DEF Crash, Replay, Clear, Barrier, Open, Recover, EndOpSteps
  <1>13. CASE \E b \in Data, v \in Vals : WriteData(b, v)
    BY <1>5, <1>10, <1>13 DEF WriteData, Homes
  <1>14. CASE UNCHANGED vars
    BY <1>3, <1>14 DEF vars, txn
  <1>. QED
    BY <1>1, <1>4, <1>6, <1>7, <1>8, <1>9, <1>10, <1>11, <1>12, <1>13, <1>14
    DEF Next, Barriers, Homes

(* In ordered mode every data block an operation wrote in place is durable *)
(* before the first of its journal writes is issued, so that a replayed    *)
(* transaction never points at data that is not there.                     *)
THEOREM OrderedData == Spec => []DataBeforeJournal
  <1>1. Init => DirectInv
    BY DEF Init, DirectInv, DataBeforeJournal, EndOpSteps
  <1>2. DirectInv => DataBeforeJournal
    BY DEF DirectInv
  <1>. QED  BY <1>1, <1>2, WalInit, WalStep, DirectStepInv, PTL DEF Spec
=============================================================================

----------------------------- MODULE RpcProofs -----------------------------
(***************************************************************************)
(* Proofs about Rpc, for any set of clients, any operations, any number of *)
(* retries and any cache size; at-most-once and the refinement of          *)
(* CallService need a cache entry per client (Capacity).                   *)
(***************************************************************************)
EXTENDS Rpc, FiniteSetTheorems, TLAPS

-----------------------------------------------------------------------------
(* The network.                                                            *)

(* net_send leaves the network a bag and adds at most the datagram sent. *)
LEMMA SendLemma ==
    ASSUME NEW b, IsABag(b), NEW m, NEW b2 \in AfterSend(b, m)
    PROVE  IsABag(b2) /\ BagToSet(b2) \subseteq BagToSet(b) \cup {m}
  <1>1. CASE b2 = b
    BY <1>1 DEF BagToSet
  <1>2. CASE b2 = b (+) SetToBag({m})
    BY <1>2 DEF IsABag, BagToSet, SetToBag, (+)
  <1>. QED  BY <1>1, <1>2 DEF AfterSend

(* net_recv leaves the network a bag and adds nothing to it. *)
LEMMA RecvLemma ==
    ASSUME IsABag(net), NEW m
    PROVE  IsABag(Without(m)) /\ BagToSet(Without(m)) \subseteq BagToSet(net)
  BY DEF IsABag, BagToSet, SetToBag, (-), Without

-----------------------------------------------------------------------------
(* Type correctness.                                                       *)

(* Every operation has a well-typed result and keeps the counter natural. *)
LEMMA HandleType ==
    ASSUME NEW op \in OpType, NEW v \in Nat
    PROVE  /\ Handle(op, v).status \in Statuses
           /\ Handle(op, v).val \in Int
           /\ Handle(op, v).value \in Nat
           /\ Handle(op, v).halt \in BOOLEAN
  <1>1. /\ op.arg \in Nat \cup {NoArg}
        /\ NoArg = -1 /\ NoVal \in Int /\ SlowVal \in Int
    BY DEF OpType, NoArg, NoVal, SlowVal
  <1>2. \E st \in Statuses, x \in Int, y \in Nat, h \in BOOLEAN :
            Handle(op, v) = Reply(st, x, y, h)
    <2>1. CASE op.proc = "ping"
      <3>1. Handle(op, v) = Reply("OK", op.arg, v, FALSE)
        BY <2>1 DEF Handle
      <3>2. op.arg \in Int
        BY <1>1
      <3>. QED  BY <3>1, <3>2 DEF Statuses
    <2>2. CASE op.proc = "inc"
      <3>1. CASE op.arg = NoArg
        <4>1. Handle(op, v) = Reply("EARG", NoVal, v, FALSE)
          BY <2>2, <3>1 DEF Handle
        <4>. QED  BY <1>1, <4>1 DEF Statuses
      <3>2. CASE op.arg # NoArg
        <4>1. Handle(op, v) = Reply("OK", v + op.arg, v + op.arg, FALSE)
          BY <2>2, <3>2 DEF Handle
        <4>2. v + op.arg \in Nat /\ v + op.arg \in Int
          BY <1>1, <3>2
        <4>. QED  BY <4>1, <4>2 DEF Statuses
      <3>. QED  BY <3>1, <3>2
    <2>3. CASE op.proc = "get"
      <3>1. Handle(op, v) = Reply("OK", v, v, FALSE)
        BY <2>3 DEF Handle
      <3>2. v \in Int
        OBVIOUS
      <3>. QED  BY <3>1, <3>2 DEF Statuses
    <2>4. CASE op.proc = "slow"
      <3>1. CASE op.arg = NoArg \/ op.arg > MaxSlow
        <4>1. Handle(op, v) = Reply("EARG", NoVal, v, FALSE)
          BY <2>4, <3>1 DEF Handle
        <4>. QED  BY <1>1, <4>1 DEF Statuses
      <3>2. CASE ~(op.arg = NoArg \/ op.arg > MaxSlow)
        <4>1. Handle(op, v) = Reply("OK", SlowVal, v, FALSE)
          BY <2>4, <3>2 DEF Handle
        <4>. QED  BY <1>1, <4>1 DEF Statuses
      <3>. QED  BY <3>1, <3>2
    <2>5. CASE op.proc = "shutdown"
      BY <1>1, <2>5 DEF Handle, Statuses
    <2>6. CASE op.proc = "other"
      BY <1>1, <2>6 DEF Handle, Statuses
    <2>. QED
      BY <2>1, <2>2, <2>3, <2>4, <2>5, <2>6 DEF OpType, Procs
  <1>. QED
    BY <1>2 DEF Reply

(* The fields of a datagram have the types its kind says. *)
LEMMA MessageType ==
    ASSUME NEW m \in DatagramType
    PROVE  /\ m.client \in Clients
           /\ m.seq \in Nat
           /\ m.kind = "req" => m.op \in OpType
           /\ m.kind = "rep" => m.status \in Statuses /\ m.val \in Int
  BY DEF DatagramType

(* A request is a datagram. *)
LEMMA RequestType ==
    ASSUME NEW c \in Clients, NEW n \in Nat, NEW op \in OpType
    PROVE  Request(c, n, op) \in DatagramType
  BY DEF Request, DatagramType

(* A reply is a datagram. *)
LEMMA ReplyType ==
    ASSUME NEW c \in Clients, NEW n \in Nat, NEW st \in Statuses, NEW v \in Int
    PROVE  ReplyTo(c, n, st, v) \in DatagramType
  BY DEF ReplyTo, DatagramType

(* Serving a request by running the handler keeps the state well typed. *)
LEMMA ExecuteType ==
    ASSUME TypeOK, NEW m \in BagToSet(net), m.kind = "req",
           NEW i \in Slots, ExecuteInto(m, i), evict' \in Slots
    PROVE  TypeOK'
  <1>. USE OpsAssumption
  <1>. DEFINE r == Handle(m.op, value)
  <1>1. m \in DatagramType
    BY DEF TypeOK
  <1>2. m.client \in Clients /\ m.seq \in Nat /\ m.op \in OpType
    BY <1>1, MessageType
  <1>3. r.status \in Statuses /\ r.val \in Int /\ r.value \in Nat /\ r.halt \in BOOLEAN
    BY <1>2, HandleType DEF TypeOK
  <1>4. IsABag(net') /\ BagToSet(net') \subseteq DatagramType
    <2>1. IsABag(Without(m)) /\ BagToSet(Without(m)) \subseteq DatagramType
      BY RecvLemma DEF TypeOK
    <2>2. ReplyTo(m.client, m.seq, r.status, r.val) \in DatagramType
      BY <1>2, <1>3, ReplyType
    <2>3. net' \in AfterSend(Without(m), ReplyTo(m.client, m.seq, r.status, r.val))
      BY DEF ExecuteInto
    <2>. QED  BY <2>1, <2>2, <2>3, SendLemma
  <1>5. cache' \in [Slots -> EntryType]
    BY <1>2, <1>3 DEF TypeOK, ExecuteInto, EntryType
  <1>6. execs' \in Seq(ExecType)
    BY <1>2, <1>3 DEF TypeOK, ExecuteInto, ExecType
  <1>7. value' \in Nat /\ running' \in BOOLEAN
    BY <1>3 DEF ExecuteInto
  <1>. QED
    BY <1>4, <1>5, <1>6, <1>7 DEF TypeOK, ExecuteInto, clientVars

(* Every step of the clients and the server keeps the state well typed. *)
LEMMA TypeStep ==
    ASSUME TypeOK, [Next]_vars
    PROVE  TypeOK'
  <1>. USE OpsAssumption, BoundsAssumption
  <1>1. CASE UNCHANGED vars
    BY <1>1 DEF TypeOK, vars, clientVars, serverVars, history
  <1>2. ASSUME NEW c \in Clients, NEW op \in Ops, Call(c, op)
        PROVE  TypeOK'
    <2>1. Request(c, seq[c] + 1, op) \in DatagramType
      <3>1. seq[c] + 1 \in Nat /\ op \in OpType
        BY DEF TypeOK
      <3>. QED  BY <3>1, RequestType
    <2>2. IsABag(net') /\ BagToSet(net') \subseteq DatagramType
      BY <1>2, <2>1, SendLemma DEF TypeOK, Call
    <2>. QED
      BY <1>2, <2>2 DEF TypeOK, Call, serverVars
  <1>3. ASSUME NEW c \in Clients, Retransmit(c)
        PROVE  TypeOK'
    <2>1. inflight[c][1] \in OpType
      BY <1>3 DEF TypeOK, Retransmit, Idle
    <2>2. Request(c, seq[c], inflight[c][1]) \in DatagramType
      BY <2>1, RequestType DEF TypeOK
    <2>3. IsABag(net') /\ BagToSet(net') \subseteq DatagramType
      BY <1>3, <2>2, SendLemma DEF TypeOK, Retransmit
    <2>. QED
      BY <1>3, <2>3 DEF TypeOK, Retransmit, serverVars, history
  <1>4. ASSUME NEW c \in Clients, GiveUp(c)
        PROVE  TypeOK'
    <2>1. Failed \in OutcomeType
      BY DEF Failed, OutcomeType, NoVal
    <2>. QED
      BY <1>4, <2>1 DEF TypeOK, GiveUp, Finish, serverVars
  <1>5. ASSUME NEW c \in Clients, NEW m \in BagToSet(net), TakeReply(c, m)
        PROVE  TypeOK'
    <2>1. m \in DatagramType
      BY DEF TypeOK
    <2>2. [status |-> m.status, val |-> m.val] \in OutcomeType
      BY <1>5, <2>1, MessageType DEF TakeReply, OutcomeType
    <2>3. IsABag(net') /\ BagToSet(net') \subseteq DatagramType
      BY <1>5, RecvLemma DEF TypeOK, TakeReply
    <2>. QED
      BY <1>5, <2>2, <2>3 DEF TypeOK, TakeReply, Finish, serverVars
  <1>6. ASSUME NEW c \in Clients, NEW m \in BagToSet(net), DiscardReply(c, m)
        PROVE  TypeOK'
    <2>1. IsABag(net') /\ BagToSet(net') \subseteq DatagramType
      BY <1>6, RecvLemma DEF TypeOK, DiscardReply
    <2>. QED
      BY <1>6, <2>1 DEF TypeOK, DiscardReply, clientVars, serverVars, history
  <1>7. ASSUME NEW m \in BagToSet(net), ServeDuplicate(m)
        PROVE  TypeOK'
    <2>1. PICK i \in Slots :
            /\ CacheFind(m.client, i)
            /\ net' \in AfterSend(Without(m), CachedReply(i))
      BY <1>7 DEF ServeDuplicate
    <2>2. m.client \in Clients
      BY MessageType DEF TypeOK
    <2>3. CachedReply(i) \in DatagramType
      BY <2>1, <2>2, ReplyType DEF TypeOK, CacheFind, EntryType, CachedReply
    <2>4. IsABag(Without(m)) /\ BagToSet(Without(m)) \subseteq DatagramType
      BY RecvLemma DEF TypeOK
    <2>5. IsABag(net') /\ BagToSet(net') \subseteq DatagramType
      BY <2>1, <2>3, <2>4, SendLemma
    <2>. QED
      BY <1>7, <2>5 DEF TypeOK, ServeDuplicate, clientVars, serverVars, history
  <1>8. ASSUME NEW m \in BagToSet(net), DropGhost(m)
        PROVE  TypeOK'
    <2>1. IsABag(net') /\ BagToSet(net') \subseteq DatagramType
      BY <1>8, RecvLemma DEF TypeOK, DropGhost
    <2>. QED
      BY <1>8, <2>1 DEF TypeOK, DropGhost, clientVars, serverVars, history
  <1>9. ASSUME NEW m \in BagToSet(net), ServeKnown(m)
        PROVE  TypeOK'
    BY <1>9, ExecuteType DEF ServeKnown, TypeOK
  <1>10. ASSUME NEW m \in BagToSet(net), ServeUnknown(m)
         PROVE  TypeOK'
    <2>1. PICK i \in Slots : CacheTake(i) /\ ExecuteInto(m, i)
      BY <1>10 DEF ServeUnknown
    <2>2. evict' \in Slots
      BY <2>1 DEF CacheTake, TypeOK, Slots
    <2>. QED
      BY <1>10, <2>1, <2>2, ExecuteType DEF ServeUnknown
  <1>. QED
    BY <1>1, <1>2, <1>3, <1>4, <1>5, <1>6, <1>7, <1>8, <1>9, <1>10 DEF Next, Serve

(* The initial state is well typed. *)
LEMMA TypeInit == Init => TypeOK
  <1>. USE BoundsAssumption
  <1>1. IsABag(EmptyBag) /\ BagToSet(EmptyBag) = {}
    BY DEF IsABag, EmptyBag, SetToBag, BagToSet
  <1>. QED
    BY <1>1 DEF Init, TypeOK, Slots, EntryType, Empty, Statuses, NoVal

(* TypeOK is an invariant of the RPC system. *)
THEOREM TypeCorrect == Spec => []TypeOK
  BY TypeInit, TypeStep, PTL DEF Spec

-----------------------------------------------------------------------------
(* A call returns the result of its own execution.                         *)

(* Call n of c has been dispatched, with status st and result v. *)
Executed(c, n, st, v) ==
    /\ n \in 1..Len(calls[c])
    /\ \E i \in 1..Len(execs) :
         execs[i] = [client |-> c, seq |-> n, op |-> calls[c][n],
                     status |-> st, val |-> v]

CallsInv == \A c \in Clients :
    /\ seq[c] = Len(calls[c])
    /\ inflight[c] = Idle => Len(outs[c]) = seq[c]
    /\ inflight[c] # Idle => /\ Len(outs[c]) + 1 = seq[c]
                             /\ inflight[c] = <<calls[c][seq[c]]>>

DatagramOK(m) ==
    /\ m.kind = "req" => /\ m.seq \in 1..Len(calls[m.client])
                         /\ m.op = calls[m.client][m.seq]
    /\ m.kind = "rep" => Executed(m.client, m.seq, m.status, m.val)

NetInv == \A m \in BagToSet(net) : DatagramOK(m)

CacheInv == \A i \in Slots :
    ~Free(i) => Executed(cache[i].client, cache[i].seq, cache[i].status, cache[i].val)

OutsInv == \A c \in Clients : \A n \in 1..Len(outs[c]) :
    outs[c][n] # Failed => Executed(c, n, outs[c][n].status, outs[c][n].val)

(* Everything that carries a result (a reply in transit, a cache entry, a  *)
(* value returned) carries that of an execution of the call it names.      *)
ResultInv == TypeOK /\ CallsInv /\ NetInv /\ CacheInv /\ OutsInv

(* The histories of calls and executions only grow. *)
CallsGrow ==
    \A c \in Clients :
        /\ Len(calls[c]) <= Len(calls'[c])
        /\ \A n \in 1..Len(calls[c]) : calls'[c][n] = calls[c][n]

ExecsGrow ==
    /\ Len(execs) <= Len(execs')
    /\ \A i \in 1..Len(execs) : execs'[i] = execs[i]

HistoryGrows == CallsGrow /\ ExecsGrow

(* No step rewrites the history. *)
LEMMA GrowthStep ==
    ASSUME TypeOK, TypeOK', [Next]_vars
    PROVE  HistoryGrows
  <1>1. calls' = calls \/ \E c \in Clients, op \in Ops : Call(c, op)
    BY DEF Next, vars, history, Retransmit, GiveUp, Finish, TakeReply, DiscardReply,
           Serve, ServeDuplicate, DropGhost, ServeKnown, ServeUnknown, ExecuteInto
  <1>2. CallsGrow
    <2>1. CASE calls' = calls
      BY <2>1 DEF TypeOK, CallsGrow
    <2>2. ASSUME NEW c \in Clients, NEW op \in Ops, Call(c, op)
          PROVE  CallsGrow
      BY <2>2 DEF CallsGrow, Call, TypeOK
    <2>. QED  BY <1>1, <2>1, <2>2
  <1>3. execs' = execs \/ \E m \in BagToSet(net), i \in Slots : ExecuteInto(m, i)
    BY DEF Next, vars, history, Call, Retransmit, GiveUp, Finish, TakeReply,
           DiscardReply, Serve, ServeDuplicate, DropGhost, ServeKnown, ServeUnknown
  <1>4. ExecsGrow
    <2>1. CASE execs' = execs
      BY <2>1 DEF TypeOK, ExecsGrow
    <2>2. ASSUME NEW m \in BagToSet(net), NEW i \in Slots, ExecuteInto(m, i)
          PROVE  ExecsGrow
      BY <2>2 DEF ExecsGrow, ExecuteInto, TypeOK
    <2>. QED  BY <1>3, <2>1, <2>2
  <1>. QED  BY <1>2, <1>4 DEF HistoryGrows

(* So an execution stays one. *)
LEMMA ExecutedStable ==
    ASSUME TypeOK, TypeOK', HistoryGrows,
           NEW c \in Clients, NEW n \in Nat, NEW st, NEW v, Executed(c, n, st, v)
    PROVE  Executed(c, n, st, v)'
  <1>0. n \in 1..Len(calls[c])
    BY DEF Executed
  <1>1. n \in 1..Len(calls'[c]) /\ calls'[c][n] = calls[c][n]
    <2>1. Len(calls[c]) \in Nat /\ Len(calls'[c]) \in Nat
      BY DEF TypeOK
    <2>2. Len(calls[c]) <= Len(calls'[c]) /\ calls'[c][n] = calls[c][n]
      BY <1>0 DEF HistoryGrows, CallsGrow
    <2>. QED  BY <1>0, <2>1, <2>2
  <1>2. PICK i \in 1..Len(execs) :
          execs[i] = [client |-> c, seq |-> n, op |-> calls[c][n],
                      status |-> st, val |-> v]
    BY DEF Executed
  <1>3. i \in 1..Len(execs') /\ execs'[i] = execs[i]
    BY DEF HistoryGrows, ExecsGrow, TypeOK
  <1>. QED  BY <1>1, <1>2, <1>3 DEF Executed

(* A datagram that was consistent with the history stays so. *)
LEMMA DatagramStable ==
    ASSUME TypeOK, TypeOK', HistoryGrows, NEW m \in DatagramType, DatagramOK(m)
    PROVE  DatagramOK(m)'
  <1>1. m.client \in Clients /\ m.seq \in Nat
    BY MessageType
  <1>2. ASSUME m.kind = "rep"
        PROVE  Executed(m.client, m.seq, m.status, m.val)'
    BY <1>1, <1>2, ExecutedStable DEF DatagramOK
  <1>3. ASSUME m.kind = "req"
        PROVE  m.seq \in 1..Len(calls'[m.client]) /\ m.op = calls'[m.client][m.seq]
    <2>1. m.seq \in 1..Len(calls[m.client]) /\ m.op = calls[m.client][m.seq]
      BY <1>3 DEF DatagramOK
    <2>2. /\ Len(calls[m.client]) <= Len(calls'[m.client])
          /\ calls'[m.client][m.seq] = calls[m.client][m.seq]
      BY <1>1, <2>1 DEF HistoryGrows, CallsGrow
    <2>3. Len(calls[m.client]) \in Nat /\ Len(calls'[m.client]) \in Nat
      BY <1>1 DEF TypeOK
    <2>. QED  BY <2>1, <2>2, <2>3
  <1>. QED  BY <1>2, <1>3 DEF DatagramOK

(* The network after at most one consistent datagram was added. *)
LEMMA NetStep ==
    ASSUME TypeOK, TypeOK', HistoryGrows, NetInv,
           NEW x, DatagramOK(x)', BagToSet(net') \subseteq BagToSet(net) \cup {x}
    PROVE  NetInv'
  <1>1. ASSUME NEW m \in BagToSet(net)
        PROVE  DatagramOK(m)'
    <2>1. m \in DatagramType /\ DatagramOK(m)
      BY DEF TypeOK, NetInv
    <2>. QED  BY <2>1, DatagramStable
  <1>. QED  BY <1>1 DEF NetInv

(* The network after nothing was added. *)
LEMMA NetShrinks ==
    ASSUME TypeOK, TypeOK', HistoryGrows, NetInv,
           BagToSet(net') \subseteq BagToSet(net)
    PROVE  NetInv'
  <1>1. ASSUME NEW m \in BagToSet(net)
        PROVE  DatagramOK(m)'
    <2>1. m \in DatagramType /\ DatagramOK(m)
      BY DEF TypeOK, NetInv
    <2>. QED  BY <2>1, DatagramStable
  <1>. QED  BY <1>1 DEF NetInv

(* An untouched cache stays consistent with the history. *)
LEMMA CacheStable ==
    ASSUME TypeOK, TypeOK', HistoryGrows, CacheInv, cache' = cache
    PROVE  CacheInv'
  <1>. SUFFICES ASSUME NEW i \in Slots, ~Free(i)'
                PROVE  Executed(cache[i].client, cache[i].seq, cache[i].status, cache[i].val)'
    BY DEF CacheInv
  <1>. DEFINE e == cache[i]
  <1>1. e \in EntryType /\ e' = e /\ ~Free(i)
    BY DEF TypeOK, Free
  <1>2. e.client \in Clients /\ e.seq \in Nat
    BY <1>1 DEF EntryType, Free
  <1>3. Executed(e.client, e.seq, e.status, e.val)
    BY <1>1 DEF CacheInv
  <1>4. PICK x : x = e
    OBVIOUS
  <1>5. Executed(x.client, x.seq, x.status, x.val)'
    BY <1>2, <1>3, <1>4, ExecutedStable
  <1>. QED  BY <1>1, <1>4, <1>5

(* Results already returned stay consistent with the history. *)
LEMMA OutsStable ==
    ASSUME TypeOK, TypeOK', HistoryGrows, OutsInv, outs' = outs
    PROVE  OutsInv'
  <1>. SUFFICES ASSUME NEW c \in Clients, NEW n \in 1..Len(outs[c]),
                       outs[c][n] # Failed
                PROVE  Executed(c, n, outs[c][n].status, outs[c][n].val)'
    BY DEF OutsInv
  <1>1. Executed(c, n, outs[c][n].status, outs[c][n].val) /\ n \in Nat
    BY DEF OutsInv, TypeOK
  <1>2. PICK x : x = outs[c][n]
    OBVIOUS
  <1>3. Executed(c, n, x.status, x.val)'
    BY <1>1, <1>2, ExecutedStable
  <1>. QED  BY <1>2, <1>3

(* The handler's result is an execution of the call its request names, and *)
(* so are the cache entry and the reply made from it.                      *)
LEMMA ExecuteResult ==
    ASSUME ResultInv, TypeOK', HistoryGrows, NEW m \in BagToSet(net), m.kind = "req",
           NEW i \in Slots, ExecuteInto(m, i)
    PROVE  CallsInv' /\ NetInv' /\ CacheInv' /\ OutsInv'
  <1>. USE DEF ResultInv
  <1>1. m \in DatagramType
    BY DEF TypeOK
  <1>2. m.client \in Clients /\ m.seq \in Nat /\ m.client # NoClient
    BY <1>1, MessageType, NoClientAssumption
  <1>3. m.seq \in 1..Len(calls[m.client]) /\ m.op = calls[m.client][m.seq]
    BY DEF NetInv, DatagramOK
  <1>4. PICK st, v :
          /\ execs' = Append(execs, [client |-> m.client, seq |-> m.seq, op |-> m.op,
                                     status |-> st, val |-> v])
          /\ cache' = [cache EXCEPT ![i] = [client |-> m.client, seq |-> m.seq,
                                            status |-> st, val |-> v]]
          /\ net' \in AfterSend(Without(m), ReplyTo(m.client, m.seq, st, v))
    BY DEF ExecuteInto
  <1>5. calls' = calls /\ outs' = outs /\ UNCHANGED clientVars
    BY DEF ExecuteInto
  <1>6. Executed(m.client, m.seq, st, v)'
    <2>1. execs'[Len(execs')] = [client |-> m.client, seq |-> m.seq, op |-> m.op,
                                 status |-> st, val |-> v]
      BY <1>4 DEF TypeOK
    <2>2. Len(execs') \in 1..Len(execs')
      BY <1>4 DEF TypeOK
    <2>. QED
      BY <1>3, <1>5, <2>1, <2>2 DEF Executed
  <1>7. CallsInv'
    BY <1>5 DEF CallsInv, clientVars
  <1>8. NetInv'
    <2>. DEFINE rep == ReplyTo(m.client, m.seq, st, v)
    <2>1. DatagramOK(rep)'
      BY <1>6 DEF DatagramOK, ReplyTo
    <2>2. BagToSet(net') \subseteq BagToSet(net) \cup {rep}
      BY <1>4, RecvLemma, SendLemma DEF TypeOK
    <2>. QED
      BY <2>1, <2>2, NetStep
  <1>9. CacheInv'
    <2>. SUFFICES ASSUME NEW j \in Slots, ~Free(j)'
                  PROVE  Executed(cache[j].client, cache[j].seq, cache[j].status, cache[j].val)'
      BY DEF CacheInv
    <2>1. CASE j = i
      <3>1. cache'[j] = [client |-> m.client, seq |-> m.seq, status |-> st, val |-> v]
        BY <1>4, <2>1 DEF TypeOK
      <3>. QED  BY <1>6, <3>1
    <2>2. CASE j # i
      <3>1. PICK e \in EntryType : e = cache[j] /\ e = cache'[j]
        BY <1>4, <2>2 DEF TypeOK
      <3>2. ~Free(j) /\ e.client \in Clients /\ e.seq \in Nat
        BY <3>1 DEF Free, EntryType
      <3>3. Executed(e.client, e.seq, e.status, e.val)
        BY <3>1, <3>2 DEF CacheInv
      <3>4. Executed(e.client, e.seq, e.status, e.val)'
        BY <3>2, <3>3, ExecutedStable
      <3>. QED  BY <3>1, <3>4
    <2>. QED  BY <2>1, <2>2
  <1>10. OutsInv'
    BY <1>5, OutsStable
  <1>. QED  BY <1>7, <1>8, <1>9, <1>10

(* ResultInv is inductive. *)
LEMMA ResultStep ==
    ASSUME ResultInv, [Next]_vars
    PROVE  ResultInv'
  <1>. USE DEF ResultInv
  <1>1. TypeOK' /\ HistoryGrows
    BY TypeStep, GrowthStep
  <1>2. CASE UNCHANGED vars
    <2>1. CallsInv'
      BY <1>2 DEF vars, clientVars, history, CallsInv
    <2>. QED
      BY <1>1, <1>2, <2>1, NetShrinks, CacheStable, OutsStable
         DEF vars, serverVars, history
  <1>3. ASSUME NEW c \in Clients, NEW op \in Ops, Call(c, op)
        PROVE  ResultInv'
    <2>1. CallsInv'
      BY <1>3 DEF CallsInv, TypeOK, Call, Idle
    <2>2. NetInv'
      <3>1. PICK x : x = Request(c, seq[c] + 1, op)
        OBVIOUS
      <3>2. calls'[c] = Append(calls[c], op) /\ seq[c] = Len(calls[c])
        BY <1>3 DEF Call, TypeOK, CallsInv
      <3>3. seq[c] + 1 \in 1..Len(calls'[c]) /\ op = calls'[c][seq[c] + 1]
        BY <3>2 DEF TypeOK
      <3>4. DatagramOK(x)'
        BY <3>1, <3>3 DEF DatagramOK, Request
      <3>5. BagToSet(net') \subseteq BagToSet(net) \cup {x}
        BY <1>3, <3>1, SendLemma DEF Call, TypeOK
      <3>. QED  BY <1>1, <3>4, <3>5, NetStep
    <2>. QED
      BY <1>1, <1>3, <2>1, <2>2, CacheStable, OutsStable DEF Call, serverVars
  <1>4. ASSUME NEW c \in Clients, Retransmit(c)
        PROVE  ResultInv'
    <2>1. CallsInv'
      BY <1>4 DEF CallsInv, Retransmit, history
    <2>2. NetInv'
      <3>1. PICK x : x = Request(c, seq[c], inflight[c][1])
        OBVIOUS
      <3>2. seq[c] = Len(calls[c]) /\ seq[c] = Len(outs[c]) + 1
            /\ inflight[c][1] = calls[c][seq[c]]
        BY <1>4 DEF Retransmit, CallsInv
      <3>3. seq[c] \in 1..Len(calls[c]) /\ calls' = calls
        BY <1>4, <3>2 DEF TypeOK, Retransmit, history
      <3>4. DatagramOK(x)'
        BY <3>1, <3>2, <3>3 DEF DatagramOK, Request
      <3>5. BagToSet(net') \subseteq BagToSet(net) \cup {x}
        BY <1>4, <3>1, SendLemma DEF Retransmit, TypeOK
      <3>. QED  BY <1>1, <3>4, <3>5, NetStep
    <2>. QED
      BY <1>1, <1>4, <2>1, <2>2, CacheStable, OutsStable
         DEF Retransmit, serverVars, history
  <1>5. ASSUME NEW c \in Clients, GiveUp(c)
        PROVE  ResultInv'
    <2>1. CallsInv'
      BY <1>5 DEF CallsInv, GiveUp, Finish, TypeOK
    <2>2. NetInv' /\ CacheInv'
      BY <1>1, <1>5, NetShrinks, CacheStable DEF GiveUp, Finish, serverVars
    <2>3. OutsInv'
      <3>. SUFFICES ASSUME NEW d \in Clients, NEW n \in 1..Len(outs'[d]),
                           outs'[d][n] # Failed
                    PROVE  Executed(d, n, outs[d][n].status, outs[d][n].val)'
        BY DEF OutsInv
      <3>1. n \in 1..Len(outs[d]) /\ outs'[d][n] = outs[d][n]
        BY <1>5 DEF GiveUp, Finish, TypeOK
      <3>2. PICK x : x = outs[d][n]
        OBVIOUS
      <3>3. Executed(d, n, x.status, x.val) /\ n \in Nat
        BY <3>1, <3>2 DEF OutsInv
      <3>4. Executed(d, n, x.status, x.val)'
        BY <1>1, <3>3, ExecutedStable
      <3>. QED  BY <3>1, <3>2, <3>4
    <2>. QED  BY <1>1, <2>1, <2>2, <2>3
  <1>6. ASSUME NEW c \in Clients, NEW m \in BagToSet(net), TakeReply(c, m)
        PROVE  ResultInv'
    <2>1. CallsInv'
      BY <1>6 DEF CallsInv, TakeReply, Finish, TypeOK
    <2>2. NetInv' /\ CacheInv'
      BY <1>1, <1>6, RecvLemma, NetShrinks, CacheStable
         DEF TakeReply, Finish, serverVars, TypeOK
    <2>3. OutsInv'
      <3>. SUFFICES ASSUME NEW d \in Clients, NEW n \in 1..Len(outs'[d]),
                           outs'[d][n] # Failed
                    PROVE  Executed(d, n, outs[d][n].status, outs[d][n].val)'
        BY DEF OutsInv
      <3>1. CASE n \in 1..Len(outs[d]) /\ outs'[d][n] = outs[d][n]
        <4>1. PICK x : x = outs[d][n]
          OBVIOUS
        <4>2. Executed(d, n, x.status, x.val) /\ n \in Nat
          BY <3>1, <4>1 DEF OutsInv
        <4>3. Executed(d, n, x.status, x.val)'
          BY <1>1, <4>2, ExecutedStable
        <4>. QED  BY <3>1, <4>1, <4>3
      <3>2. CASE d = c /\ n = Len(outs[c]) + 1
        <4>1. outs'[d][n] = [status |-> m.status, val |-> m.val]
          BY <1>6, <3>2 DEF TakeReply, Finish, TypeOK
        <4>2. n = m.seq /\ m.client = d
          BY <1>6, <3>2 DEF TakeReply, CallsInv
        <4>3. Executed(d, n, m.status, m.val) /\ n \in Nat
          BY <1>6, <4>2 DEF TakeReply, NetInv, DatagramOK, TypeOK
        <4>4. Executed(d, n, m.status, m.val)'
          BY <1>1, <4>3, ExecutedStable
        <4>. QED  BY <4>1, <4>4
      <3>. QED
        BY <1>6, <3>1, <3>2 DEF TakeReply, Finish, TypeOK
    <2>. QED  BY <1>1, <2>1, <2>2, <2>3
  <1>7. ASSUME NEW c \in Clients, NEW m \in BagToSet(net), DiscardReply(c, m)
        PROVE  ResultInv'
    <2>1. CallsInv'
      BY <1>7 DEF CallsInv, DiscardReply, clientVars, history
    <2>. QED
      BY <1>1, <1>7, <2>1, RecvLemma, NetShrinks, CacheStable, OutsStable
         DEF DiscardReply, serverVars, history, TypeOK
  <1>8. ASSUME NEW m \in BagToSet(net), ServeDuplicate(m)
        PROVE  ResultInv'
    <2>1. CallsInv'
      BY <1>8 DEF CallsInv, ServeDuplicate, clientVars, history
    <2>2. NetInv'
      <3>1. PICK i \in Slots : /\ CacheFind(m.client, i)
                               /\ net' \in AfterSend(Without(m), CachedReply(i))
        BY <1>8 DEF ServeDuplicate
      <3>2. m.client \in Clients
        BY MessageType DEF TypeOK
      <3>3. PICK e \in EntryType : e = cache[i]
        BY DEF TypeOK
      <3>4. ~Free(i) /\ e.client = m.client /\ e.seq \in Nat
        BY <3>1, <3>2, <3>3, NoClientAssumption DEF CacheFind, Free, EntryType
      <3>5. Executed(e.client, e.seq, e.status, e.val)'
        <4>1. Executed(e.client, e.seq, e.status, e.val)
          BY <3>3, <3>4 DEF CacheInv
        <4>. QED  BY <1>1, <3>2, <3>4, <4>1, ExecutedStable
      <3>6. PICK x : x = ReplyTo(e.client, e.seq, e.status, e.val)
        OBVIOUS
      <3>7. DatagramOK(x)'
        BY <3>5, <3>6 DEF DatagramOK, ReplyTo
      <3>8. BagToSet(net') \subseteq BagToSet(net) \cup {x}
        BY <3>1, <3>3, <3>6, RecvLemma, SendLemma DEF TypeOK, CachedReply
      <3>. QED  BY <1>1, <3>7, <3>8, NetStep
    <2>. QED
      BY <1>1, <1>8, <2>1, <2>2, CacheStable, OutsStable
         DEF ServeDuplicate, serverVars, history
  <1>9. ASSUME NEW m \in BagToSet(net), DropGhost(m)
        PROVE  ResultInv'
    <2>1. CallsInv'
      BY <1>9 DEF CallsInv, DropGhost, clientVars, history
    <2>. QED
      BY <1>1, <1>9, <2>1, RecvLemma, NetShrinks, CacheStable, OutsStable
         DEF DropGhost, serverVars, history, TypeOK
  <1>10. ASSUME NEW m \in BagToSet(net), ServeKnown(m) \/ ServeUnknown(m)
         PROVE  ResultInv'
    <2>1. PICK i \in Slots : ExecuteInto(m, i)
      BY <1>10 DEF ServeKnown, ServeUnknown
    <2>. QED
      BY <1>1, <1>10, <2>1, ExecuteResult DEF ServeKnown, ServeUnknown
  <1>. QED
    BY <1>2, <1>3, <1>4, <1>5, <1>6, <1>7, <1>8, <1>9, <1>10 DEF Next, Serve

(* ResultInv holds initially. *)
LEMMA ResultInit == Init => ResultInv
  <1>. SUFFICES ASSUME Init PROVE ResultInv
    OBVIOUS
  <1>1. TypeOK
    BY TypeInit
  <1>2. CallsInv /\ OutsInv /\ CacheInv
    BY DEF Init, CallsInv, OutsInv, CacheInv, Free, Empty, Idle
  <1>3. NetInv
    BY DEF Init, NetInv, EmptyBag, SetToBag, BagToSet
  <1>. QED  BY <1>1, <1>2, <1>3 DEF ResultInv

(* Whatever is lost, late or repeated on the network, and whatever the     *)
(* cache evicts, rpc_call never returns another call's result.             *)
THEOREM OwnResult == Spec => []ResultIsOwn
  <1>1. ResultInv => ResultIsOwn
    <2>. SUFFICES ASSUME ResultInv, NEW c \in Clients, NEW n \in 1..Len(outs[c]),
                         outs[c][n] # Failed
                  PROVE  \E i \in 1..Len(execs) :
                           /\ execs[i].client = c /\ execs[i].seq = n
                           /\ execs[i].op = calls[c][n]
                           /\ execs[i].status = outs[c][n].status
                           /\ execs[i].val = outs[c][n].val
      BY DEF ResultIsOwn
    <2>1. Executed(c, n, outs[c][n].status, outs[c][n].val)
      BY DEF ResultInv, OutsInv
    <2>2. PICK i \in 1..Len(execs) :
            execs[i] = [client |-> c, seq |-> n, op |-> calls[c][n],
                        status |-> outs[c][n].status, val |-> outs[c][n].val]
      BY <2>1 DEF Executed
    <2>. QED  BY <2>2
  <1>. QED
    BY <1>1, ResultInit, ResultStep, PTL DEF Spec

-----------------------------------------------------------------------------
(* At most once.                                                           *)

(* Every client can keep a cache entry: no live entry is ever evicted. *)
Capacity == IsFiniteSet(Clients) /\ Cardinality(Clients) <= CacheSlots

(* No client has two cache entries. *)
OneEntryEach == \A i, j \in Slots :
    ~Free(i) /\ cache[i].client = cache[j].client => i = j

(* The entry of a client is at least as new as anything executed for it. *)
Remembered == \A k \in 1..Len(execs) : \E i \in Slots :
    cache[i].client = execs[k].client /\ execs[k].seq <= cache[i].seq

OnceInv == TypeOK /\ OneEntryEach /\ Remembered /\ AtMostOnce

(* With an entry per client, a client without one finds a free slot. *)
LEMMA RoomLeft ==
    ASSUME Capacity, TypeOK, OneEntryEach, NEW c \in Clients, ~Known(c)
    PROVE  \E i \in Slots : Free(i)
  <1>. SUFFICES ASSUME \A i \in Slots : ~Free(i)
                PROVE  FALSE
    OBVIOUS
  <1>. USE BoundsAssumption
  <1>. DEFINE f == [i \in Slots |-> cache[i].client]
              D == Clients \ {c}
  <1>1. f \in [Slots -> D]
    BY DEF TypeOK, EntryType, Free, Known
  <1>2. IsFiniteSet(Slots) /\ Cardinality(Slots) = CacheSlots
    BY FS_Interval DEF Slots
  <1>3. IsFiniteSet(D) /\ Cardinality(D) = Cardinality(Clients) - 1
    BY FS_RemoveElement DEF Capacity
  <1>4. Cardinality(D) < Cardinality(Slots)
    BY <1>2, <1>3, FS_CardinalityType DEF Capacity
  <1>5. \E i, j \in Slots : i # j /\ f[i] = f[j]
    <2>. HIDE DEF f, D
    <2>. QED  BY <1>1, <1>2, <1>3, <1>4, FS_PigeonHole
  <1>. QED  BY <1>5 DEF OneEntryEach

(* Running the handler for a call newer than all executed ones of its      *)
(* client, into the client's own slot or a free one, keeps OnceInv.        *)
LEMMA ExecuteOnce ==
    ASSUME OnceInv, TypeOK', NEW m \in BagToSet(net), m.kind = "req",
           NEW i \in Slots, ExecuteInto(m, i),
           (Free(i) /\ ~Known(m.client)) \/ cache[i].client = m.client,
           \A k \in 1..Len(execs) : execs[k].client = m.client => execs[k].seq < m.seq
    PROVE  OnceInv'
  <1>. USE DEF OnceInv
  <1>1. m.client \in Clients /\ m.seq \in Nat /\ m.client # NoClient
    BY MessageType, NoClientAssumption DEF TypeOK
  <1>2. PICK x : /\ execs' = Append(execs, x)
                 /\ x.client = m.client /\ x.seq = m.seq
    BY DEF ExecuteInto
  <1>3. /\ cache'[i].client = m.client
        /\ cache'[i].seq = m.seq
        /\ \A j \in Slots : j # i => cache'[j] = cache[j]
    BY DEF ExecuteInto, TypeOK
  <1>4. OneEntryEach'
    BY <1>1, <1>3 DEF OneEntryEach, Free, Known
  <1>5. Remembered'
    <2>. SUFFICES ASSUME NEW k \in 1..Len(execs')
                  PROVE  \E j \in Slots : /\ cache'[j].client = execs'[k].client
                                          /\ execs'[k].seq <= cache'[j].seq
      BY DEF Remembered
    <2>1. CASE k = Len(execs) + 1
      <3>1. execs'[k] = x
        BY <1>2, <2>1 DEF TypeOK
      <3>. QED  BY <1>1, <1>2, <1>3, <3>1
    <2>2. CASE k \in 1..Len(execs)
      <3>1. execs'[k] = execs[k] /\ execs[k] \in ExecType
        BY <1>2, <2>2 DEF TypeOK
      <3>2. PICK j \in Slots : cache[j].client = execs[k].client /\ execs[k].seq <= cache[j].seq
        BY <2>2 DEF Remembered
      <3>3. CASE j = i
        <4>1. execs[k].client = m.client
          BY <3>1, <3>2, <3>3, NoClientAssumption DEF Free, ExecType
        <4>2. execs[k].seq < m.seq
          BY <2>2, <4>1
        <4>3. execs[k].seq <= m.seq
          BY <1>1, <3>1, <4>2 DEF ExecType
        <4>. QED  BY <1>3, <3>1, <4>1, <4>3
      <3>4. CASE j # i
        BY <1>3, <3>1, <3>2, <3>4
      <3>. QED  BY <3>3, <3>4
    <2>3. Len(execs') = Len(execs) + 1 /\ Len(execs) \in Nat
      BY <1>2 DEF TypeOK
    <2>. QED  BY <2>1, <2>2, <2>3
  <1>6. AtMostOnce'
    <2>. SUFFICES ASSUME NEW a \in 1..Len(execs'), NEW b \in 1..Len(execs'),
                         a < b, execs'[a].client = execs'[b].client
                  PROVE  execs'[a].seq < execs'[b].seq
      BY DEF AtMostOnce
    <2>1. Len(execs') = Len(execs) + 1 /\ Len(execs) \in Nat
      BY <1>2 DEF TypeOK
    <2>2. a \in 1..Len(execs) /\ execs'[a] = execs[a]
      BY <1>2, <2>1 DEF TypeOK
    <2>3. CASE b \in 1..Len(execs)
      BY <1>2, <2>2, <2>3 DEF AtMostOnce, TypeOK
    <2>4. CASE b = Len(execs) + 1
      <3>1. execs'[b] = x
        BY <1>2, <2>4 DEF TypeOK
      <3>2. execs[a].client = m.client
        BY <1>2, <2>2, <3>1
      <3>3. execs[a].seq < m.seq
        BY <2>2, <3>2
      <3>. QED  BY <1>2, <2>2, <3>1, <3>3
    <2>. QED  BY <2>1, <2>3, <2>4
  <1>. QED  BY <1>4, <1>5, <1>6

(* The call a request runs for is newer than all executed of its client. *)
LEMMA NewerCall ==
    ASSUME Capacity, OnceInv, NEW m \in BagToSet(net), m.kind = "req",
           NEW i \in Slots,
           (CacheFind(m.client, i) /\ cache[i].seq < m.seq)
             \/ (~Known(m.client) /\ CacheTake(i))
    PROVE  /\ (Free(i) /\ ~Known(m.client)) \/ cache[i].client = m.client
           /\ \A k \in 1..Len(execs) : execs[k].client = m.client => execs[k].seq < m.seq
  <1>. USE DEF OnceInv
  <1>1. m.client \in Clients /\ m.seq \in Nat /\ m.client # NoClient
    BY MessageType, NoClientAssumption DEF TypeOK
  <1>2. CASE CacheFind(m.client, i) /\ cache[i].seq < m.seq
    <2>1. cache[i].client = m.client /\ ~Free(i)
      BY <1>1, <1>2 DEF CacheFind, Free
    <2>2. ASSUME NEW k \in 1..Len(execs), execs[k].client = m.client
          PROVE  execs[k].seq < m.seq
      <3>1. PICK j \in Slots : cache[j].client = execs[k].client /\ execs[k].seq <= cache[j].seq
        BY DEF Remembered
      <3>2. j = i
        BY <2>1, <2>2, <3>1 DEF OneEntryEach
      <3>3. execs[k].seq \in Nat /\ cache[i].seq \in Nat
        <4>1. execs[k] \in ExecType /\ cache[i] \in EntryType
          BY DEF TypeOK
        <4>. QED  BY <4>1 DEF ExecType, EntryType
      <3>. QED  BY <1>1, <1>2, <3>1, <3>2, <3>3
    <2>. QED  BY <2>1, <2>2
  <1>3. CASE ~Known(m.client) /\ CacheTake(i)
    <2>1. Free(i)
      BY <1>1, <1>3, RoomLeft DEF CacheTake
    <2>2. \A k \in 1..Len(execs) : execs[k].client # m.client
      BY <1>3 DEF Remembered, Known
    <2>. QED  BY <1>3, <2>1, <2>2
  <1>. QED  BY <1>2, <1>3

(* OnceInv is inductive when every client can keep an entry. *)
LEMMA OnceStep ==
    ASSUME Capacity, OnceInv, [Next]_vars
    PROVE  OnceInv'
  <1>1. TypeOK'
    BY TypeStep DEF OnceInv
  <1>2. CASE cache' = cache /\ execs' = execs
    BY <1>1, <1>2 DEF OnceInv, OneEntryEach, Free, Remembered, AtMostOnce
  <1>3. ASSUME NEW m \in BagToSet(net), ServeKnown(m) \/ ServeUnknown(m)
        PROVE  OnceInv'
    <2>1. PICK i \in Slots :
            /\ ExecuteInto(m, i)
            /\ \/ CacheFind(m.client, i) /\ cache[i].seq < m.seq
               \/ ~Known(m.client) /\ CacheTake(i)
      BY <1>3 DEF ServeKnown, ServeUnknown
    <2>2. m.kind = "req"
      BY <1>3 DEF ServeKnown, ServeUnknown
    <2>. QED
      BY <1>1, <2>1, <2>2, NewerCall, ExecuteOnce
  <1>. QED
    BY <1>2, <1>3 DEF Next, vars, serverVars, history, Call, Retransmit, GiveUp, Finish,
       TakeReply, DiscardReply, Serve, ServeDuplicate, DropGhost

(* OnceInv holds initially. *)
LEMMA OnceInit == Init => OnceInv
  BY TypeInit DEF Init, OnceInv, OneEntryEach, Remembered, AtMostOnce, Free, Empty

(* If every client can keep an entry, the handler is run at most once per  *)
(* call and in call order, whatever the network does.                      *)
THEOREM AtMostOnceTheorem == Capacity => (Spec => []AtMostOnce)
  <1>. SUFFICES ASSUME Capacity PROVE Spec => []AtMostOnce
    OBVIOUS
  <1>1. OnceInv /\ [Next]_vars => OnceInv'
    BY OnceStep
  <1>2. OnceInv => AtMostOnce
    BY DEF OnceInv
  <1>. QED
    BY <1>1, <1>2, OnceInit, PTL DEF Spec

-----------------------------------------------------------------------------
(* The refinement.                                                         *)

(* The contract's handler is the server's. *)
LEMMA SameHandler ==
    ASSUME NEW op, NEW v
    PROVE  Contract!Handle(op, v) = Handle(op, v)
  BY DEF Handle, Reply, NoArg, NoVal, SlowVal, Contract!Handle, Contract!Reply,
         Contract!NoArg, Contract!NoVal, Contract!SlowVal

(* Every step of the RPC is a step of the contract or leaves it alone. *)
LEMMA ContractStep ==
    ASSUME Capacity, ResultInv, OnceInv, [Next]_vars
    PROVE  [Contract!Next]_(Contract!absVars)
  <1>. USE DEF ResultInv, Contract!absVars
  <1>1. ASSUME NEW c \in Clients, NEW op \in Ops, Call(c, op)
        PROVE  Contract!Next
    <2>1. Contract!Invoke(c, op)
      <3>1. ~(Len(outs[c]) < Len(calls[c]))
        BY <1>1 DEF Call, CallsInv, TypeOK
      <3>. QED
        BY <1>1, <3>1 DEF Call, Contract!Invoke, Contract!Pending, serverVars
    <2>. QED  BY <2>1 DEF Contract!Next
  <1>2. ASSUME NEW c \in Clients, GiveUp(c)
        PROVE  Contract!Next
    <2>1. Len(outs[c]) < Len(calls[c])
      BY <1>2 DEF GiveUp, CallsInv, TypeOK
    <2>2. Contract!GiveUp(c)
      BY <1>2, <2>1 DEF GiveUp, Finish, Failed, Contract!GiveUp, Contract!Pending,
         Contract!Failed, Contract!NoVal, NoVal, serverVars
    <2>. QED  BY <2>2 DEF Contract!Next
  <1>3. ASSUME NEW c \in Clients, NEW m \in BagToSet(net), TakeReply(c, m)
        PROVE  Contract!Next
    <2>1. Len(outs[c]) < Len(calls[c]) /\ m.seq = Len(calls[c]) /\ m.client = c
      BY <1>3 DEF TakeReply, CallsInv, TypeOK
    <2>2. Executed(c, m.seq, m.status, m.val)
      BY <1>3, <2>1 DEF TakeReply, NetInv, DatagramOK
    <2>3. PICK i \in 1..Len(execs) :
            execs[i] = [client |-> c, seq |-> m.seq, op |-> calls[c][m.seq],
                        status |-> m.status, val |-> m.val]
      BY <2>2 DEF Executed
    <2>4. /\ execs[i].client = c
          /\ execs[i].seq = Len(calls[c])
          /\ execs[i].status = m.status
          /\ execs[i].val = m.val
      BY <2>1, <2>3
    <2>5. outs' = [outs EXCEPT ![c] =
              Append(@, [status |-> execs[i].status, val |-> execs[i].val])]
      BY <1>3, <2>4 DEF TakeReply, Finish
    <2>6. Contract!Return(c)
      BY <1>3, <2>1, <2>4, <2>5 DEF TakeReply, Finish, Contract!Return,
         Contract!Pending, serverVars
    <2>. QED  BY <2>6 DEF Contract!Next
  <1>4. ASSUME NEW m \in BagToSet(net), ServeKnown(m) \/ ServeUnknown(m)
        PROVE  Contract!Next
    <2>1. PICK i \in Slots :
            /\ ExecuteInto(m, i)
            /\ \/ CacheFind(m.client, i) /\ cache[i].seq < m.seq
               \/ ~Known(m.client) /\ CacheTake(i)
      BY <1>4 DEF ServeKnown, ServeUnknown
    <2>2. m.kind = "req"
      BY <1>4 DEF ServeKnown, ServeUnknown
    <2>3. \A k \in 1..Len(execs) : execs[k].client = m.client => execs[k].seq < m.seq
      BY <2>1, <2>2, NewerCall
    <2>4. m.seq \in 1..Len(calls[m.client]) /\ m.op = calls[m.client][m.seq]
      BY <2>2 DEF NetInv, DatagramOK
    <2>5. m.client \in Clients
      BY MessageType DEF TypeOK
    <2>6. Contract!Execute(m.client, m.seq)
      <3>. DEFINE r == Handle(calls[m.client][m.seq], value)
      <3>1. /\ value' = r.value
            /\ execs' = Append(execs, [client |-> m.client, seq |-> m.seq,
                                       op |-> calls[m.client][m.seq],
                                       status |-> r.status, val |-> r.val])
        BY <2>1, <2>4 DEF ExecuteInto
      <3>2. calls' = calls /\ outs' = outs
        BY <2>1 DEF ExecuteInto
      <3>. QED
        BY <2>3, <2>4, <3>1, <3>2, SameHandler DEF Contract!Execute, Contract!Execution
    <2>. QED  BY <2>4, <2>5, <2>6 DEF Contract!Next
  <1>. QED
    BY <1>1, <1>2, <1>3, <1>4 DEF Next, vars, serverVars, history, Retransmit,
       DiscardReply, Serve, ServeDuplicate, DropGhost

(* If every client can keep an entry, the RPC implements the contract of   *)
(* rpc.h: one execution per call at most, one result per call.             *)
THEOREM Refinement == Capacity => (Spec => ImplementsContract)
  <1>. SUFFICES ASSUME Capacity PROVE Spec => ImplementsContract
    OBVIOUS
  <1>1. Init => Contract!Init
    BY DEF Init, Contract!Init
  <1>2. OnceInv /\ [Next]_vars => OnceInv'
    BY OnceStep
  <1>3. ResultInv /\ OnceInv /\ [Next]_vars => [Contract!Next]_(Contract!absVars)
    BY ContractStep
  <1>. QED
    BY <1>1, <1>2, <1>3, OnceInit, ResultInit, ResultStep, PTL
       DEF Spec, ImplementsContract, Contract!Spec

=============================================================================

-------------------------------- MODULE Rpc --------------------------------
(***************************************************************************)
(* The at-most-once RPC of lab10 (rpc.c over net.c), with the handler of   *)
(* rpcdemo.c.  Clients retransmit a request until a reply carrying its     *)
(* sequence number arrives; the server keeps the reply to each client's    *)
(* most recent call in a table of CacheSlots entries and answers a         *)
(* retransmission from it instead of running the handler again.            *)
(*                                                                         *)
(* The network is a bag of datagrams: any datagram in it may be received   *)
(* next (reordering), and a datagram is lost when it is sent, as net_send  *)
(* does.  Duplicates arise only from retransmission.                       *)
(***************************************************************************)
EXTENDS RpcHandler, Bags

CONSTANTS
    NoClient,       \* the client field of an unused cache entry
    MaxCalls,       \* bound: calls made by each client
    MaxRetries,     \* rpc_client.max_retries
    CacheSlots      \* CACHE_SLOTS (64)

ASSUME NoClientAssumption == NoClient \notin Clients
ASSUME BoundsAssumption ==
    /\ MaxCalls \in Nat
    /\ MaxRetries \in Nat
    /\ CacheSlots \in Nat \ {0}

VARIABLES
    seq,        \* rpc_client.seq
    inflight,   \* the operation rpc_call is waiting on, <<>> when idle
    tries,      \* rpc_call's local tries
    net,        \* datagrams in transit
    cache,      \* rpc_server.cache
    evict,      \* rpc_server.evict
    running,    \* rpc_server_run has not returned
    value,      \* counter_state.value
    calls, outs, execs      \* history, as in CallService

clientVars == <<seq, inflight, tries>>
serverVars == <<cache, evict, running, value>>
history == <<calls, outs, execs>>
vars == <<clientVars, net, serverVars, history>>

Slots == 0..(CacheSlots - 1)
Idle == <<>>
Failed == [status |-> "FAIL", val |-> NoVal]
Empty == [client |-> NoClient, seq |-> 0, status |-> "OK", val |-> NoVal]

Request(c, n, op) == [kind |-> "req", client |-> c, seq |-> n, op |-> op]
ReplyTo(c, n, st, v) ==
    [kind |-> "rep", client |-> c, seq |-> n, status |-> st, val |-> v]

(* net_send: the datagram is transmitted or silently dropped. *)
AfterSend(b, m) == {b, b (+) SetToBag({m})}

(* net_recv: datagram m leaves the network. *)
Without(m) == net (-) SetToBag({m})

Init ==
    /\ seq = [c \in Clients |-> 0]
    /\ inflight = [c \in Clients |-> Idle]
    /\ tries = [c \in Clients |-> 0]
    /\ net = EmptyBag
    /\ cache = [i \in Slots |-> Empty]
    /\ evict = 0
    /\ running = TRUE
    /\ value = 0
    /\ calls = [c \in Clients |-> <<>>]
    /\ outs = [c \in Clients |-> <<>>]
    /\ execs = <<>>

-----------------------------------------------------------------------------
(* The client.                                                             *)

(* rpc_call is entered: next sequence number, first transmission. *)
Call(c, op) ==
    /\ inflight[c] = Idle
    /\ seq[c] < MaxCalls
    /\ seq' = [seq EXCEPT ![c] = @ + 1]
    /\ inflight' = [inflight EXCEPT ![c] = <<op>>]
    /\ tries' = [tries EXCEPT ![c] = 0]
    /\ net' \in AfterSend(net, Request(c, seq[c] + 1, op))
    /\ calls' = [calls EXCEPT ![c] = Append(@, op)]
    /\ UNCHANGED <<serverVars, outs, execs>>

(* net_recv timed out and a retry is left: the same request is sent again. *)
Retransmit(c) ==
    /\ inflight[c] # Idle
    /\ tries[c] < MaxRetries
    /\ tries' = [tries EXCEPT ![c] = @ + 1]
    /\ net' \in AfterSend(net, Request(c, seq[c], inflight[c][1]))
    /\ UNCHANGED <<seq, inflight, serverVars, history>>

(* rpc_call returns r. *)
Finish(c, r) ==
    /\ inflight' = [inflight EXCEPT ![c] = Idle]
    /\ outs' = [outs EXCEPT ![c] = Append(@, r)]
    /\ UNCHANGED <<seq, tries, serverVars, calls, execs>>

(* Mutant: one comparison too strict, the last timeout is never final. *)
GiveUpNever(c) ==
    /\ inflight[c] # Idle
    /\ tries[c] > MaxRetries
    /\ Finish(c, Failed)
    /\ UNCHANGED net

(* net_recv timed out after the last retry: rpc_call returns -1. *)
GiveUp(c) ==
    /\ inflight[c] # Idle
    /\ tries[c] >= MaxRetries
    /\ Finish(c, Failed)
    /\ UNCHANGED net

(* Mutant: any reply ends the call. *)
TakeReplyAny(c, m) ==
    /\ m.kind = "rep" /\ m.client = c
    /\ inflight[c] # Idle
    /\ net' = Without(m)
    /\ Finish(c, [status |-> m.status, val |-> m.val])

(* A reply to the call in flight: rpc_call returns its status and result. *)
TakeReply(c, m) ==
    /\ m.kind = "rep" /\ m.client = c
    /\ inflight[c] # Idle
    /\ m.seq = seq[c]
    /\ net' = Without(m)
    /\ Finish(c, [status |-> m.status, val |-> m.val])

(* A reply to an earlier call: discarded, rpc_call keeps waiting. *)
DiscardReply(c, m) ==
    /\ m.kind = "rep" /\ m.client = c
    /\ inflight[c] # Idle
    /\ m.seq # seq[c]
    /\ net' = Without(m)
    /\ UNCHANGED <<clientVars, serverVars, history>>

-----------------------------------------------------------------------------
(* The server: one iteration of rpc_server_run per datagram.               *)

(* cache_find(c) returns slot i: the lowest entry of c. *)
CacheFind(c, i) ==
    /\ cache[i].client = c
    /\ \A j \in Slots : cache[j].client = c => i <= j

Known(c) == \E i \in Slots : cache[i].client = c
Free(i) == cache[i].client = NoClient

(* cache_take returns slot i: the lowest free one, else the victim. *)
CacheTake(i) ==
    \/ /\ Free(i)
       /\ \A j \in Slots : Free(j) => i <= j
       /\ UNCHANGED evict
    \/ /\ \A j \in Slots : ~Free(j)
       /\ i = evict
       /\ evict' = (evict + 1) % CacheSlots

(* Mutant: the handler's reply is kept under the entry's old number. *)
ExecuteIntoStaleSeq(m, i) ==
    LET r == Handle(m.op, value) IN
    /\ value' = r.value
    /\ running' = ~r.halt
    /\ cache' = [cache EXCEPT ![i] = [client |-> m.client, seq |-> @.seq,
                                      status |-> r.status, val |-> r.val]]
    /\ net' \in AfterSend(Without(m), ReplyTo(m.client, m.seq, r.status, r.val))
    /\ execs' = Append(execs, [client |-> m.client, seq |-> m.seq, op |-> m.op,
                               status |-> r.status, val |-> r.val])
    /\ UNCHANGED <<clientVars, calls, outs>>

(* Run the handler, keep its reply in slot i, and send it. *)
ExecuteInto(m, i) ==
    LET r == Handle(m.op, value) IN
    /\ value' = r.value
    /\ running' = ~r.halt
    /\ cache' = [cache EXCEPT ![i] = [client |-> m.client, seq |-> m.seq,
                                      status |-> r.status, val |-> r.val]]
    /\ net' \in AfterSend(Without(m), ReplyTo(m.client, m.seq, r.status, r.val))
    /\ execs' = Append(execs, [client |-> m.client, seq |-> m.seq, op |-> m.op,
                               status |-> r.status, val |-> r.val])
    /\ UNCHANGED <<clientVars, calls, outs>>

(* The datagram kept in slot i. *)
CachedReply(i) ==
    ReplyTo(cache[i].client, cache[i].seq, cache[i].status, cache[i].val)

(* A retransmission of the client's most recent call: the cached reply is  *)
(* sent again and the handler is not run.                                  *)
ServeDuplicate(m) ==
    /\ running /\ m.kind = "req"
    /\ \E i \in Slots :
         /\ CacheFind(m.client, i)
         /\ cache[i].seq = m.seq
         /\ net' \in AfterSend(Without(m), CachedReply(i))
    /\ UNCHANGED <<clientVars, serverVars, history>>

(* Older than the cached call: a ghost, dropped. *)
DropGhost(m) ==
    /\ running /\ m.kind = "req"
    /\ \E i \in Slots : CacheFind(m.client, i) /\ m.seq < cache[i].seq
    /\ net' = Without(m)
    /\ UNCHANGED <<clientVars, serverVars, history>>

(* Mutant: anything but the cached call is run, ghosts included. *)
ServeKnownGhosts(m) ==
    /\ running /\ m.kind = "req"
    /\ \E i \in Slots :
         /\ CacheFind(m.client, i)
         /\ cache[i].seq # m.seq
         /\ ExecuteInto(m, i)
    /\ UNCHANGED evict

(* A newer call of a client that has a cache entry: the entry is reused. *)
ServeKnown(m) ==
    /\ running /\ m.kind = "req"
    /\ \E i \in Slots :
         /\ CacheFind(m.client, i)
         /\ cache[i].seq < m.seq
         /\ ExecuteInto(m, i)
    /\ UNCHANGED evict

(* A call of a client without an entry: cache_take finds one. *)
ServeUnknown(m) ==
    /\ running /\ m.kind = "req"
    /\ ~Known(m.client)
    /\ \E i \in Slots : CacheTake(i) /\ ExecuteInto(m, i)

Serve(m) == ServeDuplicate(m) \/ DropGhost(m) \/ ServeKnown(m) \/ ServeUnknown(m)

Next ==
    \/ \E c \in Clients :
         \/ \E op \in Ops : Call(c, op)
         \/ Retransmit(c)
         \/ GiveUp(c)
         \/ \E m \in BagToSet(net) : TakeReply(c, m) \/ DiscardReply(c, m)
    \/ \E m \in BagToSet(net) : Serve(m)

Spec == Init /\ [][Next]_vars

(* A waiting client keeps polling: its timeout expires or a reply is read. *)
Fairness == \A c \in Clients : WF_vars(Retransmit(c)) /\ WF_vars(GiveUp(c))

FairSpec == Spec /\ Fairness

-----------------------------------------------------------------------------
(* Properties.                                                             *)

OutcomeType == [status : Statuses \cup {"FAIL"}, val : Int]
EntryType == [client : Clients \cup {NoClient}, seq : Nat, status : Statuses, val : Int]
ExecType == [client : Clients, seq : Nat, op : OpType, status : Statuses, val : Int]
DatagramType ==
    [kind : {"req"}, client : Clients, seq : Nat, op : OpType]
    \cup [kind : {"rep"}, client : Clients, seq : Nat, status : Statuses, val : Int]

(* Type correctness of the client, server, network and history state. *)
TypeOK ==
    /\ seq \in [Clients -> Nat]
    /\ inflight \in [Clients -> {Idle} \cup {<<op>> : op \in Ops}]
    /\ tries \in [Clients -> Nat]
    /\ IsABag(net) /\ BagToSet(net) \subseteq DatagramType
    /\ cache \in [Slots -> EntryType]
    /\ evict \in Slots
    /\ running \in BOOLEAN
    /\ value \in Nat
    /\ calls \in [Clients -> Seq(Ops)]
    /\ outs \in [Clients -> Seq(OutcomeType)]
    /\ execs \in Seq(ExecType)

(* rpc_server_run dispatches a call at most once, however many copies of   *)
(* its request arrive, in whatever order, also after the client has given  *)
(* up on it and moved on; and it runs a client's calls in the order made.  *)
AtMostOnce ==
    \A i, j \in 1..Len(execs) :
        i < j /\ execs[i].client = execs[j].client => execs[i].seq < execs[j].seq

(* What rpc_call returns for a client's n-th call is what the handler      *)
(* produced for that very call: a late reply to an earlier call, or a      *)
(* cached one, is never taken for the answer.                              *)
ResultIsOwn ==
    \A c \in Clients : \A n \in 1..Len(outs[c]) :
        outs[c][n] # Failed =>
            \E i \in 1..Len(execs) :
                /\ execs[i].client = c /\ execs[i].seq = n
                /\ execs[i].op = calls[c][n]
                /\ execs[i].status = outs[c][n].status
                /\ execs[i].val = outs[c][n].val

(* What rpc.h promises, with this module's history as the abstract state. *)
Contract == INSTANCE CallService

(* Retransmissions, ghosts and cached replies implement the once-per-call  *)
(* service that rpc.h describes.                                           *)
ImplementsContract == Contract!Spec

(* rpc_call returns: either a reply is taken or the retries run out. *)
EveryCallReturns == \A c \in Clients : (inflight[c] # Idle) ~> (inflight[c] = Idle)
=============================================================================

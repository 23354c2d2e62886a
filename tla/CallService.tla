---------------------------- MODULE CallService ----------------------------
(***************************************************************************)
(* What rpc.h promises of a call, with no network, no retries and no reply *)
(* cache: a client has one call at a time; the server executes each call   *)
(* at most once and a client's calls in the order they were made; a call   *)
(* returns the result of its own execution, or -1.                         *)
(***************************************************************************)
EXTENDS RpcHandler

VARIABLES
    calls,      \* calls[c]: the operations c has asked for, in order
    outs,       \* outs[c]:  what those calls returned, in order
    execs,      \* the executions of the handler, in order
    value       \* the server's counter

absVars == <<calls, outs, execs, value>>

Failed == [status |-> "FAIL", val |-> NoVal]

Pending(c) == Len(outs[c]) < Len(calls[c])

(* The execution of call number n of client c. *)
Execution(c, n, op, r) ==
    [client |-> c, seq |-> n, op |-> op, status |-> r.status, val |-> r.val]

Init ==
    /\ calls = [c \in Clients |-> <<>>]
    /\ outs  = [c \in Clients |-> <<>>]
    /\ execs = <<>>
    /\ value = 0

(* rpc_call is entered. *)
Invoke(c, op) ==
    /\ ~Pending(c)
    /\ calls' = [calls EXCEPT ![c] = Append(@, op)]
    /\ UNCHANGED <<outs, execs, value>>

(* The handler is dispatched for call n of c: once, and never for a call   *)
(* older than one already dispatched for c.                                *)
Execute(c, n) ==
    /\ n \in 1..Len(calls[c])
    /\ \A i \in 1..Len(execs) : execs[i].client = c => execs[i].seq < n
    /\ LET r == Handle(calls[c][n], value) IN
         /\ execs' = Append(execs, Execution(c, n, calls[c][n], r))
         /\ value' = r.value
    /\ UNCHANGED <<calls, outs>>

(* rpc_call returns the result of the execution of this very call. *)
Return(c) ==
    /\ Pending(c)
    /\ \E i \in 1..Len(execs) :
         /\ execs[i].client = c
         /\ execs[i].seq = Len(calls[c])
         /\ outs' = [outs EXCEPT ![c] =
                Append(@, [status |-> execs[i].status, val |-> execs[i].val])]
    /\ UNCHANGED <<calls, execs, value>>

(* rpc_call returns -1: the call may or may not have been executed, and    *)
(* may still be.                                                           *)
GiveUp(c) ==
    /\ Pending(c)
    /\ outs' = [outs EXCEPT ![c] = Append(@, Failed)]
    /\ UNCHANGED <<calls, execs, value>>

Next == \E c \in Clients :
    \/ \E op \in Ops : Invoke(c, op)
    \/ \E n \in 1..Len(calls[c]) : Execute(c, n)
    \/ Return(c)
    \/ GiveUp(c)

Spec == Init /\ [][Next]_absVars

=============================================================================

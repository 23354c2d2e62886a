----------------------------- MODULE RpcHandler -----------------------------
(***************************************************************************)
(* The procedures behind the RPC server of lab10 (rpcdemo.c, handler).     *)
(*                                                                         *)
(* An operation is a procedure and one integer argument; NoArg stands for  *)
(* an argument blob that mb_get_u32 cannot decode.  A handler returns a    *)
(* status, a result value and the new value of the counter.                *)
(***************************************************************************)
EXTENDS Integers, Sequences

CONSTANTS
    Clients,        \* the client ids that call the server
    Ops,            \* the operations the clients may ask for
    MaxSlow         \* the longest sleep PROC_SLOW accepts (5000 ms)

NoArg == -1         \* missing or short argument
NoVal == -1         \* empty result blob (rlen = 0)
SlowVal == -2       \* the blob "slow"

Procs == {"ping", "inc", "get", "slow", "shutdown", "other"}
OpType == [proc : Procs, arg : Nat \cup {NoArg}]
Statuses == {"OK", "EARG", "EPROC"}
ResultType == [status : Statuses, val : Int]

ASSUME OpsAssumption == Ops \subseteq OpType
ASSUME MaxSlowAssumption == MaxSlow \in Nat

(* What a run of the handler yields: status, result, counter, RPC_HALT. *)
Reply(st, v, new, stop) == [status |-> st, val |-> v, value |-> new, halt |-> stop]

(* Mutant: RPC_HALT reaches the wire as a status of its own. *)
HandleHalt(op, value) ==
    CASE op.proc = "ping"     -> Reply("OK", op.arg, value, FALSE)
      [] op.proc = "shutdown" -> Reply("HALT", NoVal, value, TRUE)
      [] OTHER                -> Reply("EPROC", NoVal, value, FALSE)

(* handler(proc, args): RPC_HALT is reported to the caller as RPC_OK. *)
Handle(op, value) ==
    CASE op.proc = "ping"     -> Reply("OK", op.arg, value, FALSE)
      [] op.proc = "inc"      -> IF op.arg = NoArg
                                 THEN Reply("EARG", NoVal, value, FALSE)
                                 ELSE Reply("OK", value + op.arg, value + op.arg, FALSE)
      [] op.proc = "get"      -> Reply("OK", value, value, FALSE)
      [] op.proc = "slow"     -> IF op.arg = NoArg \/ op.arg > MaxSlow
                                 THEN Reply("EARG", NoVal, value, FALSE)
                                 ELSE Reply("OK", SlowVal, value, FALSE)
      [] op.proc = "shutdown" -> Reply("OK", NoVal, value, TRUE)
      [] op.proc = "other"    -> Reply("EPROC", NoVal, value, FALSE)

(* What rpcdemo's clients ask for in the runs: a call that must not run    *)
(* twice, alone or with one that stops the server.                         *)
IncOps == {[proc |-> "inc", arg |-> 1]}
IncAndShutdown == IncOps \cup {[proc |-> "shutdown", arg |-> NoArg]}
=============================================================================

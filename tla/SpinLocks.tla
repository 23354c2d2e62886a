------------------------------ MODULE SpinLocks ------------------------------
(***************************************************************************)
(* The two locks of lab05 that spin (mylock.c): test-and-test-and-set, and *)
(* the ticket lock, whose counters are unsigned ints that wrap at          *)
(* TicketMod (2^32 in the code).  The threads of a program share one lock, *)
(* of either kind.                                                         *)
(***************************************************************************)
EXTENDS Integers, Sequences

CONSTANTS
    Threads,
    TicketMod   \* at least the number of threads: the counters tell apart
                \* all the threads that can wait at one time

VARIABLES
    kind,               \* "tas" or "ticket"
    flag,               \* spinlock_t.flag
    ticket, serving,    \* ticketlock_t
    pc,                 \* "out", "xchg", "spin", "cs"
    mine,               \* mine[t]: t's number
    arrivals            \* history: the threads that took a number, oldest first

vars == <<kind, flag, ticket, serving, pc, mine, arrivals>>
tasVars == <<kind, flag>>
ticketVars == <<kind, ticket, serving, mine, arrivals>>

Goto(t, place) == pc' = [pc EXCEPT ![t] = place]

Init ==
    /\ kind \in {"tas", "ticket"}
    /\ flag = 0 /\ ticket = 0 /\ serving = 0
    /\ pc = [t \in Threads |-> "out"]
    /\ mine = [t \in Threads |-> 0]
    /\ arrivals = <<>>

-----------------------------------------------------------------------------
(* Test and test-and-set.                                                  *)

Enter(t) == kind = "tas" /\ pc[t] = "out" /\ Goto(t, "xchg") /\ UNCHANGED <<flag, ticketVars>>

(* exchange(&l->flag, 1): the old value decides. *)
Exchange(t) ==
    /\ pc[t] = "xchg"
    /\ flag' = 1
    /\ Goto(t, IF flag = 0 THEN "cs" ELSE "spin")
    /\ UNCHANGED ticketVars

(* The plain load sees 0: try the exchange again. *)
LooksFree(t) ==
    /\ kind = "tas" /\ pc[t] = "spin"
    /\ flag = 0
    /\ Goto(t, "xchg")
    /\ UNCHANGED <<flag, ticketVars>>

Clear(t) ==
    /\ kind = "tas" /\ pc[t] = "cs"
    /\ flag' = 0
    /\ Goto(t, "out")
    /\ UNCHANGED ticketVars

-----------------------------------------------------------------------------
(* The ticket lock.                                                        *)

(* mine = fetch_add(&l->ticket, 1) *)
TakeNumber(t) ==
    /\ kind = "ticket" /\ pc[t] = "out"
    /\ mine' = [mine EXCEPT ![t] = ticket]
    /\ ticket' = (ticket + 1) % TicketMod
    /\ Goto(t, "spin")
    /\ arrivals' = Append(arrivals, t)
    /\ UNCHANGED <<tasVars, serving>>

(* Mutant: anyone whose number has come up or passed may enter. *)
EnterPassed(t) ==
    /\ kind = "ticket" /\ pc[t] = "spin"
    /\ serving <= mine[t]
    /\ Goto(t, "cs")
    /\ UNCHANGED <<flag, ticketVars>>

(* The spin ends: serving = mine. *)
EnterCs(t) ==
    /\ kind = "ticket" /\ pc[t] = "spin"
    /\ serving = mine[t]
    /\ Goto(t, "cs")
    /\ UNCHANGED <<flag, ticketVars>>

(* fetch_add(&l->serving, 1) *)
CallNext(t) ==
    /\ kind = "ticket" /\ pc[t] = "cs"
    /\ serving' = (serving + 1) % TicketMod
    /\ Goto(t, "out")
    /\ LET i == CHOOSE j \in DOMAIN arrivals : arrivals[j] = t IN
       arrivals' = SubSeq(arrivals, 1, i - 1) \o SubSeq(arrivals, i + 1, Len(arrivals))
    /\ UNCHANGED <<tasVars, ticket, mine>>

Step(t) == Exchange(t) \/ LooksFree(t) \/ Clear(t) \/ EnterCs(t) \/ CallNext(t)
Next == \E t \in Threads : Enter(t) \/ TakeNumber(t) \/ Step(t)

Spec == Init /\ [][Next]_vars

(* Spinning threads and the holder are run. *)
Fairness == \A t \in Threads : WF_vars(Step(t))

-----------------------------------------------------------------------------
(* Properties.                                                             *)

(* One holder at a time, whoever loses the exchange late. *)
OneHolder == \A t, u \in Threads : pc[t] = "cs" /\ pc[u] = "cs" => t = u

(* The ticket lock is handed over in the order threads took their numbers: *)
(* the holder is the thread that has been there longest.                   *)
FirstComeFirstServed ==
    kind = "ticket" => \A t \in Threads : pc[t] = "cs" => arrivals[1] = t

(* No thread that took a number waits for ever; of those that race for the *)
(* flag, one gets it.                                                      *)
NoStarvation ==
    /\ \A t \in Threads : (kind = "ticket" /\ pc[t] = "spin") ~> (pc[t] = "cs")
    /\ (\E t \in Threads : pc[t] \in {"xchg", "spin"}) ~> (\E t \in Threads : pc[t] = "cs")
=============================================================================

------------------------------ MODULE MCProgress ------------------------------
(***************************************************************************)
(* For TLC: programs whose promises include progress, the stop-and-wait    *)
(* transport of lab10, the schedulers of lab02, the shell's pipelines of   *)
(* lab01, the disk driver of xv6 and the event-driven server of lab05.  A  *)
(* behaviour is that of one of them, picked by subject; the others stay as *)
(* they were initialised.  The bounds of the shell are those of its        *)
(* INSTANCE.                                                               *)
(***************************************************************************)
EXTENDS Reliable

CONSTANTS
    NPROC, NPRIO, MLFQ_BOOST, MaxTickets,   \* of Sched
    Requesters, NUM,                        \* of VirtioDisk
    Clients, Patient, Tables, WS_REQ_MAX, OutLen, Room  \* of WsEvent

ASSUME ProgramsAssumption ==
    /\ NPROC \in Nat \ {0} /\ NPRIO \in Nat \ {0}
    /\ MLFQ_BOOST \in Nat /\ MaxTickets \in Nat
    /\ IsFiniteSet(Requesters) /\ 0 \notin Requesters /\ NUM \in Nat
    /\ IsFiniteSet(Clients) /\ Patient \subseteq Clients
    /\ Tables \subseteq Nat \ {0}
    /\ WS_REQ_MAX \in Nat \ {0} /\ OutLen \in Nat \ {0} /\ Room \in Nat \ {0}

VARIABLES
    subject,
    policy, state, prio, allot, tickets, cpu, scan, found, rr_next, since, stalled,
    shPc, line, at, shell, ns, bg, failed, jobs, st, ends, holds, buf,
    free, next, b, status, avail, used, taken, isr, handler, busy, served, vdPc, idx,
    sock, fd, in, out, pieces, asked, got, hung, conns, rd, wr, wsPc

schedVars == <<policy, state, prio, allot, tickets, cpu, scan, found, rr_next, since, stalled>>
shellVars == <<shPc, line, at, shell, ns, bg, failed, jobs, st, ends, holds, buf>>
diskVars == <<free, next, b, status, avail, used, taken, isr, handler, busy, served, vdPc, idx>>
webVars == <<sock, fd, in, out, pieces, asked, got, hung, conns, rd, wr, wsPc>>
allVars == <<subject, vars, schedVars, shellVars, diskVars, webVars>>

Sc == INSTANCE Sched
Sh == INSTANCE Pipeline WITH
    pc <- shPc, i <- at,
    Scripts <- {<<3, 0>>, <<2, 1>>, <<1, 2>>}, Lines <- {1, 2},
    MAX_STAGES <- 3, MAX_JOBS <- 1, Capacity <- 1
Vd == INSTANCE VirtioDisk WITH pc <- vdPc, Procs <- Requesters
Ws == INSTANCE WsEvent WITH pc <- wsPc

(* A component that is not the subject starts in one of its initial states. *)
Is(s, fixed) == subject = s \/ fixed

Initially ==
    /\ subject \in {"reliable", "sched", "shell", "disk", "web"}
    /\ Init /\ Vd!Init
    /\ Sc!Init /\ Is("sched", policy = "RR")
    /\ Sh!Init /\ Is("shell", ns[1] = 1)
    /\ Ws!Init /\ Is("web", Len(conns) = 1)

Only(s) ==
    /\ subject = s /\ UNCHANGED subject
    /\ IF s = "reliable" THEN TRUE ELSE UNCHANGED vars
    /\ IF s = "sched" THEN TRUE ELSE UNCHANGED schedVars
    /\ IF s = "shell" THEN TRUE ELSE UNCHANGED shellVars
    /\ IF s = "disk" THEN TRUE ELSE UNCHANGED diskVars
    /\ IF s = "web" THEN TRUE ELSE UNCHANGED webVars

Step ==
    \/ Only("reliable") /\ Next
    \/ Only("sched") /\ Sc!Next
    \/ Only("shell") /\ Sh!Next
    \/ Only("disk") /\ Vd!Next
    \/ Only("web") /\ Ws!Next

(* The fairness of each component.  In the initial states of the first     *)
(* three something fair is enabled; it is owed only if they are the        *)
(* subject.                                                                *)
ProgressFairness ==
    /\ WF_vars(subject = "reliable" /\ Send) /\ WF_vars(subject = "reliable" /\ Retransmit)
    /\ WF_vars(subject = "reliable" /\ GiveUp) /\ WF_vars(subject = "reliable" /\ Drain)
    /\ WF_schedVars(subject = "sched" /\ (Sc!NextPass \/ Sc!Idle \/ \E p \in Sc!Procs : Sc!Choose(p)))
    /\ WF_schedVars(subject = "sched" /\ Sc!Tick)
    /\ WF_shellVars(subject = "shell" /\ Sh!Shell)
    /\ \A l \in {1, 2}, k \in 0..2 : WF_shellVars(subject = "shell" /\ Sh!Child(l, k))
    /\ Vd!Fairness /\ Ws!Fairness

ProgressSpec == Initially /\ [][Step]_allVars /\ ProgressFairness

-----------------------------------------------------------------------------
(* Properties of the components, as their modules state them; Reliable's   *)
(* are its own, for the behaviours that are Reliable's.                    *)

(* The schedulers: a pass never comes out empty over a runnable process.   *)
NeverStalls == Sc!NeverStalls

(* The disk driver: requests share nothing, none is lost, and a call       *)
(* returns only after its own transfer.                                    *)
RequestsApart == Vd!RequestsApart

(* The web server: everybody's own response, and no event of one           *)
(* connection taken for another's.                                         *)
ResponsesApart == Ws!OwnResponse /\ Ws!OwnDescriptor

(* The shell: a pipeline ends once one of its stages has. *)
PipelineEnds == Sh!PipelineEnds

(* The transport's programs stop, round robin and the feedback queue starve *)
(* nobody, the driver's requests and waits end, and a web client that reads *)
(* on is served.                                                           *)
ProgramsGetOn ==
    /\ subject = "reliable" => BothStop
    /\ subject = "sched" => Sc!NoStarvation
    /\ Vd!RequestsEnd /\ Ws!ClientsServed
=============================================================================

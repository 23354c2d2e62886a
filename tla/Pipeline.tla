------------------------------- MODULE Pipeline -------------------------------
(***************************************************************************)
(* The shell of lab01 (msh.c) running pipelines: pipe, fork, dup2 and      *)
(* close in the shell and its children, the waits, and the job table with  *)
(* the sweep at the prompt.  Every stage passes on what it reads, one      *)
(* piece at a time, and the first has input without end; a stage may also  *)
(* end at any moment, as head does.  Files are redirected at the two ends  *)
(* of a pipeline only, where they touch no pipe.                           *)
(***************************************************************************)
EXTENDS Integers, FiniteSets

CONSTANTS
    Scripts,        \* bound: the stages of each line typed, 0 if there is none
    Lines, MAX_STAGES, MAX_JOBS,
    Capacity        \* of a pipe, in pieces

VARIABLES
    pc, line, i,    \* the shell: where it is, the line and the stage it is at
    shell,          \* the pipe ends the shell has open
    ns, bg,         \* of each line
    failed,         \* lines whose pipe or fork failed
    jobs,           \* lines with an entry in the job table
    st,             \* the processes: st[l][k] is stage k of line l
    ends,           \* the pipe ends each of them has open
    holds,          \* a filter has a piece it has not passed on
    buf             \* pieces in pipe k of line l

vars == <<pc, line, i, shell, ns, bg, failed, jobs, st, ends, holds, buf>>

Stages == 0..(MAX_STAGES - 1)
Of(l) == 0..(ns[l] - 1)
End(l, k, e) == <<l, k, e>>
Pipe(l, k) == {End(l, k, "r"), End(l, k, "w")}
PerStage(v) == [l \in Lines |-> [k \in Stages |-> v]]

Init ==
    /\ pc = "sweep" /\ line = 0 /\ i = 0
    /\ shell = {}
    /\ ns \in Scripts /\ bg = [l \in Lines |-> FALSE]
    /\ failed = {} /\ jobs = {}
    /\ st = PerStage("none") /\ ends = PerStage({})
    /\ holds = PerStage(FALSE) /\ buf = PerStage(0)

-----------------------------------------------------------------------------
(* The shell.                                                              *)

(* reap_finished: waitpid(-1, WNOHANG) until nobody is left to reap; the   *)
(* job is over when its leader is.                                         *)
Sweep(l, k) ==
    /\ pc = "sweep" /\ st[l][k] = "zombie"
    /\ st' = [st EXCEPT ![l][k] = "reaped"]
    /\ jobs' = IF k = 0 THEN jobs \ {l} ELSE jobs
    /\ UNCHANGED <<pc, line, i, shell, ns, bg, failed, ends, holds, buf>>

Swept ==
    /\ pc = "sweep" /\ \A l \in Lines, k \in Stages : st[l][k] # "zombie"
    /\ pc' = "prompt"
    /\ UNCHANGED <<line, i, shell, ns, bg, failed, jobs, st, ends, holds, buf>>

ReadLine(b) ==
    /\ pc = "prompt" /\ line + 1 \in Lines /\ ns[line + 1] > 0
    /\ line' = line + 1 /\ i' = 0
    /\ bg' = [bg EXCEPT ![line + 1] = b]
    /\ pc' = IF ns[line + 1] > 1 THEN "pipe" ELSE "fork"
    /\ UNCHANGED <<shell, ns, failed, jobs, st, ends, holds, buf>>

(* A blank line, a syntax error or a builtin: the sweep, and a prompt. *)
OtherLine ==
    /\ pc = "prompt"
    /\ pc' = "sweep"
    /\ UNCHANGED <<line, i, shell, ns, bg, failed, jobs, st, ends, holds, buf>>

(* Ctrl-D or exit. *)
Quit ==
    /\ pc = "prompt"
    /\ pc' = "gone" /\ shell' = {}
    /\ UNCHANGED <<line, i, ns, bg, failed, jobs, st, ends, holds, buf>>

MakePipe ==
    /\ pc = "pipe"
    /\ shell' = shell \cup Pipe(line, i)
    /\ pc' = "fork"
    /\ UNCHANGED <<line, i, ns, bg, failed, jobs, st, ends, holds, buf>>

(* The child starts with a copy of every descriptor of the shell. *)
Fork ==
    /\ pc = "fork"
    /\ st' = [st EXCEPT ![line][i] = "forked"]
    /\ ends' = [ends EXCEPT ![line][i] = shell]
    /\ pc' = "close"
    /\ UNCHANGED <<line, i, shell, ns, bg, failed, jobs, holds, buf>>

(* pipe or fork fails: run_pipeline returns at once. *)
Fails ==
    /\ pc \in {"pipe", "fork"}
    /\ failed' = failed \cup {line}
    /\ pc' = "sweep"
    /\ UNCHANGED <<line, i, shell, ns, bg, jobs, st, ends, holds, buf>>

(* The next iteration, or the end of the loop. *)
Onward ==
    IF i = ns[line] - 1 THEN pc' = "started" /\ i' = 0
    ELSE i' = i + 1 /\ pc' = IF i + 1 < ns[line] - 1 THEN "pipe" ELSE "fork"

(* Mutant: the shell keeps its write end of the pipe. *)
ClosePrevHalf ==
    /\ pc = "close"
    /\ shell' = shell \ {End(line, i - 1, "r")}
    /\ Onward
    /\ UNCHANGED <<line, ns, bg, failed, jobs, st, ends, holds, buf>>

(* The shell closes both ends of pipe i-1. *)
ClosePrev ==
    /\ pc = "close"
    /\ shell' = shell \ Pipe(line, i - 1)
    /\ Onward
    /\ UNCHANGED <<line, ns, bg, failed, jobs, st, ends, holds, buf>>

(* job_add, if there is an entry left; a foreground job is waited for. *)
Started ==
    /\ pc = "started"
    /\ jobs' = IF bg[line] /\ Cardinality(jobs) < MAX_JOBS THEN jobs \cup {line} ELSE jobs
    /\ pc' = IF bg[line] THEN "sweep" ELSE "wait"
    /\ UNCHANGED <<line, i, shell, ns, bg, failed, st, ends, holds, buf>>

WaitPid ==
    /\ pc = "wait" /\ st[line][i] = "zombie"
    /\ st' = [st EXCEPT ![line][i] = "reaped"]
    /\ IF i = ns[line] - 1 THEN pc' = "sweep" /\ i' = 0 ELSE i' = i + 1 /\ UNCHANGED pc
    /\ UNCHANGED <<line, shell, ns, bg, failed, jobs, ends, holds, buf>>

-----------------------------------------------------------------------------
(* The children.                                                           *)

In(l, k) == End(l, k - 1, "r")
Out(l, k) == End(l, k, "w")
Open(e) == e \in shell \/ \E l \in Lines, k \in Stages : e \in ends[l][k]

Goes(l, k) ==
    /\ st' = [st EXCEPT ![l][k] = "zombie"]
    /\ ends' = [ends EXCEPT ![l][k] = {}]
    /\ UNCHANGED <<pc, line, i, shell, ns, bg, failed, jobs, holds, buf>>

(* Mutant: the child keeps the other end of the pipe it writes. *)
ExecCareless(l, k) ==
    /\ st[l][k] = "forked"
    /\ ends' = [ends EXCEPT ![l][k] = @ \ (Pipe(l, k - 1) \ {In(l, k)})]
    /\ st' = [st EXCEPT ![l][k] = "runs"]
    /\ UNCHANGED <<pc, line, i, shell, ns, bg, failed, jobs, holds, buf>>

(* dup2 onto 0 and 1, the closes, execvp: of the pipes on its two sides    *)
(* the child keeps the end it reads and the end it writes.                 *)
Exec(l, k) ==
    /\ st[l][k] = "forked"
    /\ ends' = [ends EXCEPT ![l][k] = @ \ ((Pipe(l, k - 1) \cup Pipe(l, k)) \ {In(l, k), Out(l, k)})]
    /\ st' = [st EXCEPT ![l][k] = "runs"]
    /\ UNCHANGED <<pc, line, i, shell, ns, bg, failed, jobs, holds, buf>>

Read(l, k) ==
    /\ st[l][k] = "runs" /\ k > 0 /\ ~holds[l][k]
    /\ buf[l][k - 1] > 0
    /\ buf' = [buf EXCEPT ![l][k - 1] = @ - 1]
    /\ holds' = [holds EXCEPT ![l][k] = k < ns[l] - 1]
    /\ UNCHANGED <<pc, line, i, shell, ns, bg, failed, jobs, st, ends>>

(* The pipe is empty and every copy of its write end is closed. *)
ReadEof(l, k) ==
    /\ st[l][k] = "runs" /\ k > 0 /\ ~holds[l][k]
    /\ buf[l][k - 1] = 0 /\ ~Open(End(l, k - 1, "w"))
    /\ Goes(l, k)

HasOutput(l, k) == st[l][k] = "runs" /\ k < ns[l] - 1 /\ (k = 0 \/ holds[l][k])

Write(l, k) ==
    /\ HasOutput(l, k)
    /\ Open(End(l, k, "r")) /\ buf[l][k] < Capacity
    /\ buf' = [buf EXCEPT ![l][k] = @ + 1]
    /\ holds' = [holds EXCEPT ![l][k] = FALSE]
    /\ UNCHANGED <<pc, line, i, shell, ns, bg, failed, jobs, st, ends>>

(* SIGPIPE: every copy of the read end is closed. *)
WritePipe(l, k) ==
    /\ HasOutput(l, k)
    /\ ~Open(End(l, k, "r"))
    /\ Goes(l, k)

(* A redirection or exec fails, the command ends, a signal. *)
Exit(l, k) == st[l][k] \in {"forked", "runs"} /\ Goes(l, k)

Shell ==
    \/ Swept \/ MakePipe \/ Fork \/ ClosePrev \/ Started \/ WaitPid
    \/ \E l \in Lines, k \in Stages : Sweep(l, k)

Child(l, k) == Exec(l, k) \/ Read(l, k) \/ ReadEof(l, k) \/ Write(l, k) \/ WritePipe(l, k)

Next ==
    \/ Shell \/ Fails \/ OtherLine \/ Quit
    \/ \E b \in BOOLEAN : ReadLine(b)
    \/ \E l \in Lines, k \in Stages : Child(l, k) \/ Exit(l, k)

(* The processes are scheduled; nobody has to type a line or to end. *)
Fairness ==
    /\ WF_vars(Shell)
    /\ \A l \in Lines, k \in Stages : WF_vars(Child(l, k))

Spec == Init /\ [][Next]_vars

-----------------------------------------------------------------------------
(* Properties.                                                             *)

Gone(l, k) == st[l][k] \in {"zombie", "reaped"}

(* A pipe of line l is open in the shell or in a command of another line. *)
Stray(l) ==
    \E k \in Stages : \E e \in Pipe(l, k) :
        e \in shell \/ \E m \in Lines \ {l}, j \in Stages : e \in ends[m][j]

(* Once one stage of a pipeline has ended, all of it ends and the shell    *)
(* is not left waiting: those before it find no reader, those after it the *)
(* end of the file, whatever else was started in the meantime.  After a    *)
(* pipe or a fork that failed this holds for the stages that were started, *)
(* unless the ends the shell did not close are still open in the shell, or *)
(* in what it has started since.                                           *)
PipelineEnds ==
    \A l \in Lines : (\E k \in Stages : Gone(l, k)) ~>
        \/ /\ \A k \in Of(l) : Gone(l, k) \/ (l \in failed /\ st[l][k] = "none")
           /\ ~(pc = "wait" /\ line = l)
        \/ l \in failed /\ Stray(l)
=============================================================================

------------------------------ MODULE Launcher ------------------------------
(***************************************************************************)
(* The container launcher of lab11 (mycontainer.c): the launcher and the   *)
(* child it clones, the pipe on which the child waits for its release, the *)
(* failure exits, and the signals either may get.  The child holds a copy  *)
(* of the pipe's write end, so its read ends with a byte or not at all.    *)
(***************************************************************************)
EXTENDS Integers

VARIABLES
    userns, limits,     \* --no-userns was not given; --mem or --pids was
    pc,                 \* the launcher
    cpc,                \* the child
    byte,               \* the release byte is in the pipe
    armed,              \* the child has set PR_SET_PDEATHSIG
    maps,               \* the uid and gid maps are written
    cgroup              \* "none", "made", or "joined" by the child

vars == <<userns, limits, pc, cpc, byte, armed, maps, cgroup>>

Alive == cpc \in {"read", "prctl", "setup", "run"}
Left == pc = "gone"

Init ==
    /\ userns \in BOOLEAN /\ limits \in BOOLEAN
    /\ pc = "clone" /\ cpc = "none"
    /\ byte = FALSE /\ armed = FALSE /\ maps = FALSE
    /\ cgroup = "none"

-----------------------------------------------------------------------------
(* The launcher.                                                           *)

(* The launcher ends; a child that has armed itself is killed with it. *)
Ends ==
    /\ pc' = "gone"
    /\ cpc' = IF armed /\ Alive THEN "gone" ELSE cpc

(* pipe and clone; a failure ends the program with nothing to clean up. *)
Clone ==
    /\ pc = "clone"
    /\ \/ pc' = "signal" /\ cpc' = "read"
       \/ pc' = "gone" /\ UNCHANGED cpc
    /\ UNCHANGED <<userns, limits, byte, armed, maps, cgroup>>

(* g_child is set and the handlers are installed. *)
Handlers ==
    /\ pc = "signal"
    /\ pc' = "maps"
    /\ UNCHANGED <<userns, limits, cpc, byte, armed, maps, cgroup>>

WriteMaps ==
    /\ pc = "maps"
    /\ maps' = userns
    /\ pc' = "cgroup"
    /\ UNCHANGED <<userns, limits, cpc, byte, armed, cgroup>>

(* cgroup_setup, when a limit is asked for: the directory and its files. *)
MakeCgroup ==
    /\ pc = "cgroup"
    /\ cgroup' = IF limits THEN "made" ELSE cgroup
    /\ pc' = IF limits THEN "admit" ELSE "release"
    /\ UNCHANGED <<userns, limits, cpc, byte, armed, maps>>

(* cgroup_admit: the child and all it forks land in the cgroup. *)
Admit ==
    /\ pc = "admit"
    /\ cgroup' = "joined"
    /\ pc' = "release"
    /\ UNCHANGED <<userns, limits, cpc, byte, armed, maps>>

(* Mutant: the child is released before its limits are in place. *)
ReleaseEarly ==
    /\ pc \in {"cgroup", "release"}
    /\ byte' = TRUE
    /\ pc' = IF pc = "cgroup" THEN pc ELSE "wait"
    /\ UNCHANGED <<userns, limits, cpc, armed, maps, cgroup>>

(* The write of the byte; without a reader left it is a SIGPIPE. *)
Release ==
    /\ pc = "release"
    /\ byte' = (cpc # "gone")
    /\ pc' = IF cpc = "gone" THEN "gone" ELSE "wait"
    /\ UNCHANGED <<userns, limits, cpc, armed, maps, cgroup>>

(* write_file fails on a map or a cgroup file: exit(1).  The child, and    *)
(* the directory if it was made, are left as they are.                     *)
SetupFails ==
    /\ pc \in {"maps", "cgroup", "admit", "release"}
    /\ cgroup' = IF pc = "cgroup" /\ limits THEN "made" ELSE cgroup
    /\ Ends
    /\ UNCHANGED <<userns, limits, byte, armed, maps>>

(* waitpid returns, the directory is removed, main returns. *)
Reap ==
    /\ pc = "wait" /\ cpc = "gone"
    /\ cgroup' = "none"
    /\ Ends
    /\ UNCHANGED <<userns, limits, byte, armed, maps>>

(* SIGINT or SIGTERM once the handlers are there: on_signal kills the      *)
(* child, reaps it and removes the directory.                              *)
OnSignal ==
    /\ pc \in {"maps", "cgroup", "admit", "release", "wait"}
    /\ cpc' = "gone" /\ cgroup' = "none" /\ pc' = "gone"
    /\ UNCHANGED <<userns, limits, byte, armed, maps>>

(* SIGKILL at any time, or SIGTERM before the handlers are installed. *)
Killed ==
    /\ pc # "gone"
    /\ Ends
    /\ UNCHANGED <<userns, limits, byte, armed, maps, cgroup>>

-----------------------------------------------------------------------------
(* The child.                                                              *)

(* Mutant: the read ends without a byte when the launcher is gone. *)
ReadEof ==
    /\ cpc = "read" /\ (byte \/ Left)
    /\ byte' = FALSE
    /\ cpc' = "prctl"
    /\ UNCHANGED <<userns, limits, pc, armed, maps, cgroup>>

Read ==
    /\ cpc = "read" /\ byte
    /\ byte' = FALSE
    /\ cpc' = "prctl"
    /\ UNCHANGED <<userns, limits, pc, armed, maps, cgroup>>

(* Mutant: the child never asks for the signal. *)
ArmNot ==
    /\ cpc = "prctl"
    /\ cpc' = "setup"
    /\ UNCHANGED <<userns, limits, pc, byte, armed, maps, cgroup>>

(* prctl(PR_SET_PDEATHSIG) is about a death still to come. *)
Arm ==
    /\ cpc = "prctl"
    /\ armed' = ~Left
    /\ cpc' = "setup"
    /\ UNCHANGED <<userns, limits, pc, byte, maps, cgroup>>

(* The mounts and pivot_root, then execvp. *)
Setup ==
    /\ cpc = "setup"
    /\ cpc' = "run"
    /\ UNCHANGED <<userns, limits, pc, byte, armed, maps, cgroup>>

(* die in the child, the end of the command, or a signal it gets. *)
ChildEnds ==
    /\ Alive
    /\ cpc' = "gone"
    /\ UNCHANGED <<userns, limits, pc, byte, armed, maps, cgroup>>

Done == Left /\ ~Alive /\ UNCHANGED vars

LauncherStep == Clone \/ Handlers \/ WriteMaps \/ MakeCgroup \/ Admit \/ Release \/ Reap
ChildStep == Read \/ Arm \/ Setup

Next == LauncherStep \/ SetupFails \/ OnSignal \/ Killed \/ ChildStep \/ ChildEnds \/ Done

(* Both processes are run; nothing ends a command that does not end. *)
Fairness == WF_vars(LauncherStep) /\ WF_vars(ChildStep)

Spec == Init /\ [][Next]_vars
FairSpec == Spec /\ Fairness

-----------------------------------------------------------------------------
(* Properties.                                                             *)

(* The child goes past the barrier only when its maps are written and it   *)
(* is in its cgroup, and from its first mount on it does not outlive a     *)
(* launcher that ends, however that ends.                                  *)
Contained ==
    /\ [](cpc \in {"prctl", "setup", "run"} =>
             (userns => maps) /\ (limits => cgroup = "joined"))
    /\ [][~Left /\ Left' /\ cpc \in {"setup", "run"} => ~Alive']_vars

(* A launcher that has ended leaves no container process behind. *)
NoOrphan == Left ~> ~Alive
=============================================================================

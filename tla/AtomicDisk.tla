----------------------------- MODULE AtomicDisk -----------------------------
(***************************************************************************)
(* What the journal of lab09 promises: the writes of an operation reach    *)
(* the disk all at once or, if the power fails first, not at all; the      *)
(* operation reads its own writes; and when end_op has returned they are   *)
(* there to stay.                                                          *)
(***************************************************************************)
CONSTANTS Blocks, Vals

VARIABLES
    disk,       \* what a crash now would leave, once recovery has run
    view,       \* what the running program reads
    inOp        \* between begin_op and the return of end_op

diskVars == <<disk, view, inOp>>

Init == disk \in [Blocks -> Vals] /\ view = disk /\ inOp = FALSE

BeginOp == ~inOp /\ inOp' = TRUE /\ UNCHANGED <<disk, view>>

Write(b, v) ==
    /\ inOp
    /\ view' = [view EXCEPT ![b] = v]
    /\ UNCHANGED <<disk, inOp>>

Commit == inOp /\ disk' = view /\ UNCHANGED <<view, inOp>>

EndOp == inOp /\ disk = view /\ inOp' = FALSE /\ UNCHANGED <<disk, view>>

Crash == view' = disk /\ inOp' = FALSE /\ UNCHANGED disk

Next ==
    \/ BeginOp \/ Commit \/ EndOp \/ Crash
    \/ \E b \in Blocks, v \in Vals : Write(b, v)

Spec == Init /\ [][Next]_diskVars
=============================================================================

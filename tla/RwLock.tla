------------------------------- MODULE RwLock -------------------------------
(***************************************************************************)
(* The readers-writer lock of lab05 (toolkit.c), built from semaphores.    *)
(* One step is one semaphore operation; readers is touched only between    *)
(* wait and post of mutex, so counting goes with the wait.                 *)
(***************************************************************************)
EXTENDS Integers, FiniteSets

CONSTANTS Readers, Writers      \* disjoint sets of threads

VARIABLES
    readers,                        \* rwlock.readers
    rwMutex, roomEmpty, turnstile,  \* rwlock.mutex and the others: the values of the three semaphores
    pc,                             \* pc[t]: the next semaphore operation of t
    late,       \* history: late[w]: the readers that called since w did
    behind      \* history: behind[w]: those not past the door when w shut it

vars == <<readers, rwMutex, roomEmpty, turnstile, pc, late, behind>>

Everyone == Readers \cup Writers

At(P) == {t \in Everyone : pc[t] \in P}

P(s) == s > 0 /\ s' = s - 1
V(s) == s' = s + 1
Move(t, from, to) == pc[t] = from /\ pc' = [pc EXCEPT ![t] = to]

Init ==
    /\ readers = 0
    /\ rwMutex = 1 /\ roomEmpty = 1 /\ turnstile = 1
    /\ pc = [t \in Everyone |-> "out"]
    /\ late = [w \in Writers |-> {}]
    /\ behind = [w \in Writers |-> {}]

(* rw_acquire_read *)

CallRead(r) ==
    /\ Move(r, "out", "door")
    /\ late' = [w \in Writers |-> late[w] \cup {r}]
    /\ behind' = [w \in Writers |-> behind[w] \cup {r}]
    /\ UNCHANGED <<readers, rwMutex, roomEmpty, turnstile>>

(* wait(turnstile), post(turnstile) *)
PassDoor(r) ==
    /\ Move(r, "door", "through") /\ P(turnstile)
    /\ UNCHANGED <<readers, rwMutex, roomEmpty, late, behind>>

LeaveDoor(r) ==
    /\ Move(r, "through", "enter") /\ V(turnstile)
    /\ UNCHANGED <<readers, rwMutex, roomEmpty, late, behind>>

(* Mutant: every reader but the first locks the room. *)
EnterRoomLater(r) ==
    /\ P(rwMutex)
    /\ readers' = readers + 1
    /\ Move(r, "enter", IF readers > 0 THEN "lockRoom" ELSE "entered")
    /\ UNCHANGED <<roomEmpty, turnstile, late, behind>>

(* wait(mutex); ++readers: the first one locks the room. *)
EnterRoom(r) ==
    /\ P(rwMutex)
    /\ readers' = readers + 1
    /\ Move(r, "enter", IF readers + 1 = 1 THEN "lockRoom" ELSE "entered")
    /\ UNCHANGED <<roomEmpty, turnstile, late, behind>>

LockRoom(r) ==
    /\ Move(r, "lockRoom", "entered") /\ P(roomEmpty)
    /\ UNCHANGED <<readers, rwMutex, turnstile, late, behind>>

(* post(mutex): rw_acquire_read returns. *)
Entered(r) ==
    /\ Move(r, "entered", "reading") /\ V(rwMutex)
    /\ UNCHANGED <<readers, roomEmpty, turnstile, late, behind>>

(* rw_release_read *)

(* wait(mutex); --readers: the last one unlocks the room. *)
LeaveRoom(r) ==
    /\ P(rwMutex)
    /\ readers' = readers - 1
    /\ Move(r, "reading", IF readers - 1 = 0 THEN "unlockRoom" ELSE "left")
    /\ UNCHANGED <<roomEmpty, turnstile, late, behind>>

(* Mutant: the last reader leaves the room locked. *)
UnlockRoomNot(r) ==
    /\ Move(r, "unlockRoom", "left")
    /\ UNCHANGED <<readers, rwMutex, roomEmpty, turnstile, late, behind>>

UnlockRoom(r) ==
    /\ Move(r, "unlockRoom", "left") /\ V(roomEmpty)
    /\ UNCHANGED <<readers, rwMutex, turnstile, late, behind>>

Left(r) ==
    /\ Move(r, "left", "out") /\ V(rwMutex)
    /\ UNCHANGED <<readers, roomEmpty, turnstile, late, behind>>

(* rw_acquire_write *)

CallWrite(w) ==
    /\ Move(w, "out", "door")
    /\ late' = [late EXCEPT ![w] = {}]
    /\ UNCHANGED <<readers, rwMutex, roomEmpty, turnstile, behind>>

(* Mutant: the writer passes the door as the readers do. *)
ShutDoorNot(w) ==
    /\ turnstile > 0
    /\ Move(w, "door", "room")
    /\ behind' = [behind EXCEPT ![w] = At({"out", "door"}) \cap Readers]
    /\ UNCHANGED <<readers, rwMutex, roomEmpty, turnstile, late>>

(* wait(turnstile), and keep it. *)
ShutDoor(w) ==
    /\ Move(w, "door", "room") /\ P(turnstile)
    /\ behind' = [behind EXCEPT ![w] = At({"out", "door"}) \cap Readers]
    /\ UNCHANGED <<readers, rwMutex, roomEmpty, late>>

(* wait(room_empty): rw_acquire_write returns. *)
TakeRoom(w) ==
    /\ Move(w, "room", "writing") /\ P(roomEmpty)
    /\ UNCHANGED <<readers, rwMutex, turnstile, late, behind>>

(* rw_release_write *)

OpenDoor(w) ==
    /\ Move(w, "writing", "openRoom") /\ V(turnstile)
    /\ UNCHANGED <<readers, rwMutex, roomEmpty, late, behind>>

OpenRoom(w) ==
    /\ Move(w, "openRoom", "out") /\ V(roomEmpty)
    /\ UNCHANGED <<readers, rwMutex, turnstile, late, behind>>

ReaderStep(r) ==
    \/ PassDoor(r) \/ LeaveDoor(r) \/ EnterRoom(r) \/ LockRoom(r) \/ Entered(r)
    \/ LeaveRoom(r) \/ UnlockRoom(r) \/ Left(r)

WriterStep(w) == ShutDoor(w) \/ TakeRoom(w) \/ OpenDoor(w) \/ OpenRoom(w)

Next ==
    \/ \E r \in Readers : CallRead(r) \/ ReaderStep(r)
    \/ \E w \in Writers : CallWrite(w) \/ WriterStep(w)

Spec == Init /\ [][Next]_vars

(* Everyone inside the lock are run, readers and writers finish, and a wait *)
(* on a semaphore that stays positive returns.                             *)
Fairness ==
    /\ \A r \in Readers : WF_vars(ReaderStep(r))
    /\ \A w \in Writers : WF_vars(WriterStep(w))

-----------------------------------------------------------------------------
(* Properties.                                                             *)

(* Any number of readers or one writer, never both: from the moment an     *)
(* acquire returns until its release lets go of the room.                  *)
OneWriter == \A w, u \in Writers : pc[w] = "writing" /\ pc[u] = "writing" => w = u
NoReaders == \A w \in Writers, r \in Readers : ~(pc[w] = "writing" /\ pc[r] = "reading")

GetsIn(r) == pc[r] # "reading" /\ pc'[r] = "reading"

(* Once a writer has the turnstile, only the readers already past the door *)
(* get in before it.                                                       *)
DoorHolds ==
    [][\A w \in Writers : pc[w] = "room" => \A r \in behind[w] : ~GetsIn(r)]_vars

(* A waiting writer is not overtaken by readers that arrive after it       *)
(* called rw_acquire_write.                                                *)
WriterNotOvertaken ==
    [][\A w \in Writers : pc[w] \in {"door", "room"} =>
         \A r \in late[w] : ~GetsIn(r)]_vars

(* Readers and writers never wait for each other in a circle of mutex,     *)
(* turnstile and room: whoever calls for the lock, somebody gets in, and a *)
(* writer that has shut the door gets the room, although the first reader  *)
(* may wait for it with mutex held.                                        *)
Progress ==
    /\ (At({"door", "through", "enter", "lockRoom", "entered", "room"}) # {})
         ~> (At({"reading", "writing"}) # {})
    /\ \A w \in Writers : (pc[w] = "room") ~> (pc[w] = "writing")
=============================================================================

-------------------------------- MODULE Inodes --------------------------------
(***************************************************************************)
(* The life of an inode in the lab07 kernel (fs.c, sysfile.c): names in    *)
(* one directory, link counts on disk, references in the inode table, and  *)
(* the system calls of several processes that make and drop them.  Every   *)
(* call is a transaction of the log, which XvLog models: here a crash      *)
(* takes back all that has happened since nobody was inside a call.        *)
(***************************************************************************)
EXTENDS Integers, FiniteSets

CONSTANTS
    Procs, Names,
    Inums           \* the inode numbers; 0 is none

VARIABLES
    dir, type, nlink,   \* the directory, and the inodes as iupdate left them
    saved,              \* the same three, as last committed
    ref, valid,         \* the inode table
    dpLock, ipLock,     \* holders of dp->lock and ip->lock, 0 for nobody
    pc, ip, name,       \* the call each process is in
    file,               \* the inode of each process's open file
    up                  \* boot is over

vars == <<dir, type, nlink, saved, ref, valid, dpLock, ipLock, pc, ip, name, file, up>>
NoName == "none"
Disk == [dir |-> dir, type |-> type, nlink |-> nlink]

Zeros == [i \in Inums |-> 0]
Idle == [p \in Procs |-> 0]

Init ==
    /\ dir = [n \in Names |-> 0]
    /\ type = [i \in Inums |-> FALSE] /\ nlink = Zeros
    /\ saved = Disk
    /\ ref = Zeros /\ valid = [i \in Inums |-> FALSE]
    /\ dpLock = 0 /\ ipLock = Zeros
    /\ pc = [p \in Procs |-> "user"] /\ ip = Idle /\ file = Idle
    /\ name = [p \in Procs |-> NoName]
    /\ up = TRUE

Goto(p, place) == pc' = [pc EXCEPT ![p] = place]

(* iget: a recycled entry is not valid until ilock has read the disk. *)
IGet(p, i) ==
    /\ ref' = [ref EXCEPT ![i] = @ + 1]
    /\ valid' = [valid EXCEPT ![i] = @ /\ ref[i] > 0]
    /\ ip' = [ip EXCEPT ![p] = i]

-----------------------------------------------------------------------------
(* Calls.                                                                  *)

(* begin_op and the arguments; op is where the call starts. *)
Call(p, op, n) ==
    /\ up /\ pc[p] = "user"
    /\ op \in {"open", "create"} => file[p] = 0
    /\ name' = [name EXCEPT ![p] = n]
    /\ Goto(p, op)
    /\ UNCHANGED <<dir, type, nlink, saved, ref, valid, dpLock, ipLock, ip, file, up>>

(* close of the last descriptor: begin_op, iput, end_op. *)
Close(p) ==
    /\ pc[p] = "user" /\ file[p] # 0
    /\ ip' = [ip EXCEPT ![p] = file[p]]
    /\ file' = [file EXCEPT ![p] = 0]
    /\ Goto(p, "iput")
    /\ UNCHANGED <<dir, type, nlink, saved, ref, valid, dpLock, ipLock, name, up>>

(* open and link: namei, under the directory's lock, which it gives back. *)
Namei(p, op, next) ==
    /\ pc[p] = op /\ dpLock = 0
    /\ LET i == dir[name[p]] IN
       IF i = 0 THEN Goto(p, "end_op") /\ UNCHANGED <<ref, valid, ip>>
       ELSE Goto(p, next) /\ IGet(p, i)
    /\ UNCHANGED <<dir, type, nlink, saved, dpLock, ipLock, name, file, up>>

(* unlink: the directory stays locked. *)
LookUp(p) ==
    /\ pc[p] = "unlink" /\ dpLock = 0
    /\ LET i == dir[name[p]] IN
       IF i = 0 THEN Goto(p, "end_op") /\ UNCHANGED <<ref, valid, ip, dpLock>>
       ELSE Goto(p, "unlink_lock") /\ IGet(p, i) /\ dpLock' = p
    /\ UNCHANGED <<dir, type, nlink, saved, ipLock, name, file, up>>

(* ilock, for whichever call: it panics on an inode without a type. *)
ILock(p, from, to) ==
    /\ pc[p] = from /\ ipLock[ip[p]] = 0
    /\ ipLock' = [ipLock EXCEPT ![ip[p]] = p]
    /\ valid' = [valid EXCEPT ![ip[p]] = TRUE]
    /\ Goto(p, to)
    /\ UNCHANGED <<dir, type, nlink, saved, ref, dpLock, ip, name, file, up>>

IUnlock(p) == ipLock' = [ipLock EXCEPT ![ip[p]] = 0]

(* The rest of open and of create: a descriptor, or iunlockput if there is *)
(* none to be had.                                                         *)
Opened(p) ==
    /\ pc[p] = "opened"
    /\ \/ file' = [file EXCEPT ![p] = ip[p]] /\ Goto(p, "end_op")
       \/ UNCHANGED file /\ Goto(p, "iput")
    /\ IUnlock(p)
    /\ UNCHANGED <<dir, type, nlink, saved, ref, valid, dpLock, ip, name, up>>

(* create: an existing file is opened; otherwise ialloc takes the first    *)
(* free inode, if there is one.                                            *)
Create(p) ==
    /\ pc[p] = "create" /\ dpLock = 0
    /\ LET i == dir[name[p]]
           unused == {j \in Inums : ~type[j]} IN
       IF i # 0
       THEN IGet(p, i) /\ Goto(p, "open_lock") /\ UNCHANGED <<type, nlink, dpLock>>
       ELSE IF unused = {}
       THEN Goto(p, "end_op") /\ UNCHANGED <<type, nlink, ref, valid, ip, dpLock>>
       ELSE LET j == CHOOSE j \in unused : \A k \in unused : j <= k IN
            /\ type' = [type EXCEPT ![j] = TRUE] /\ nlink' = [nlink EXCEPT ![j] = 0]
            /\ IGet(p, j)
            /\ dpLock' = p
            /\ Goto(p, "create_lock")
    /\ UNCHANGED <<dir, saved, ipLock, name, file, up>>

(* nlink = 1 and dirlink.  It fails when the directory cannot grow, which  *)
(* stays locked until the new inode is put.                                *)
Enter(p) ==
    /\ pc[p] = "create_enter"
    /\ \/ /\ dir' = [dir EXCEPT ![name[p]] = ip[p]]
          /\ nlink' = [nlink EXCEPT ![ip[p]] = 1]
          /\ dpLock' = 0 /\ Goto(p, "opened")
          /\ UNCHANGED ipLock
       \/ /\ nlink' = [nlink EXCEPT ![ip[p]] = 0]
          /\ IUnlock(p) /\ Goto(p, "iput")
          /\ UNCHANGED <<dir, dpLock>>
    /\ UNCHANGED <<type, saved, ref, valid, ip, name, file, up>>

(* unlink: the entry is cleared and the directory unlocked, *)
Clear(p) ==
    /\ pc[p] = "unlink_clear"
    /\ dir' = [dir EXCEPT ![name[p]] = 0]
    /\ dpLock' = 0
    /\ Goto(p, "unlink_dec")
    /\ UNCHANGED <<type, nlink, saved, ref, valid, ipLock, ip, name, file, up>>

(* nlink changes, iupdate, iunlock: down in unlink and in a link that      *)
(* failed, up at the start of link.                                        *)
AddLink(p, by, from, to) ==
    /\ pc[p] = from
    /\ nlink' = [nlink EXCEPT ![ip[p]] = @ + by]
    /\ IUnlock(p) /\ Goto(p, to)
    /\ UNCHANGED <<dir, type, saved, ref, valid, dpLock, ip, name, file, up>>

(* link: the new name, unless it exists or the directory cannot grow. *)
NewName(p, n) ==
    /\ pc[p] = "link_name" /\ dpLock = 0
    /\ \/ dir[n] = 0 /\ dir' = [dir EXCEPT ![n] = ip[p]] /\ Goto(p, "iput")
       \/ UNCHANGED dir /\ Goto(p, "link_bad")
    /\ UNCHANGED <<type, nlink, saved, ref, valid, dpLock, ipLock, ip, name, file, up>>

-----------------------------------------------------------------------------
(* iput.                                                                   *)

(* Mutant: the other references are not looked at. *)
UnreferencedBlind(i) == valid[i] /\ nlink[i] = 0

Unreferenced(i) == ref[i] = 1 /\ valid[i] /\ nlink[i] = 0

IPut(p) ==
    /\ pc[p] = "iput"
    /\ IF Unreferenced(ip[p])
       THEN /\ ipLock[ip[p]] = 0 /\ ipLock' = [ipLock EXCEPT ![ip[p]] = p]
            /\ Goto(p, "free") /\ UNCHANGED ref
       ELSE /\ ref' = [ref EXCEPT ![ip[p]] = @ - 1]
            /\ Goto(p, "end_op") /\ UNCHANGED ipLock
    /\ UNCHANGED <<dir, type, nlink, saved, valid, dpLock, ip, name, file, up>>

(* itrunc, type = 0, iupdate, without itable.lock. *)
Free(p) ==
    /\ pc[p] = "free"
    /\ type' = [type EXCEPT ![ip[p]] = FALSE]
    /\ valid' = [valid EXCEPT ![ip[p]] = FALSE]
    /\ IUnlock(p) /\ Goto(p, "unref")
    /\ UNCHANGED <<dir, nlink, saved, ref, dpLock, ip, name, file, up>>

Unref(p) ==
    /\ pc[p] = "unref"
    /\ ref' = [ref EXCEPT ![ip[p]] = @ - 1]
    /\ Goto(p, "end_op")
    /\ UNCHANGED <<dir, type, nlink, saved, valid, dpLock, ipLock, ip, name, file, up>>

(* Mutant: every end_op commits. *)
EndOpCommits(p) ==
    /\ pc[p] = "end_op"
    /\ saved' = Disk
    /\ dpLock' = (IF dpLock = p THEN 0 ELSE dpLock)
    /\ Goto(p, "user")
    /\ ip' = [ip EXCEPT ![p] = 0] /\ name' = [name EXCEPT ![p] = NoName]
    /\ UNCHANGED <<dir, type, nlink, ref, valid, ipLock, file, up>>

(* end_op; a create that failed gives the directory's lock back first. *)
EndOp(p) ==
    /\ pc[p] = "end_op"
    /\ saved' = IF \A q \in Procs \ {p} : pc[q] = "user" THEN Disk ELSE saved
    /\ dpLock' = (IF dpLock = p THEN 0 ELSE dpLock)
    /\ Goto(p, "user")
    /\ ip' = [ip EXCEPT ![p] = 0] /\ name' = [name EXCEPT ![p] = NoName]
    /\ UNCHANGED <<dir, type, nlink, ref, valid, ipLock, file, up>>

-----------------------------------------------------------------------------
(* A crash; boot recovers the log, and ireclaim frees the inodes that have *)
(* no name, in a transaction each.                                         *)
Crash ==
    /\ dir' = saved.dir /\ type' = saved.type /\ nlink' = saved.nlink
    /\ ref' = Zeros /\ valid' = [i \in Inums |-> FALSE]
    /\ dpLock' = 0 /\ ipLock' = Zeros
    /\ pc' = [p \in Procs |-> "user"] /\ ip' = Idle /\ file' = Idle
    /\ name' = [p \in Procs |-> NoName]
    /\ up' = FALSE
    /\ UNCHANGED saved

Orphan(i) == type[i] /\ nlink[i] = 0

Reclaim(i) ==
    /\ ~up /\ Orphan(i)
    /\ type' = [type EXCEPT ![i] = FALSE]
    /\ saved' = [saved EXCEPT !.type[i] = FALSE]
    /\ UNCHANGED <<dir, nlink, ref, valid, dpLock, ipLock, pc, ip, name, file, up>>

Boot ==
    /\ ~up /\ \A i \in Inums : ~Orphan(i)
    /\ up' = TRUE
    /\ UNCHANGED <<dir, type, nlink, saved, ref, valid, dpLock, ipLock, pc, ip, name, file>>

Step(p) ==
    \/ Close(p) \/ Namei(p, "open", "open_lock") \/ ILock(p, "open_lock", "opened") \/ Opened(p)
    \/ Create(p) \/ ILock(p, "create_lock", "create_enter") \/ Enter(p)
    \/ LookUp(p) \/ ILock(p, "unlink_lock", "unlink_clear") \/ Clear(p)
    \/ AddLink(p, -1, "unlink_dec", "iput")
    \/ Namei(p, "link", "link_lock") \/ ILock(p, "link_lock", "link_inc")
    \/ AddLink(p, 1, "link_inc", "link_name") \/ (\E n \in Names : NewName(p, n))
    \/ ILock(p, "link_bad", "link_dec") \/ AddLink(p, -1, "link_dec", "iput")
    \/ IPut(p) \/ Free(p) \/ Unref(p) \/ EndOp(p)

Next ==
    \/ \E p \in Procs :
         Step(p) \/ \E op \in {"open", "create", "unlink", "link"}, n \in Names : Call(p, op, n)
    \/ Crash \/ Boot \/ \E i \in Inums : Reclaim(i)

Spec == Init /\ [][Next]_vars

-----------------------------------------------------------------------------
(* Properties.                                                             *)

Links(d, i) == Cardinality({n \in Names : d[n] = i})
Locking(p) == pc[p] \in {"open_lock", "create_lock", "unlink_lock", "link_lock", "link_bad"}

AtRest == up /\ \A p \in Procs : pc[p] = "user"

(* Whatever names and descriptors the processes make and drop at once: no  *)
(* inode is freed while a name, an open file or a call still leads to it,  *)
(* so ilock never finds one without a type; the lock iput takes is free,   *)
(* as its comment says; the references counted are those held; and what a  *)
(* crash leaves on disk counts every link.                                 *)
InodesKept ==
    /\ \A n \in Names : dir[n] # 0 => type[dir[n]] /\ nlink[dir[n]] > 0
    /\ \A p \in Procs :
         /\ file[p] # 0 => type[file[p]]
         /\ Locking(p) => type[ip[p]]
         /\ pc[p] = "iput" /\ Unreferenced(ip[p]) => ipLock[ip[p]] = 0
    /\ \A i \in Inums : saved.type[i] => saved.nlink[i] = Links(saved.dir, i)
    /\ AtRest => \A i \in Inums : ref[i] = Cardinality({p \in Procs : file[p] = i})

(* The last iput of an inode that has no links frees it on disk: when all  *)
(* calls have returned, an inode without a name is one that is still open. *)
LastPutFrees == AtRest => \A i \in Inums : Orphan(i) => ref[i] > 0
=============================================================================

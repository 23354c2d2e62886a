------------------------------- MODULE MCCaches -------------------------------
(***************************************************************************)
(* For TLC: caches, the one of replies in the server of lab10, the file    *)
(* client's of attributes and data, and the buffer cache of the xv6        *)
(* kernel.  A behaviour is that of Rpc, of FileCache or of Bcache, picked  *)
(* by subject; the others stay as they were initialised.                   *)
(***************************************************************************)
EXTENDS Rpc, TLC

CONSTANTS
    Files, Chunks, Ac, MaxCall, FineMtime, MaxTime, MaxWrites, MaxRestarts,     \* of FileCache
    BufProcs, Blocks, Vals, NBUF, MaxPinned                                     \* of Bcache

VARIABLES
    subject,
    now, file, mtime, stamps, writes, ended, restarts, pc, since, known, replies, wr, fh,
    avalid, attr, afetched, dvalid, data, got, result, gone,
    lru, blockno, bufValid, bufData, refcnt, locked, disk, pinned, bufPc, want, buf, latest

fileVars == <<now, file, mtime, stamps, writes, ended, restarts, pc, since, known, replies,
               wr, fh, avalid, attr, afetched, dvalid, data, got, result, gone>>
bufferVars == <<lru, blockno, bufValid, bufData, refcnt, locked, disk, pinned, bufPc, want,
                buf, latest>>

Fc == INSTANCE FileCache
Bc == INSTANCE Bcache WITH
    Procs <- BufProcs, valid <- bufValid, data <- bufData, pc <- bufPc

(* FileCache starts with either file open, Bcache with any disk. *)
One(S) == CHOOSE x \in S : TRUE

Initially ==
    /\ subject \in {"rpc", "file", "buffer"}
    /\ Init
    /\ Fc!Init /\ (subject = "file" \/ fh = One(Files))
    /\ Bc!Init /\ (subject = "buffer" \/ \A k \in Blocks, b \in 1..NBUF :
                                            disk[k] = One(Vals) /\ bufData[b] = One(Vals))

Step ==
    \/ subject = "rpc" /\ UNCHANGED <<subject, fileVars, bufferVars>> /\ Next
    \/ subject = "file" /\ UNCHANGED <<subject, vars, bufferVars>> /\ Fc!Next
    \/ subject = "buffer" /\ UNCHANGED <<subject, vars, fileVars>> /\ Bc!Next

CachesSpec == Initially /\ [][Step]_<<subject, vars, fileVars, bufferVars>>

(* The file cache: how stale a read can be. *)
StalenessBound == Fc!StalenessBound

(* The file cache: data that passed revalidation is the file's. *)
RevalidatedGood == Fc!RevalidatedGood

(* The file cache: a client reads its own writes. *)
OwnWritesSeen == Fc!OwnWritesSeen

(* The buffer cache: blocks are passed on whole. *)
BlocksPassedOn == subject = "buffer" => Bc!BlocksPassedOn

Symmetry == Permutations(Clients)
=============================================================================

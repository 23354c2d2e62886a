----------------------------- MODULE FileCache ------------------------------
(***************************************************************************)
(* The file service of lab10: the stateless server of fileserver.c and the *)
(* client-side cache of fileclient.c, with a clock.  One client is modelled *)
(* with its cache; writes of other clients reach the server at any time.   *)
(* A remote call is the exchange the Rpc module is about: the server runs  *)
(* it at some moment between its start and its return, and again if it is  *)
(* retried after the server was restarted without its reply cache.         *)
(*                                                                         *)
(* A file is a row of chunks of at most FS_MAXDATA bytes, a chunk holds    *)
(* the number of the write that put it there, 0 for no data yet.           *)
(***************************************************************************)
EXTENDS Integers, Sequences, FiniteSets

CONSTANTS
    Files,          \* the files of the export directory
    Chunks,         \* bound: chunks of a file
    Ac,             \* ac_ms; 0, the cache switched off, is left out
    MaxCall,        \* the longest an rpc_call takes, retries included
    FineMtime,      \* every write has an mtime of its own; else the clock's
    MaxTime, MaxWrites, MaxRestarts     \* bounds

VARIABLES
    now,            \* now_ms()
    file, mtime,    \* the exported files, and their st_mtim
    stamps,         \* write executions so far
    writes,         \* write numbers in use
    ended,          \* history: <<f, i, w, t>>, write w of chunk i was overwritten at t
    restarts,       \* kills of the server so far
    pc,             \* the call the client waits in: idle, attr, data or write
    since,          \* when that call was made
    known,          \* the server's reply cache holds its reply
    replies,        \* the replies to it under way
    wr,             \* its chunk and write number, for a write
    fh,             \* fc.fh
    avalid, attr, afetched,     \* fc: the attribute cache
    dvalid, data,   \* fc: the data cache
    got,            \* the part cache_fetch_data has
    result,         \* the last read: its file, chunks and time
    gone            \* history: what was overwritten when its last write returned

vars == <<now, file, mtime, stamps, writes, ended, restarts, pc, since, known, replies, wr,
          got, fh, avalid, attr, afetched, dvalid, data, result, gone>>

Chunk == 1..Chunks
Blank == [i \in Chunk |-> 0]
Size(c) == Cardinality({i \in Chunk : c[i] # 0})

(* do_getattr's reply *)
Attr(f) == [size |-> Size(file[f]), mtime |-> mtime[f]]
NoWrite == <<0, 0>>
NoAttr == [size |-> 0, mtime |-> 0]

Init ==
    /\ now = 0 /\ writes = 0 /\ stamps = 0 /\ ended = {} /\ restarts = 0
    /\ file = [f \in Files |-> Blank] /\ mtime = [f \in Files |-> 0]
    /\ pc = "idle" /\ since = 0 /\ known = FALSE /\ replies = {} /\ wr = NoWrite /\ got = <<>>
    /\ fh \in Files
    /\ avalid = FALSE /\ attr = NoAttr /\ afetched = 0
    /\ dvalid = FALSE /\ data = Blank
    /\ result = [file |-> fh, data |-> Blank, at |-> 0] /\ gone = {}

(* Time passes, but no call takes longer than MaxCall. *)
Tick ==
    /\ now < MaxTime
    /\ pc # "idle" => now < since + MaxCall
    /\ now' = now + 1
    /\ UNCHANGED <<file, mtime, stamps, writes, ended, restarts, pc, since, known, replies, wr,
                   got, fh, avalid, attr, afetched, dvalid, data, result, gone>>

-----------------------------------------------------------------------------
(* The server.                                                             *)

(* A chunk can be written in place or at the end of the file. *)
Writable(f, i) == i <= Size(file[f]) + 1

(* do_write: pwrite of write number w to chunk i. *)
DoWrite(f, i, w) ==
    /\ file' = [file EXCEPT ![f][i] = w]
    /\ stamps' = stamps + 1
    /\ mtime' = [mtime EXCEPT ![f] = IF FineMtime THEN stamps + 1 ELSE now]
    /\ ended' = IF file[f][i] = w THEN ended ELSE ended \cup {<<f, i, file[f][i], now>>}

(* The write of another client. *)
RemoteWrite(f, i) ==
    /\ writes < MaxWrites /\ Writable(f, i)
    /\ writes' = writes + 1
    /\ DoWrite(f, i, writes + 1)
    /\ UNCHANGED <<now, restarts, pc, since, known, replies, wr, got, fh, avalid, attr,
                   afetched, dvalid, data, result, gone>>

(* The server is killed and started again: the reply cache is gone. *)
Restart ==
    /\ restarts < MaxRestarts
    /\ restarts' = restarts + 1
    /\ known' = FALSE
    /\ UNCHANGED <<now, file, mtime, stamps, writes, ended, pc, since, replies, wr, got, fh,
                   avalid, attr, afetched, dvalid, data, result, gone>>

(* The server runs the client's call and sends reply r. *)
Run(proc, r) ==
    /\ pc = proc /\ ~known
    /\ known' = TRUE
    /\ replies' = replies \cup {r}
    /\ UNCHANGED <<now, writes, restarts, pc, since, wr, got, fh, avalid, attr, afetched,
                   dvalid, data, result, gone>>

DoGetattr == Run("attr", Attr(fh)) /\ UNCHANGED <<file, mtime, stamps, ended>>

(* do_read of the chunk after the ones the client has; 0 past the end. *)
DoRead ==
    /\ Run("data", file[fh][Len(got) + 1])
    /\ UNCHANGED <<file, mtime, stamps, ended>>

DoOwnWrite == Run("write", 0) /\ DoWrite(fh, wr[1], wr[2])

-----------------------------------------------------------------------------
(* The client.                                                             *)

(* rpc_call is entered. *)
Begin(proc, w) ==
    /\ pc' = proc /\ since' = now /\ known' = FALSE /\ replies' = {} /\ wr' = w

Finish ==
    /\ pc' = "idle" /\ since' = 0 /\ known' = FALSE /\ replies' = {} /\ wr' = NoWrite

Serve(d) == result' = [file |-> fh, data |-> d, at |-> now]

(* Mutant: the cache of the file open before is kept. *)
OpenKeepsCache(f) ==
    /\ pc = "idle"
    /\ fh' = f
    /\ UNCHANGED <<now, file, mtime, stamps, ended, known, writes, restarts, pc, since, replies,
                   wr, got, avalid, attr, afetched, dvalid, data, result, gone>>

(* cache_drop; what is not valid is not read. *)
Drop == /\ avalid' = FALSE /\ attr' = NoAttr /\ afetched' = 0
        /\ dvalid' = FALSE /\ data' = Blank

(* The command open: the lookup, then cache_drop. *)
Open(f) ==
    /\ pc = "idle"
    /\ fh' = f
    /\ Drop
    /\ UNCHANGED <<now, file, mtime, stamps, ended, known, writes, restarts, pc, since, replies,
                   wr, got, result, gone>>

(* Mutant: the window is counted from the last read. *)
FreshFromRead == avalid /\ now - result.at < Ac

(* attrs_fresh *)
Fresh == avalid /\ now - afetched < Ac

(* cached_read: from the cache, or after a getattr or a fetch. *)
ReadHit ==
    /\ pc = "idle"
    /\ Fresh /\ dvalid
    /\ Serve(data)
    /\ UNCHANGED <<now, file, mtime, stamps, ended, known, writes, restarts, pc, since, replies,
                   wr, got, fh, avalid, attr, afetched, dvalid, data, gone>>

StartRevalidate ==
    /\ pc = "idle"
    /\ ~Fresh
    /\ Begin("attr", NoWrite)
    /\ UNCHANGED <<now, file, mtime, stamps, ended, writes, restarts, got, fh, avalid, attr,
                   afetched, dvalid, data, result, gone>>

StartFetch ==
    /\ pc = "idle"
    /\ Fresh /\ ~dvalid
    /\ Begin("data", NoWrite) /\ got' = <<>>
    /\ UNCHANGED <<now, file, mtime, stamps, ended, writes, restarts, fh, avalid, attr,
                   afetched, dvalid, data, result, gone>>

(* cache_fetch_data is over: cached_read serves what it has. *)
Fetched(c) ==
    /\ Finish /\ got' = <<>>
    /\ data' = [i \in Chunk |-> IF i <= Len(c) THEN c[i] ELSE 0]
    /\ dvalid' = TRUE
    /\ Serve(data')

(* Mutant: the sizes are compared and the times are not. *)
TakeAttrSizeOnly(a) ==
    /\ pc = "attr" /\ a \in replies
    /\ attr' = a /\ avalid' = TRUE /\ afetched' = now
    /\ LET good == dvalid /\ (avalid => a.size = attr.size) IN
       \/ good /\ Finish /\ Serve(data) /\ UNCHANGED <<dvalid, data, got>>
       \/ ~good /\ a.size = 0 /\ Fetched(<<>>)
       \/ ~good /\ a.size > 0 /\ dvalid' = FALSE /\ data' = Blank /\ Begin("data", NoWrite) /\ got' = <<>> /\ UNCHANGED result
    /\ UNCHANGED <<now, file, mtime, stamps, ended, writes, restarts, fh, gone>>

(* cache_fetch_attrs, then the data if there is none or it has changed. *)
TakeAttr(a) ==
    /\ pc = "attr" /\ a \in replies
    /\ attr' = a /\ avalid' = TRUE /\ afetched' = now
    /\ LET good == dvalid /\ (avalid => a = attr) IN
       \/ good /\ Finish /\ Serve(data) /\ UNCHANGED <<dvalid, data, got>>
       \/ ~good /\ a.size = 0 /\ Fetched(<<>>)
       \/ ~good /\ a.size > 0 /\ dvalid' = FALSE /\ data' = Blank /\ Begin("data", NoWrite) /\ got' = <<>> /\ UNCHANGED result
    /\ UNCHANGED <<now, file, mtime, stamps, ended, writes, restarts, fh, gone>>

(* One round of cache_fetch_data. *)
TakeData(c) ==
    /\ pc = "data" /\ c \in replies
    /\ LET have == IF c = 0 THEN got ELSE Append(got, c) IN
       \/ /\ c = 0 \/ Len(have) >= attr.size
          /\ Fetched(have)
       \/ /\ c # 0 /\ Len(have) < attr.size
          /\ Begin("data", NoWrite) /\ got' = have
          /\ UNCHANGED <<dvalid, data, result>>
    /\ UNCHANGED <<now, file, mtime, stamps, ended, writes, restarts, fh, avalid, attr,
                   afetched, gone>>

StartWrite(i) ==
    /\ pc = "idle" /\ writes < MaxWrites /\ Writable(fh, i)
    /\ Begin("write", <<i, writes + 1>>)
    /\ writes' = writes + 1
    /\ UNCHANGED <<now, file, mtime, stamps, ended, restarts, got, fh, avalid, attr, afetched,
                   dvalid, data, result, gone>>

(* Mutant: the attributes are dropped and the data is not. *)
TakeWriteAttrsOnly ==
    /\ pc = "write" /\ replies # {}
    /\ Finish
    /\ gone' = {<<e[1], e[2], e[3]>> : e \in ended} \ {<<f, i, file[f][i]>> : f \in Files, i \in Chunk}
    /\ avalid' = FALSE /\ attr' = NoAttr /\ afetched' = 0
    /\ UNCHANGED <<now, file, mtime, stamps, ended, writes, restarts, got, fh, dvalid, data,
                   result>>

(* The write was acknowledged: cache_drop. *)
TakeWrite ==
    /\ pc = "write" /\ replies # {}
    /\ Finish
    /\ gone' = {<<e[1], e[2], e[3]>> : e \in ended} \ {<<f, i, file[f][i]>> : f \in Files, i \in Chunk}
    /\ Drop
    /\ UNCHANGED <<now, file, mtime, stamps, ended, writes, restarts, got, fh, result>>

(* rpc_call gave up, or the server answered with an error: the command     *)
(* fails and the cache is left as it is.                                   *)
Fail ==
    /\ pc # "idle"
    /\ Finish /\ got' = <<>>
    /\ UNCHANGED <<now, file, mtime, stamps, ended, writes, restarts, fh, avalid, attr,
                   afetched, dvalid, data, result, gone>>

Next ==
    \/ Tick \/ Restart
    \/ \E f \in Files, i \in Chunk : RemoteWrite(f, i)
    \/ DoGetattr \/ DoRead \/ DoOwnWrite
    \/ \E f \in Files : Open(f)
    \/ ReadHit \/ StartRevalidate \/ StartFetch
    \/ \E r \in replies : TakeAttr(r) \/ TakeData(r)
    \/ \E i \in Chunk : StartWrite(i)
    \/ TakeWrite \/ Fail

Spec == Init /\ [][Next]_vars

-----------------------------------------------------------------------------
(* Properties.                                                             *)

(* Every chunk of the last read was in that file less than b ago. *)
FreshWithin(b) ==
    \A i \in Chunk :
        \/ result.data[i] = file[result.file][i]
        \/ \E e \in ended : /\ <<e[1], e[2], e[3]>> = <<result.file, i, result.data[i]>>
                            /\ e[4] >= result.at - b

(* How stale a cached read can be: the attributes are trusted for Ac from  *)
(* their arrival, the fetch that follows takes a call per chunk, and they  *)
(* may be a call old on arrival.  A read never returns another file's data. *)
StalenessBound == FreshWithin(Ac - 1 + (Chunks + 1) * MaxCall)

(* Cached data under the attributes the server has now is what the server  *)
(* has now: a revalidation that finds them unchanged may keep the data.    *)
RevalidatedGood == dvalid /\ avalid /\ attr = Attr(fh) => data = file[fh]

(* Once a write command has succeeded, no read of the same client returns  *)
(* what it, or a write before it, replaced.                                *)
OwnWritesSeen ==
    [][result' # result =>
         \A i \in Chunk : <<result'.file, i, result'.data[i]>> \notin gone]_vars

(* fileclient.c: a read is never staler than ac ms. *)
NeverStaler == FreshWithin(Ac)
=============================================================================

----------------------------- MODULE CacheProofs -----------------------------
(***************************************************************************)
(* Proofs about the caches: FileCache, for any files, file size, window    *)
(* and call length, if every write has an mtime of its own; Bcache, for    *)
(* any finite set of processes and any blocks and number of buffers.       *)
(***************************************************************************)
EXTENDS MCCaches, FiniteSetTheorems, TLAPS

FcSizes == Chunks \in Nat /\ FineMtime = TRUE

FcAttrs == [size : 0..Chunks, mtime : Nat]

FcTypeInv ==
    /\ file \in [Files -> [Fc!Chunk -> Nat]] /\ mtime \in [Files -> Nat]
    /\ stamps \in Nat /\ writes \in Nat
    /\ pc \in {"idle", "attr", "data", "write"}
    /\ fh \in Files
    /\ avalid \in BOOLEAN /\ dvalid \in BOOLEAN
    /\ attr \in FcAttrs /\ data \in [Fc!Chunk -> Nat] /\ got \in Seq(Nat)

(* A file has no holes. *)
FcFileInv ==
    \A f \in Files :
        /\ Fc!Size(file[f]) \in 0..Chunks
        /\ \A i \in Fc!Chunk : file[f][i] # 0 <=> i <= Fc!Size(file[f])
        /\ mtime[f] <= stamps

(* The call under way, and its replies. *)
FcCallInv ==
    /\ pc = "idle" => replies = {}
    /\ pc = "attr" => \A a \in replies :
           a \in FcAttrs /\ a.mtime <= mtime[fh] /\ (a.mtime = mtime[fh] => a = Fc!Attr(fh))
    /\ pc = "data" => /\ avalid /\ ~dvalid /\ Len(got) < attr.size
                      /\ replies \subseteq Nat
    /\ pc = "write" => wr[1] \in Fc!Chunk /\ wr[2] \in Nat \ {0} /\ Fc!Writable(fh, wr[1])

(* The file has not been written since the cached attributes were sampled. *)
FcCurrent == attr.mtime = mtime[fh]

FcCacheInv ==
    /\ dvalid => avalid
    /\ avalid => /\ attr.mtime <= mtime[fh]
                 /\ FcCurrent => attr = Fc!Attr(fh)
                 /\ ~dvalid => attr.size > 0
    /\ dvalid /\ FcCurrent => data = file[fh]
    /\ pc = "data" /\ FcCurrent =>
           /\ \A j \in 1..Len(got) : got[j] = file[fh][j]
           /\ \A c \in replies : c = file[fh][Len(got) + 1]

FcIInv == FcTypeInv /\ FcFileInv /\ FcCallInv /\ FcCacheInv

-----------------------------------------------------------------------------
(* Files.                                                                  *)

(* The size of a file without holes is the number of its last chunk. *)
LEMMA FcSizeOf ==
    ASSUME FcSizes, NEW c, NEW n \in 0..Chunks, \A i \in Fc!Chunk : c[i] # 0 <=> i <= n
    PROVE  Fc!Size(c) = n
<1>1. {i \in Fc!Chunk : c[i] # 0} = 1..n  BY DEF Fc!Chunk, FcSizes
<1>2. Cardinality(1..n) = n  BY FS_Interval, 1 <= n + 1 DEF FcSizes
<1> QED  BY <1>1, <1>2 DEF Fc!Size, Fc!Cardinality, Cardinality

(* What a write leaves: files without holes, none of them shorter, and an  *)
(* mtime of its own for the file written.                                  *)
FcWritten(f) ==
    /\ file' \in [Files -> [Fc!Chunk -> Nat]] /\ mtime' \in [Files -> Nat] /\ stamps' \in Nat
    /\ FcFileInv'
    /\ \A g \in Files : Fc!Size(file[g]) <= Fc!Size(file'[g])
    /\ \A g \in Files \ {f} : file'[g] = file[g] /\ mtime'[g] = mtime[g]
    /\ mtime'[f] > mtime[f]

(* do_write, in place or at the end, leaves just that. *)
LEMMA FcWrites ==
    ASSUME FcSizes, FcTypeInv, FcFileInv, NEW f \in Files, NEW i \in Fc!Chunk, NEW w \in Nat \ {0},
           Fc!Writable(f, i), Fc!DoWrite(f, i, w)
    PROVE  FcWritten(f)
<1> DEFINE n == IF i <= Fc!Size(file[f]) THEN Fc!Size(file[f]) ELSE i
<1>0. file \in [Files -> [Fc!Chunk -> Nat]] /\ mtime \in [Files -> Nat] /\ stamps \in Nat
      /\ mtime[f] \in Nat /\ mtime[f] <= stamps
  BY DEF FcTypeInv, FcFileInv
<1>1. /\ file' = [file EXCEPT ![f][i] = w] /\ stamps' = stamps + 1
      /\ mtime' = [mtime EXCEPT ![f] = stamps + 1]
  BY DEF Fc!DoWrite, FcSizes
<1>2. /\ file' \in [Files -> [Fc!Chunk -> Nat]] /\ mtime' \in [Files -> Nat] /\ stamps' \in Nat
      /\ file'[f] = [file[f] EXCEPT ![i] = w] /\ mtime'[f] = stamps + 1
      /\ \A g \in Files \ {f} : file'[g] = file[g] /\ mtime'[g] = mtime[g]
  BY <1>0, <1>1
<1>3. Fc!Size(file[f]) \in 0..Chunks /\ \A j \in Fc!Chunk : file[f][j] # 0 <=> j <= Fc!Size(file[f])
  BY DEF FcFileInv
<1>4. i \in 1..Chunks /\ i <= Fc!Size(file[f]) + 1 /\ Chunks \in Nat
  BY DEF Fc!Writable, Fc!Chunk, FcSizes
<1>5. n \in 0..Chunks /\ Fc!Size(file[f]) <= n  BY <1>3, <1>4
<1>6. \A j \in Fc!Chunk : file'[f][j] # 0 <=> j <= n
  <2> SUFFICES ASSUME NEW j \in Fc!Chunk PROVE file'[f][j] # 0 <=> j <= n  OBVIOUS
  <2>1. file[f] \in [Fc!Chunk -> Nat]  BY <1>0
  <2>2. CASE j = i  BY <2>1, <2>2, <1>2, <1>3, <1>4
  <2>3. CASE j # i
    <3>1. file'[f][j] = file[f][j]  BY <2>1, <2>3, <1>2
    <3> QED  BY <3>1, <2>3, <1>3, <1>4 DEF Fc!Chunk
  <2> QED  BY <2>2, <2>3
<1>7. Fc!Size(file'[f]) = n
  <2> HIDE DEF n
  <2> QED  BY <1>5, <1>6, FcSizeOf
<1>8. FcFileInv'
  <2> SUFFICES ASSUME NEW g \in Files
               PROVE  /\ Fc!Size(file'[g]) \in 0..Chunks
                      /\ \A j \in Fc!Chunk : file'[g][j] # 0 <=> j <= Fc!Size(file'[g])
                      /\ mtime'[g] <= stamps'
    BY DEF FcFileInv
  <2>1. CASE g = f
    <3> HIDE DEF n
    <3>1. Fc!Size(file'[g]) = n  BY <2>1, <1>7
    <3>2. \A j \in Fc!Chunk : file'[g][j] # 0 <=> j <= n  BY <2>1, <1>6
    <3>3. mtime'[g] <= stamps'  BY <2>1, <1>0, <1>1, <1>2
    <3>4. n \in 0..Chunks  BY <1>5
    <3> QED  BY <3>1, <3>2, <3>3, <3>4
  <2>2. CASE g # f
    <3>1. file'[g] = file[g] /\ mtime'[g] = mtime[g] /\ mtime[g] \in Nat
      BY <2>2, <1>0, <1>2
    <3> QED  BY <3>1, <1>0, <1>1 DEF FcFileInv
  <2> QED  BY <2>1, <2>2
<1>9. \A g \in Files : Fc!Size(file[g]) <= Fc!Size(file'[g])
  <2> SUFFICES ASSUME NEW g \in Files PROVE Fc!Size(file[g]) <= Fc!Size(file'[g])  OBVIOUS
  <2>1. CASE g = f  BY <2>1, <1>5, <1>7
  <2>2. CASE g # f
    <3>1. file'[g] = file[g] /\ Fc!Size(file[g]) \in 0..Chunks  BY <2>2, <1>2 DEF FcFileInv
    <3> QED  BY <3>1
  <2> QED  BY <2>1, <2>2
<1>10. mtime'[f] > mtime[f]  BY <1>0, <1>2
<1> QED  BY <1>2, <1>8, <1>9, <1>10 DEF FcWritten

(* A write of any file leaves what the client has sound: whatever it knows *)
(* of that file is no longer current.                                      *)
LEMMA FcWriteKeeps ==
    ASSUME FcSizes, FcIInv, NEW f \in Files, FcWritten(f), writes' \in Nat,
           UNCHANGED <<pc, wr, fh, avalid, attr, dvalid, data, got>>,
           pc = "write" \/ UNCHANGED replies
    PROVE  FcIInv'
<1> USE DEF FcIInv
<1>1. FcTypeInv'  BY DEF FcTypeInv, FcWritten
<1>2. FcFileInv'  BY DEF FcWritten
<1>3. /\ mtime[fh] \in Nat /\ mtime'[fh] \in Nat /\ mtime[fh] <= mtime'[fh] /\ fh \in Files
      /\ mtime'[fh] = mtime[fh] => file'[fh] = file[fh]
  BY DEF FcTypeInv, FcWritten
<1>4. mtime'[fh] = mtime[fh] => Fc!Attr(fh)' = Fc!Attr(fh)
  BY <1>3 DEF Fc!Attr
<1>5. FcCallInv'
  <2>1. pc = "attr" => \A a \in replies :
            a \in FcAttrs /\ a.mtime <= mtime'[fh] /\ (a.mtime = mtime'[fh] => a = Fc!Attr(fh)')
    <3> SUFFICES ASSUME pc = "attr", NEW a \in replies
                 PROVE a \in FcAttrs /\ a.mtime <= mtime'[fh] /\ (a.mtime = mtime'[fh] => a = Fc!Attr(fh)')
      OBVIOUS
    <3>1. a \in FcAttrs /\ a.mtime \in Nat /\ a.mtime <= mtime[fh] /\ (a.mtime = mtime[fh] => a = Fc!Attr(fh))
      BY DEF FcCallInv, FcAttrs
    <3> QED  BY <3>1, <1>3, <1>4
  <2>2. pc = "write" => Fc!Writable(fh, wr[1])'
    <3> SUFFICES ASSUME pc = "write" PROVE wr[1] <= Fc!Size(file'[fh]) + 1
      BY DEF Fc!Writable
    <3>1. wr[1] \in Fc!Chunk /\ wr[1] <= Fc!Size(file[fh]) + 1  BY DEF FcCallInv, Fc!Writable
    <3>2. Fc!Size(file[fh]) <= Fc!Size(file'[fh]) /\ Fc!Size(file[fh]) \in 0..Chunks /\ Fc!Size(file'[fh]) \in 0..Chunks
      BY <1>2, <1>3 DEF FcWritten, FcFileInv
    <3> QED  BY <3>1, <3>2 DEF Fc!Chunk, FcSizes
  <2> QED  BY <2>1, <2>2 DEF FcCallInv
<1>6. FcCacheInv'
  <2>1. attr \in FcAttrs /\ attr.mtime \in Nat  BY DEF FcTypeInv, FcAttrs
  <2>2. avalid /\ FcCurrent' => FcCurrent /\ file'[fh] = file[fh] /\ Fc!Attr(fh)' = Fc!Attr(fh)
    BY <1>3, <1>4, <2>1 DEF FcCacheInv, FcCurrent
  <2>3. avalid => attr.mtime <= mtime'[fh]  BY <1>3, <2>1 DEF FcCacheInv
  <2>4. pc = "data" => avalid /\ UNCHANGED replies  BY DEF FcCallInv
  <2> QED  BY <2>2, <2>3, <2>4 DEF FcCacheInv
<1> QED  BY <1>1, <1>2, <1>5, <1>6

-----------------------------------------------------------------------------
(* Every action preserves the invariant.                                   *)

FcServer == <<file, mtime, stamps, writes>>
FcClient == <<pc, wr, fh, avalid, attr, dvalid, data, got>>

(* Nothing of the file service changes but the clock, the restarts, the    *)
(* server's reply cache and what a read returned.                          *)
LEMMA FcQuiet == FcIInv /\ UNCHANGED <<FcServer, FcClient, replies>> => FcIInv'
BY DEF FcIInv, FcTypeInv, FcFileInv, FcCallInv, FcCacheInv, FcCurrent, FcServer, FcClient, Fc!Attr, Fc!Writable

(* The write of another client. *)
LEMMA FcRemoteWriteKeeps ==
    ASSUME FcSizes, FcIInv, NEW f \in Files, NEW i \in Fc!Chunk, Fc!RemoteWrite(f, i)
    PROVE  FcIInv'
<1>1. FcTypeInv /\ FcFileInv /\ writes \in Nat  BY DEF FcIInv, FcTypeInv
<1>2. writes + 1 \in Nat \ {0} /\ Fc!Writable(f, i) /\ Fc!DoWrite(f, i, writes + 1) /\ writes' \in Nat
  BY <1>1 DEF Fc!RemoteWrite
<1>3. FcWritten(f)  BY <1>1, <1>2, FcWrites
<1> QED  BY <1>2, <1>3, FcWriteKeeps DEF Fc!RemoteWrite

(* The client's own write, run by the server. *)
LEMMA FcOwnWriteKeeps == ASSUME FcSizes, FcIInv, Fc!DoOwnWrite PROVE FcIInv'
<1>1. FcTypeInv /\ FcFileInv /\ writes \in Nat /\ fh \in Files  BY DEF FcIInv, FcTypeInv
<1>2. pc = "write" /\ UNCHANGED <<writes, pc, wr, fh, avalid, attr, dvalid, data, got>>
  BY DEF Fc!DoOwnWrite, Fc!Run
<1>3. wr[1] \in Fc!Chunk /\ wr[2] \in Nat \ {0} /\ Fc!Writable(fh, wr[1])
  BY <1>2 DEF FcIInv, FcCallInv
<1>4. Fc!DoWrite(fh, wr[1], wr[2])  BY DEF Fc!DoOwnWrite
<1>5. FcWritten(fh)  BY <1>1, <1>3, <1>4, FcWrites
<1> QED  BY <1>1, <1>2, <1>5, FcWriteKeeps

(* The reply to a getattr: the file as it is now. *)
LEMMA FcGetattrKeeps == ASSUME FcSizes, FcIInv, Fc!DoGetattr PROVE FcIInv'
<1>1. pc = "attr" /\ replies' = replies \cup {Fc!Attr(fh)} /\ UNCHANGED <<FcServer, FcClient>>
  BY DEF Fc!DoGetattr, Fc!Run, FcServer, FcClient
<1>2. Fc!Attr(fh) \in FcAttrs /\ Fc!Attr(fh).mtime = mtime[fh] /\ mtime[fh] \in Nat
  BY DEF FcIInv, FcTypeInv, FcFileInv, Fc!Attr, FcAttrs
<1>3. FcTypeInv' /\ FcFileInv'
  BY <1>1 DEF FcIInv, FcTypeInv, FcFileInv, FcServer, FcClient
<1>4. FcCallInv'
  BY <1>1, <1>2 DEF FcIInv, FcCallInv, FcServer, FcClient, Fc!Attr
<1>5. FcCacheInv'
  BY <1>1 DEF FcIInv, FcCacheInv, FcCurrent, FcServer, FcClient, Fc!Attr
<1> QED  BY <1>3, <1>4, <1>5 DEF FcIInv

(* The reply to a read: the next chunk as it is now. *)
LEMMA FcReadKeeps == ASSUME FcSizes, FcIInv, Fc!DoRead PROVE FcIInv'
<1>1. /\ pc = "data" /\ replies' = replies \cup {file[fh][Len(got) + 1]}
      /\ UNCHANGED <<FcServer, FcClient>>
  BY DEF Fc!DoRead, Fc!Run, FcServer, FcClient
<1>2. Len(got) \in Nat /\ attr.size \in 0..Chunks /\ fh \in Files /\ file \in [Files -> [Fc!Chunk -> Nat]]
  BY DEF FcIInv, FcTypeInv, FcAttrs
<1>3. Len(got) + 1 \in Fc!Chunk
  BY <1>1, <1>2 DEF FcIInv, FcCallInv, Fc!Chunk, FcSizes
<1>4. file[fh][Len(got) + 1] \in Nat  BY <1>2, <1>3
<1>5. FcTypeInv' /\ FcFileInv'
  BY <1>1 DEF FcIInv, FcTypeInv, FcFileInv, FcServer, FcClient
<1>6. FcCallInv'  BY <1>1, <1>4 DEF FcIInv, FcCallInv, FcServer, FcClient
<1>7. FcCacheInv'  BY <1>1 DEF FcIInv, FcCacheInv, FcCurrent, FcServer, FcClient, Fc!Attr
<1> QED  BY <1>5, <1>6, <1>7 DEF FcIInv

(* The cache is dropped. *)
LEMMA FcDropKeeps ==
    ASSUME FcSizes, FcIInv, Fc!Drop, UNCHANGED <<FcServer, got>>, fh' \in Files, pc' = "idle", replies' = {}
    PROVE  FcIInv'
<1>1. Fc!Blank \in [Fc!Chunk -> Nat] /\ Fc!NoAttr \in FcAttrs  BY DEF Fc!Blank, Fc!NoAttr, FcAttrs, FcSizes
<1>2. FcTypeInv' /\ FcFileInv'  BY <1>1 DEF FcIInv, FcTypeInv, FcFileInv, Fc!Drop, FcServer
<1>3. FcCallInv' /\ FcCacheInv'  BY DEF FcCallInv, FcCacheInv, Fc!Drop
<1> QED  BY <1>2, <1>3 DEF FcIInv

(* A call begins. *)
LEMMA FcStartRevalidateKeeps == ASSUME FcSizes, FcIInv, Fc!StartRevalidate PROVE FcIInv'
BY DEF Fc!StartRevalidate, Fc!Begin, Fc!NoWrite, FcIInv, FcTypeInv, FcFileInv, FcCallInv, FcCacheInv, FcCurrent, Fc!Attr

LEMMA FcStartFetchKeeps == ASSUME FcSizes, FcIInv, Fc!StartFetch PROVE FcIInv'
<1>1. /\ Fc!Fresh /\ ~dvalid /\ pc' = "data" /\ replies' = {} /\ got' = <<>>
      /\ UNCHANGED <<file, mtime, stamps, writes, fh, avalid, attr, dvalid, data>>
  BY DEF Fc!StartFetch, Fc!Begin
<1>2. avalid /\ attr.size > 0  BY <1>1 DEF Fc!Fresh, FcIInv, FcCacheInv
<1>3. Len(got') = 0 /\ got' \in Seq(Nat)  BY <1>1
<1>4. FcTypeInv' /\ FcFileInv'  BY <1>1, <1>3 DEF FcIInv, FcTypeInv, FcFileInv
<1>5. FcCallInv'  BY <1>1, <1>2, <1>3 DEF FcCallInv
<1>6. FcCacheInv'  BY <1>1, <1>3 DEF FcIInv, FcCacheInv, FcCurrent, Fc!Attr
<1> QED  BY <1>4, <1>5, <1>6 DEF FcIInv

LEMMA FcStartWriteKeeps == ASSUME FcSizes, FcIInv, NEW i \in Fc!Chunk, Fc!StartWrite(i) PROVE FcIInv'
<1>1. /\ pc' = "write" /\ wr' = <<i, writes + 1>> /\ replies' = {} /\ writes' = writes + 1
      /\ Fc!Writable(fh, i)
      /\ UNCHANGED <<file, mtime, stamps, fh, avalid, attr, dvalid, data, got>>
  BY DEF Fc!StartWrite, Fc!Begin
<1>2. FcTypeInv' /\ FcFileInv'  BY <1>1 DEF FcIInv, FcTypeInv, FcFileInv
<1>3. writes \in Nat  BY DEF FcIInv, FcTypeInv
<1>4. FcCallInv'  BY <1>1, <1>3 DEF FcCallInv, Fc!Writable
<1>5. FcCacheInv'  BY <1>1 DEF FcIInv, FcCacheInv, FcCurrent, Fc!Attr
<1> QED  BY <1>2, <1>4, <1>5 DEF FcIInv

(* A fetch is over with the row c, under attributes a with no more chunks  *)
(* than it has: if they are still current, c is the file.                  *)
LEMMA FcFetchedKeeps ==
    ASSUME FcSizes, FcIInv, NEW c \in Seq(Nat), NEW a \in FcAttrs,
           Fc!Fetched(c), avalid' = TRUE, attr' = a, UNCHANGED <<FcServer, fh>>,
           a.mtime <= mtime[fh],
           a.mtime = mtime[fh] => /\ a = Fc!Attr(fh) /\ a.size <= Len(c)
                                  /\ \A j \in 1..Len(c) : j <= Chunks => c[j] = file[fh][j]
    PROVE  FcIInv'
<1>1. /\ pc' = "idle" /\ replies' = {} /\ got' = <<>> /\ dvalid'
      /\ data' = [i \in Fc!Chunk |-> IF i <= Len(c) THEN c[i] ELSE 0]
  BY DEF Fc!Fetched, Fc!Finish
<1>2. data' \in [Fc!Chunk -> Nat]
  <2>1. \A i \in Fc!Chunk : (IF i <= Len(c) THEN c[i] ELSE 0) \in Nat
    BY DEF Fc!Chunk
  <2> QED  BY <1>1, <2>1
<1>3. FcTypeInv'
  <2>1. dvalid' = TRUE  BY DEF Fc!Fetched
  <2> QED  BY <1>1, <1>2, <2>1 DEF FcIInv, FcTypeInv, FcServer
<1>4. FcFileInv'  BY DEF FcIInv, FcFileInv, FcServer
<1>5. FcCallInv'  BY <1>1 DEF FcCallInv
<1>6. ASSUME a.mtime = mtime[fh] PROVE data' = file[fh]
  <2>1. file[fh] \in [Fc!Chunk -> Nat] /\ fh \in Files  BY DEF FcIInv, FcTypeInv
  <2>2. Fc!Size(file[fh]) <= Len(c) /\ Fc!Size(file[fh]) \in 0..Chunks
        /\ \A i \in Fc!Chunk : file[fh][i] # 0 <=> i <= Fc!Size(file[fh])
    BY <1>6, <2>1 DEF FcIInv, FcFileInv, Fc!Attr
  <2>3. \A i \in Fc!Chunk : data'[i] = file[fh][i]
    <3> SUFFICES ASSUME NEW i \in Fc!Chunk PROVE data'[i] = file[fh][i]  OBVIOUS
    <3>1. i \in 1..Chunks /\ Len(c) \in Nat  BY DEF Fc!Chunk
    <3>2. CASE i <= Len(c)  BY <1>1, <1>6, <3>1, <3>2
    <3>3. CASE ~(i <= Len(c))  BY <1>1, <2>2, <3>1, <3>3
    <3> QED  BY <3>2, <3>3
  <2> QED  BY <1>2, <2>1, <2>3
<1>7. FcCacheInv'
  BY <1>1, <1>6 DEF FcCacheInv, FcCurrent, FcServer, Fc!Attr
<1> QED  BY <1>3, <1>4, <1>5, <1>7 DEF FcIInv

(* The attributes arrive. *)
LEMMA FcTakeAttrKeeps == ASSUME FcSizes, FcIInv, NEW a \in replies, Fc!TakeAttr(a) PROVE FcIInv'
<1>1. /\ pc = "attr" /\ attr' = a /\ avalid' = TRUE
      /\ UNCHANGED <<FcServer, fh>>
  BY DEF Fc!TakeAttr, FcServer
<1>2. a \in FcAttrs /\ a.size \in 0..Chunks /\ a.mtime \in Nat /\ a.mtime <= mtime[fh]
      /\ (a.mtime = mtime[fh] => a = Fc!Attr(fh))
  BY <1>1 DEF FcIInv, FcCallInv, FcAttrs
<1>3. CASE dvalid /\ (avalid => a = attr) /\ Fc!Finish /\ UNCHANGED <<dvalid, data, got>>
  <2>1. avalid /\ a = attr /\ avalid = TRUE  BY <1>3 DEF FcIInv, FcCacheInv, FcTypeInv
  <2>2. attr' = attr /\ avalid' = avalid  BY <1>1, <2>1
  <2>3. pc' = "idle" /\ replies' = {}  BY <1>3 DEF Fc!Finish
  <2>4. FcTypeInv' /\ FcFileInv'  BY <1>1, <1>3, <2>2, <2>3 DEF FcIInv, FcTypeInv, FcFileInv, FcServer
  <2>5. FcCallInv'  BY <2>3 DEF FcCallInv
  <2>6. FcCacheInv'  BY <1>1, <1>3, <2>2, <2>3 DEF FcIInv, FcCacheInv, FcCurrent, FcServer, Fc!Attr
  <2> QED  BY <2>4, <2>5, <2>6 DEF FcIInv
<1>4. CASE a.size = 0 /\ Fc!Fetched(<<>>)
  <2>1. <<>> \in Seq(Nat) /\ Len(<<>>) = 0  OBVIOUS
  <2>2. a.mtime = mtime[fh] =>
            /\ a = Fc!Attr(fh) /\ a.size <= Len(<<>>)
            /\ \A j \in 1..Len(<<>>) : j <= Chunks => <<>>[j] = file[fh][j]
    BY <1>2, <1>4, <2>1
  <2> QED  BY <1>1, <1>2, <1>4, <2>1, <2>2, FcFetchedKeeps
<1>5. CASE a.size > 0 /\ dvalid' = FALSE /\ data' = Fc!Blank /\ Fc!Begin("data", Fc!NoWrite) /\ got' = <<>>
  <2>1. pc' = "data" /\ replies' = {} /\ Len(got') = 0 /\ got' \in Seq(Nat)
    BY <1>5 DEF Fc!Begin
  <2>2. Fc!Blank \in [Fc!Chunk -> Nat]  BY DEF Fc!Blank
  <2>3. FcTypeInv' /\ FcFileInv'
    BY <1>1, <1>2, <1>5, <2>1, <2>2 DEF FcIInv, FcTypeInv, FcFileInv, FcServer
  <2>4. FcCallInv'  BY <1>1, <1>2, <1>5, <2>1 DEF FcCallInv
  <2>5. FcCacheInv'  BY <1>1, <1>2, <1>5, <2>1 DEF FcCacheInv, FcCurrent, FcServer, Fc!Attr
  <2> QED  BY <2>3, <2>4, <2>5 DEF FcIInv
<1> QED  BY <1>3, <1>4, <1>5 DEF Fc!TakeAttr

(* A chunk arrives: while the attributes are current it is the next chunk  *)
(* of the file, and there is no data after the last one.                   *)
LEMMA FcTakeDataKeeps == ASSUME FcSizes, FcIInv, NEW c \in replies, Fc!TakeData(c) PROVE FcIInv'
<1> DEFINE have == IF c = 0 THEN got ELSE Append(got, c)
<1>1. /\ pc = "data" /\ UNCHANGED <<FcServer, fh, avalid, attr>>
  BY DEF Fc!TakeData, FcServer
<1>2. /\ avalid = TRUE /\ avalid /\ ~dvalid /\ Len(got) \in Nat /\ Len(got) < attr.size /\ c \in Nat
      /\ got \in Seq(Nat) /\ attr \in FcAttrs /\ attr.size \in 0..Chunks /\ attr.mtime \in Nat
  BY <1>1 DEF FcIInv, FcTypeInv, FcCallInv, FcAttrs
<1>3. have \in Seq(Nat) /\ Len(have) = IF c = 0 THEN Len(got) ELSE Len(got) + 1
  BY <1>2
<1>4. attr.mtime <= mtime[fh] /\ (FcCurrent => attr = Fc!Attr(fh))
  BY <1>2 DEF FcIInv, FcCacheInv
<1>5. ASSUME FcCurrent PROVE \A j \in 1..Len(have) : have[j] = file[fh][j]
  <2>1. /\ \A j \in 1..Len(got) : got[j] = file[fh][j]
        /\ c = file[fh][Len(got) + 1]
    BY <1>1, <1>5 DEF FcIInv, FcCacheInv
  <2>2. CASE c = 0  BY <2>1, <2>2
  <2>3. CASE c # 0
    <3> SUFFICES ASSUME NEW j \in 1..Len(have) PROVE have[j] = file[fh][j]  OBVIOUS
    <3>1. have = Append(got, c) /\ j \in 1..(Len(got) + 1)  BY <1>3, <2>3
    <3>2. have[j] = IF j = Len(got) + 1 THEN c ELSE got[j]  BY <1>2, <3>1
    <3>3. j # Len(got) + 1 => j \in 1..Len(got)  BY <1>2, <3>1
    <3> QED  BY <2>1, <3>2, <3>3
  <2> QED  BY <2>2, <2>3
<1>6. CASE (c = 0 \/ Len(have) >= attr.size) /\ Fc!Fetched(have)
  <2>1. ASSUME FcCurrent PROVE attr.size <= Len(have)
    <3>1. CASE c = 0
      <4>1. c = file[fh][Len(got) + 1] /\ attr.size = Fc!Size(file[fh])
        BY <1>1, <1>4, <2>1 DEF FcIInv, FcCacheInv, Fc!Attr
      <4>2. Len(got) + 1 \in Fc!Chunk  BY <1>2 DEF Fc!Chunk, FcSizes
      <4>3. file[fh][Len(got) + 1] # 0 <=> Len(got) + 1 <= Fc!Size(file[fh])
        BY <4>2 DEF FcIInv, FcTypeInv, FcFileInv
      <4> QED  BY <1>2, <3>1, <4>1, <4>3
    <3>2. CASE Len(have) >= attr.size  BY <1>2, <1>3, <3>2
    <3> QED  BY <1>6, <3>1, <3>2
  <2>2. attr.mtime = mtime[fh] =>
            /\ attr = Fc!Attr(fh) /\ attr.size <= Len(have)
            /\ \A j \in 1..Len(have) : j <= Chunks => have[j] = file[fh][j]
    BY <1>4, <1>5, <2>1 DEF FcCurrent
  <2>3. avalid' = TRUE /\ attr' = attr  BY <1>1, <1>2
  <2> HIDE DEF have
  <2> QED  BY <1>1, <1>2, <1>3, <1>4, <1>6, <2>2, <2>3, FcFetchedKeeps
<1>7. CASE /\ c # 0 /\ Len(have) < attr.size
           /\ Fc!Begin("data", Fc!NoWrite) /\ got' = have /\ UNCHANGED <<dvalid, data>>
  <2>1. pc' = "data" /\ replies' = {}  BY <1>7 DEF Fc!Begin
  <2>2. FcTypeInv' /\ FcFileInv'
    BY <1>1, <1>3, <1>7, <2>1 DEF FcIInv, FcTypeInv, FcFileInv, FcServer
  <2>3. FcCallInv'  BY <1>1, <1>2, <1>7, <2>1 DEF FcCallInv
  <2>4. UNCHANGED <<attr, avalid, dvalid, data, file, mtime, fh>>
    BY <1>1, <1>7 DEF FcServer
  <2>5. UNCHANGED <<FcCurrent, Fc!Attr(fh)>>  BY <2>4 DEF FcCurrent, Fc!Attr
  <2> HIDE DEF have
  <2>6. FcCacheInv'
    BY <1>2, <1>4, <1>5, <1>7, <2>1, <2>4, <2>5 DEF FcCacheInv
  <2> QED  BY <2>2, <2>3, <2>6 DEF FcIInv
<1> QED  BY <1>6, <1>7 DEF Fc!TakeData

(* A call fails and the cache is left as it is. *)
LEMMA FcFailKeeps == ASSUME FcSizes, FcIInv, Fc!Fail PROVE FcIInv'
<1>1. /\ pc' = "idle" /\ replies' = {} /\ got' = <<>>
      /\ UNCHANGED <<file, mtime, stamps, writes, fh, avalid, attr, dvalid, data>>
  BY DEF Fc!Fail, Fc!Finish
<1>2. FcTypeInv' /\ FcFileInv'  BY <1>1 DEF FcIInv, FcTypeInv, FcFileInv
<1>3. FcCallInv'  BY <1>1 DEF FcCallInv
<1>4. FcCacheInv'  BY <1>1 DEF FcIInv, FcCacheInv, FcCurrent, Fc!Attr
<1> QED  BY <1>2, <1>3, <1>4 DEF FcIInv

-----------------------------------------------------------------------------
(* The invariant.                                                          *)

LEMMA FcInvInit == ASSUME FcSizes, Fc!Init PROVE FcIInv
<1>1. Fc!Blank \in [Fc!Chunk -> Nat] /\ Fc!NoAttr \in FcAttrs  BY DEF Fc!Blank, Fc!NoAttr, FcAttrs, FcSizes
<1>2. FcTypeInv
  <2>1. file \in [Files -> [Fc!Chunk -> Nat]] /\ mtime \in [Files -> Nat]  BY <1>1 DEF Fc!Init
  <2>2. got \in Seq(Nat)  BY DEF Fc!Init
  <2>3. attr \in FcAttrs /\ data \in [Fc!Chunk -> Nat] /\ fh \in Files  BY <1>1 DEF Fc!Init
  <2> QED  BY <2>1, <2>2, <2>3 DEF Fc!Init, FcTypeInv
<1>3. \A i \in Fc!Chunk : Fc!Blank[i] # 0 <=> i <= 0  BY DEF Fc!Blank, Fc!Chunk
<1>4. Fc!Size(Fc!Blank) = 0  BY <1>3, 0 \in 0..Chunks, FcSizeOf DEF FcSizes
<1>5. FcFileInv
  <2> SUFFICES ASSUME NEW f \in Files
               PROVE  /\ Fc!Size(file[f]) \in 0..Chunks
                      /\ \A i \in Fc!Chunk : file[f][i] # 0 <=> i <= Fc!Size(file[f])
                      /\ mtime[f] <= stamps
    BY DEF FcFileInv
  <2>1. file[f] = Fc!Blank /\ mtime[f] = 0 /\ stamps = 0  BY DEF Fc!Init
  <2> QED  BY <1>3, <1>4, <2>1 DEF FcSizes
<1>6. FcCallInv /\ FcCacheInv  BY DEF Fc!Init, FcCallInv, FcCacheInv
<1> QED  BY <1>2, <1>5, <1>6 DEF FcIInv

LEMMA FcInvStep == ASSUME FcSizes, FcIInv, [Fc!Next]_Fc!vars PROVE FcIInv'
<1>1. CASE Fc!Tick  BY <1>1, FcQuiet DEF Fc!Tick, FcServer, FcClient
<1>2. CASE Fc!Restart  BY <1>2, FcQuiet DEF Fc!Restart, FcServer, FcClient
<1>3. CASE \E f \in Files, i \in Fc!Chunk : Fc!RemoteWrite(f, i)  BY <1>3, FcRemoteWriteKeeps
<1>4. CASE Fc!DoGetattr  BY <1>4, FcGetattrKeeps
<1>5. CASE Fc!DoRead  BY <1>5, FcReadKeeps
<1>6. CASE Fc!DoOwnWrite  BY <1>6, FcOwnWriteKeeps
<1>7. CASE \E f \in Files : Fc!Open(f)
  <2> PICK f \in Files : Fc!Open(f)  BY <1>7
  <2>1. pc' = "idle" /\ replies' = {} /\ fh' \in Files /\ Fc!Drop /\ UNCHANGED <<FcServer, got>>
    BY DEF Fc!Open, FcServer, FcIInv, FcCallInv
  <2> QED  BY <2>1, FcDropKeeps
<1>8. CASE Fc!ReadHit  BY <1>8, FcQuiet DEF Fc!ReadHit, FcServer, FcClient
<1>9. CASE Fc!StartRevalidate  BY <1>9, FcStartRevalidateKeeps
<1>10. CASE Fc!StartFetch  BY <1>10, FcStartFetchKeeps
<1>11. CASE \E r \in replies : Fc!TakeAttr(r) \/ Fc!TakeData(r)
  BY <1>11, FcTakeAttrKeeps, FcTakeDataKeeps
<1>12. CASE \E i \in Fc!Chunk : Fc!StartWrite(i)  BY <1>12, FcStartWriteKeeps
<1>13. CASE Fc!TakeWrite
  <2>1. pc' = "idle" /\ replies' = {} /\ fh' \in Files /\ Fc!Drop /\ UNCHANGED <<FcServer, got>>
    BY <1>13 DEF Fc!TakeWrite, Fc!Finish, FcServer, FcIInv, FcTypeInv
  <2> QED  BY <2>1, FcDropKeeps
<1>14. CASE Fc!Fail  BY <1>14, FcFailKeeps
<1>15. CASE UNCHANGED Fc!vars  BY <1>15, FcQuiet DEF Fc!vars, FcServer, FcClient
<1> QED
  BY <1>1, <1>2, <1>3, <1>4, <1>5, <1>6, <1>7, <1>8, <1>9, <1>10, <1>11, <1>12, <1>13,
     <1>14, <1>15 DEF Fc!Next

LEMMA FcInvEnough == FcIInv => Fc!RevalidatedGood
BY DEF FcIInv, FcCacheInv, FcCurrent, Fc!RevalidatedGood, Fc!Attr

(* Cached data under the attributes the server has now is what the server  *)
(* has now, for any files of any size, whatever other clients write while  *)
(* a fetch is under way and however often the server is restarted: a       *)
(* revalidation that finds them unchanged may keep the data, if every      *)
(* write has an mtime of its own.                                          *)
LEMMA FcRevalidated == ASSUME FcSizes PROVE Fc!Spec => []Fc!RevalidatedGood
<1>1. Fc!Init => FcIInv  BY FcInvInit
<1>2. FcIInv /\ [Fc!Next]_Fc!vars => FcIInv'  BY FcInvStep
<1>3. FcIInv => Fc!RevalidatedGood  BY FcInvEnough
<1> QED  BY <1>1, <1>2, <1>3, PTL DEF Fc!Spec

-----------------------------------------------------------------------------
(* How stale a read can be.                                                *)

(* The bounds of the clock; a window of 0, the cache switched off, is left *)
(* out, as in FileCache.                                                   *)
FcClock == FcSizes /\ Ac \in Nat \ {0} /\ MaxCall \in Nat

(* Chunk i of the open file held w at time u or later. *)
FcHeld(f, i, w, u) ==
    \/ w = file[f][i]
    \/ \E e \in ended : e[1] = f /\ e[2] = i /\ e[3] = w /\ e[4] >= u

(* Nothing is stamped with a time to come; no call takes longer than       *)
(* MaxCall, and no fetch longer than a call per chunk it has.              *)
FcTimeInv ==
    /\ now \in Nat /\ since \in Nat /\ afetched \in Nat /\ result.at \in Nat
    /\ since <= now /\ afetched <= now /\ result.at <= now
    /\ \A e \in ended : e[4] \in Nat
    /\ pc # "idle" => now <= since + MaxCall
    /\ pc = "data" => afetched <= since /\ since <= afetched + Ac - 1 + Len(got) * MaxCall

(* Since when the chunks of the cache, of the fetch under way and of the   *)
(* replies to it were in the file: a chunk that a size leaves out counts   *)
(* as one that holds nothing.                                              *)
FcAgeInv ==
    /\ dvalid => \A i \in Fc!Chunk : FcHeld(fh, i, data[i], afetched - MaxCall)
    /\ avalid => \A i \in Fc!Chunk : i > attr.size => FcHeld(fh, i, 0, afetched - MaxCall)
    /\ pc = "attr" => \A a \in replies :
           /\ \A i \in Fc!Chunk : i > a.size => FcHeld(fh, i, 0, since)
           /\ dvalid /\ a = attr => \A i \in Fc!Chunk : FcHeld(fh, i, data[i], since)
    /\ pc = "data" =>
           /\ \A j \in 1..Len(got) : FcHeld(fh, j, got[j], afetched)
           /\ \A c \in replies :
                  /\ FcHeld(fh, Len(got) + 1, c, since)
                  /\ c = 0 => \A i \in Fc!Chunk : i > Len(got) => FcHeld(fh, i, 0, since)

FcWindow == Ac - 1 + (Chunks + 1) * MaxCall

(* The last read, and how old its chunks were at the time. *)
FcResultInv ==
    /\ result.file \in Files
    /\ \A i \in Fc!Chunk : FcHeld(result.file, i, result.data[i], result.at - FcWindow)

FcStaleInv == FcTimeInv /\ FcAgeInv /\ FcResultInv

(* What held later held earlier. *)
LEMMA FcHeldBefore ==
    ASSUME FcTimeInv, NEW f, NEW i, NEW w, NEW u \in Int, NEW v \in Int, v <= u,
           FcHeld(f, i, w, u)
    PROVE  FcHeld(f, i, w, v)
BY DEF FcHeld, FcTimeInv

(* A write ends what it replaces now, and nothing else. *)
LEMMA FcHeldWrite ==
    ASSUME FcTypeInv, FcTimeInv, NEW f \in Files, NEW j \in Fc!Chunk, NEW w, Fc!DoWrite(f, j, w),
           NEW g \in Files, NEW i \in Fc!Chunk, NEW v, NEW u \in Int, u <= now,
           FcHeld(g, i, v, u)
    PROVE  FcHeld(g, i, v, u)'
<1>1. /\ file' = [file EXCEPT ![f][j] = w]
      /\ ended' = IF file[f][j] = w THEN ended ELSE ended \cup {<<f, j, file[f][j], now>>}
      /\ file \in [Files -> [Fc!Chunk -> Nat]] /\ now \in Nat
  BY DEF Fc!DoWrite, FcTypeInv, FcTimeInv
<1>2. CASE v # file[g][i]
  BY <1>1, <1>2 DEF FcHeld
<1>3. CASE v = file[g][i] /\ ~(g = f /\ i = j)
  <2>1. file'[g][i] = file[g][i]  BY <1>1, <1>3
  <2> QED  BY <1>3, <2>1 DEF FcHeld
<1>4. CASE v = file[g][i] /\ g = f /\ i = j
  <2>1. CASE file[f][j] = w
    <3>1. file'[g][i] = w  BY <1>1, <1>4
    <3> QED  BY <1>4, <2>1, <3>1 DEF FcHeld
  <2>2. CASE file[f][j] # w
    <3> DEFINE e == <<f, j, file[f][j], now>>
    <3>1. e \in ended' /\ e[1] = g /\ e[2] = i /\ e[3] = v /\ e[4] >= u
      BY <1>1, <1>4, <2>2
    <3> QED  BY <3>1 DEF FcHeld
  <2> QED  BY <2>1, <2>2
<1> QED  BY <1>2, <1>3, <1>4

(* The times at which chunks are known to have been in a file are past. *)
LEMMA FcPast ==
    ASSUME FcClock, FcIInv, FcTimeInv
    PROVE  /\ afetched - MaxCall \in Int /\ afetched - MaxCall <= now
           /\ since \in Int /\ since <= now /\ afetched \in Int /\ afetched <= now
           /\ FcWindow \in Nat /\ result.at - FcWindow \in Int /\ result.at - FcWindow <= now
<1>1. (Chunks + 1) * MaxCall \in Nat  BY DEF FcClock, FcSizes
<1>2. FcWindow \in Nat  BY <1>1 DEF FcWindow, FcClock
<1> QED  BY <1>2 DEF FcTimeInv, FcClock

(* A write of any client leaves what is known of the ages. *)
LEMMA FcWriteAges ==
    ASSUME FcClock, FcIInv, FcStaleInv, NEW f \in Files, NEW j \in Fc!Chunk, NEW w,
           Fc!DoWrite(f, j, w), pc = "write" \/ UNCHANGED replies,
           UNCHANGED <<now, pc, since, got, fh, avalid, attr, afetched, dvalid, data, result>>
    PROVE  FcStaleInv'
<1>0. FcTypeInv /\ FcTimeInv /\ FcAgeInv /\ FcResultInv  BY DEF FcIInv, FcStaleInv
<1>1. \A g \in Files, i \in Fc!Chunk, u \in Int :
          \A v : u <= now /\ FcHeld(g, i, v, u) => FcHeld(g, i, v, u)'
  BY <1>0, FcHeldWrite
<1>2. FcTimeInv'
  <2>1. \A e \in ended' : e[4] \in Nat
    BY <1>0 DEF Fc!DoWrite, FcTimeInv
  <2> QED  BY <1>0, <2>1 DEF FcTimeInv
<1>3. fh \in Files /\ Chunks \in Nat /\ attr.size \in 0..Chunks /\ Len(got) \in Nat
  BY <1>0 DEF FcTypeInv, FcAttrs, FcClock, FcSizes
<1>4. FcAgeInv'
  <2>1. dvalid => \A i \in Fc!Chunk : FcHeld(fh, i, data[i], afetched - MaxCall)'
    BY <1>0, <1>1, <1>3, FcPast DEF FcAgeInv
  <2>2. avalid => \A i \in Fc!Chunk : i > attr.size => FcHeld(fh, i, 0, afetched - MaxCall)'
    BY <1>0, <1>1, <1>3, FcPast DEF FcAgeInv
  <2>3. pc = "attr" => \A a \in replies :
           /\ \A i \in Fc!Chunk : i > a.size => FcHeld(fh, i, 0, since)'
           /\ dvalid /\ a = attr => \A i \in Fc!Chunk : FcHeld(fh, i, data[i], since)'
    BY <1>0, <1>1, <1>3, FcPast DEF FcAgeInv
  <2>4. pc = "data" => /\ Len(got) + 1 \in Fc!Chunk /\ 1..Len(got) \subseteq Fc!Chunk
    BY <1>3 DEF Fc!Chunk, FcIInv, FcCallInv
  <2>5. pc = "data" => \A l \in 1..Len(got) : FcHeld(fh, l, got[l], afetched)'
    BY <1>0, <1>1, <1>3, <2>4, FcPast DEF FcAgeInv
  <2>6. pc = "data" => \A c \in replies :
                  /\ FcHeld(fh, Len(got) + 1, c, since)'
                  /\ c = 0 => \A i \in Fc!Chunk : i > Len(got) => FcHeld(fh, i, 0, since)'
    BY <1>0, <1>1, <1>3, <2>4, FcPast DEF FcAgeInv
  <2> QED  BY <2>1, <2>2, <2>3, <2>5, <2>6 DEF FcAgeInv
<1>5. FcResultInv'
  BY <1>0, <1>1, FcPast DEF FcResultInv
<1> QED  BY <1>2, <1>4, <1>5 DEF FcStaleInv

(* Nothing happens to the files. *)
FcStill == UNCHANGED <<file, ended>>

(* Time passes, or the server forgets its replies. *)
LEMMA FcTickAges == ASSUME FcClock, FcIInv, FcStaleInv, Fc!Tick PROVE FcStaleInv'
<1>1. FcTimeInv'  BY DEF FcStaleInv, FcTimeInv, Fc!Tick, FcClock
<1>2. FcAgeInv'  BY DEF FcStaleInv, FcAgeInv, FcHeld, Fc!Tick
<1>3. FcResultInv'  BY DEF FcStaleInv, FcResultInv, FcHeld, Fc!Tick
<1> QED  BY <1>1, <1>2, <1>3 DEF FcStaleInv

(* The server answers with the file as it is now. *)
LEMMA FcGetattrAges == ASSUME FcClock, FcIInv, FcStaleInv, Fc!DoGetattr PROVE FcStaleInv'
<1>1. /\ pc = "attr" /\ replies' = replies \cup {Fc!Attr(fh)} /\ FcStill
      /\ UNCHANGED <<now, pc, since, fh, got, avalid, attr, afetched, dvalid, data, result>>
  BY DEF Fc!DoGetattr, Fc!Run, FcStill
<1>2. fh \in Files /\ file[fh] \in [Fc!Chunk -> Nat]  BY DEF FcIInv, FcTypeInv
<1>3. \A i \in Fc!Chunk : i > Fc!Attr(fh).size => file[fh][i] = 0
  BY <1>2 DEF FcIInv, FcFileInv, Fc!Attr, Fc!Chunk
<1>4. dvalid /\ attr = Fc!Attr(fh) => data = file[fh]
  BY DEF FcIInv, FcCacheInv, FcCurrent, Fc!Attr
<1>5. FcTimeInv'  BY <1>1 DEF FcStaleInv, FcTimeInv, FcStill
<1>6. FcAgeInv'
  BY <1>1, <1>3, <1>4 DEF FcStaleInv, FcAgeInv, FcHeld, FcStill
<1>7. FcResultInv'  BY <1>1 DEF FcStaleInv, FcResultInv, FcHeld, FcStill
<1> QED  BY <1>5, <1>6, <1>7 DEF FcStaleInv

LEMMA FcReadAges == ASSUME FcClock, FcIInv, FcStaleInv, Fc!DoRead PROVE FcStaleInv'
<1>1. /\ pc = "data" /\ replies' = replies \cup {file[fh][Len(got) + 1]} /\ FcStill
      /\ UNCHANGED <<now, pc, since, fh, got, avalid, attr, afetched, dvalid, data, result>>
  BY DEF Fc!DoRead, Fc!Run, FcStill
<1>2. fh \in Files /\ file[fh] \in [Fc!Chunk -> Nat] /\ Len(got) \in Nat
      /\ attr.size \in 0..Chunks /\ Chunks \in Nat
  BY DEF FcIInv, FcTypeInv, FcAttrs, FcClock, FcSizes
<1>3. Len(got) + 1 \in Fc!Chunk  BY <1>1, <1>2 DEF FcIInv, FcCallInv, Fc!Chunk
<1>4. file[fh][Len(got) + 1] = 0 => \A i \in Fc!Chunk : i > Len(got) => file[fh][i] = 0
  BY <1>2, <1>3 DEF FcIInv, FcFileInv, Fc!Chunk
<1>5. FcTimeInv'  BY <1>1 DEF FcStaleInv, FcTimeInv, FcStill
<1>6. FcAgeInv'
  BY <1>1, <1>4 DEF FcStaleInv, FcAgeInv, FcHeld, FcStill
<1>7. FcResultInv'  BY <1>1 DEF FcStaleInv, FcResultInv, FcHeld, FcStill
<1> QED  BY <1>5, <1>6, <1>7 DEF FcStaleInv

(* The cache is dropped; a call that has failed leaves it. *)
LEMMA FcDropAges ==
    ASSUME FcClock, FcStaleInv, Fc!Drop, FcStill, pc' = "idle", since' \in {0, since},
           UNCHANGED <<now, result>>
    PROVE  FcStaleInv'
<1>1. FcTimeInv'  BY DEF FcStaleInv, FcTimeInv, Fc!Drop, FcStill
<1>2. FcAgeInv'  BY DEF FcAgeInv, Fc!Drop
<1>3. FcResultInv'  BY DEF FcStaleInv, FcResultInv, FcHeld, FcStill
<1> QED  BY <1>1, <1>2, <1>3 DEF FcStaleInv

LEMMA FcFailAges == ASSUME FcClock, FcStaleInv, Fc!Fail PROVE FcStaleInv'
<1>1. /\ pc' = "idle" /\ since' = 0 /\ FcStill
      /\ UNCHANGED <<now, fh, avalid, attr, afetched, dvalid, data, result>>
  BY DEF Fc!Fail, Fc!Finish, FcStill
<1>2. FcTimeInv'  BY <1>1 DEF FcStaleInv, FcTimeInv, FcStill
<1>3. FcAgeInv'  BY <1>1 DEF FcStaleInv, FcAgeInv, FcHeld, FcStill
<1>4. FcResultInv'  BY <1>1 DEF FcStaleInv, FcResultInv, FcHeld, FcStill
<1> QED  BY <1>2, <1>3, <1>4 DEF FcStaleInv

(* A call begins. *)
LEMMA FcStartAges ==
    ASSUME FcClock, FcIInv, FcStaleInv,
           Fc!StartRevalidate \/ Fc!StartFetch \/ \E i \in Fc!Chunk : Fc!StartWrite(i)
    PROVE  FcStaleInv'
<1>1. /\ since' = now /\ replies' = {} /\ FcStill /\ pc' \in {"attr", "data", "write"}
      /\ UNCHANGED <<now, fh, avalid, attr, afetched, dvalid, data, result>>
      /\ pc' = "data" => got' = <<>> /\ now - afetched < Ac
  BY DEF Fc!StartRevalidate, Fc!StartFetch, Fc!StartWrite, Fc!Begin, Fc!Fresh, FcStill
<1>2. FcTimeInv'
  <2>1. pc' = "data" => Len(got') * MaxCall = 0  BY <1>1 DEF FcClock
  <2> QED  BY <1>1, <2>1 DEF FcStaleInv, FcTimeInv, FcStill, FcClock
<1>3. FcAgeInv'
  <2>1. pc' = "data" => 1..Len(got') = {}  BY <1>1
  <2> QED  BY <1>1, <2>1 DEF FcStaleInv, FcAgeInv, FcHeld, FcStill
<1>4. FcResultInv'  BY <1>1 DEF FcStaleInv, FcResultInv, FcHeld, FcStill
<1> QED  BY <1>2, <1>3, <1>4 DEF FcStaleInv

(* A read is served with chunks that were in the file since u. *)
LEMMA FcServed ==
    ASSUME FcClock, FcIInv, FcTimeInv, NEW d, NEW u \in Int, u >= now - FcWindow,
           Fc!Serve(d), FcStill, \A i \in Fc!Chunk : FcHeld(fh, i, d[i], u)
    PROVE  FcResultInv'
<1>1. now - FcWindow \in Int /\ fh \in Files  BY FcPast DEF FcTimeInv, FcIInv, FcTypeInv
<1>2. \A i \in Fc!Chunk : FcHeld(fh, i, d[i], now - FcWindow)
  BY <1>1, FcHeldBefore
<1>3. result'.file = fh /\ result'.data = d /\ result'.at = now  BY DEF Fc!Serve
<1> QED  BY <1>1, <1>2, <1>3 DEF FcResultInv, FcHeld, FcStill, FcWindow

(* From the cache, within the window. *)
LEMMA FcHitAges == ASSUME FcClock, FcIInv, FcStaleInv, Fc!ReadHit PROVE FcStaleInv'
<1>1. /\ pc = "idle" /\ dvalid /\ now - afetched < Ac /\ Fc!Serve(data) /\ FcStill
      /\ UNCHANGED <<now, pc, since, got, replies, fh, avalid, attr, afetched, dvalid, data>>
  BY DEF Fc!ReadHit, Fc!Fresh, FcStill
<1>2. FcTimeInv'  BY <1>1 DEF FcStaleInv, FcTimeInv, FcStill, Fc!Serve
<1>3. FcAgeInv'  BY <1>1 DEF FcStaleInv, FcAgeInv, FcHeld, FcStill
<1>4. afetched - MaxCall >= now - FcWindow
  <2>1. (Chunks + 1) * MaxCall >= MaxCall  BY DEF FcClock, FcSizes
  <2>2. (Chunks + 1) * MaxCall \in Nat  BY DEF FcClock, FcSizes
  <2> QED  BY <1>1, <2>1, <2>2 DEF FcWindow, FcStaleInv, FcTimeInv, FcClock
<1>5. FcResultInv'
  BY <1>1, <1>4, FcPast, FcServed DEF FcStaleInv, FcAgeInv
<1> QED  BY <1>2, <1>3, <1>5 DEF FcStaleInv

(* A fetch is over with the row c: what c does not reach was empty.        *)
LEMMA FcFetchedAges ==
    ASSUME FcClock, FcIInv, FcTimeInv, NEW c \in Seq(Nat), Fc!Fetched(c), FcStill,
           UNCHANGED <<now, fh>>, avalid' = TRUE,
           NEW t \in Nat, afetched' = t, t <= now, NEW a, attr' = a,
           t - MaxCall >= now - FcWindow,
           \A j \in 1..Len(c) : j <= Chunks => FcHeld(fh, j, c[j], t - MaxCall),
           \A i \in Fc!Chunk : i > Len(c) => FcHeld(fh, i, 0, t - MaxCall),
           \A i \in Fc!Chunk : i > a.size => FcHeld(fh, i, 0, t - MaxCall)
    PROVE  FcStaleInv'
<1>1. /\ pc' = "idle" /\ since' = 0 /\ Fc!Serve(data')
      /\ data' = [i \in Fc!Chunk |-> IF i <= Len(c) THEN c[i] ELSE 0]
  BY DEF Fc!Fetched, Fc!Finish, Fc!Serve
<1>2. \A i \in Fc!Chunk : FcHeld(fh, i, data'[i], t - MaxCall)
  <2> SUFFICES ASSUME NEW i \in Fc!Chunk PROVE FcHeld(fh, i, data'[i], t - MaxCall)
    OBVIOUS
  <2>1. i \in 1..Chunks /\ Len(c) \in Nat /\ Chunks \in Nat
    BY DEF Fc!Chunk, FcClock, FcSizes
  <2>2. CASE i <= Len(c)
    <3>1. data'[i] = c[i] /\ i \in 1..Len(c)  BY <1>1, <2>1, <2>2
    <3> QED  BY <2>1, <3>1
  <2>3. CASE ~(i <= Len(c))
    <3>1. data'[i] = 0 /\ i > Len(c)  BY <1>1, <2>1, <2>3
    <3> QED  BY <3>1
  <2> QED  BY <2>2, <2>3
<1>3. FcTimeInv'
  BY <1>1 DEF FcTimeInv, FcStill, Fc!Serve
<1>4. FcAgeInv'
  BY <1>1, <1>2 DEF FcAgeInv, FcHeld, FcStill
<1>5. t - MaxCall \in Int  BY DEF FcClock
<1>6. FcResultInv'
  BY <1>1, <1>2, <1>5, FcServed
<1> QED  BY <1>3, <1>4, <1>6 DEF FcStaleInv

(* The window leaves room for a call after the attributes, and for those   *)
(* of a fetch.                                                             *)
LEMMA FcRoom ==
    ASSUME FcClock, FcTimeInv, NEW n \in Nat, n <= Chunks,
           now <= afetched + Ac - 1 + n * MaxCall
    PROVE  afetched - MaxCall >= now - FcWindow
<1>1. Chunks \in Nat /\ MaxCall \in Nat /\ Ac \in Nat  BY DEF FcClock, FcSizes
<1>2. n * MaxCall <= Chunks * MaxCall  BY <1>1
<1>3. (Chunks + 1) * MaxCall = Chunks * MaxCall + MaxCall  BY <1>1
<1>4. n * MaxCall \in Nat /\ Chunks * MaxCall \in Nat  BY <1>1
<1> DEFINE x == n * MaxCall
           y == Chunks * MaxCall
<1>5. x \in Nat /\ y \in Nat /\ x <= y /\ now <= afetched + Ac - 1 + x
      /\ FcWindow = Ac - 1 + (y + MaxCall)
  BY <1>2, <1>3, <1>4 DEF FcWindow
<1> HIDE DEF x, y
<1> QED  BY <1>1, <1>5 DEF FcTimeInv

LEMMA FcTakeAttrAges ==
    ASSUME FcClock, FcIInv, FcStaleInv, NEW a \in replies, Fc!TakeAttr(a)
    PROVE  FcStaleInv'
<1>1. /\ pc = "attr" /\ attr' = a /\ avalid' = TRUE /\ afetched' = now /\ FcStill
      /\ UNCHANGED <<now, fh>>
  BY DEF Fc!TakeAttr, FcStill
<1>2. FcTimeInv /\ FcAgeInv /\ FcResultInv  BY DEF FcStaleInv
<1>3. /\ since \in Int /\ now \in Nat /\ MaxCall \in Nat /\ Chunks \in Nat
      /\ now - MaxCall <= since /\ now - MaxCall \in Int
  BY <1>1, <1>2 DEF FcTimeInv, FcClock, FcSizes
<1>4. \A i \in Fc!Chunk : i > a.size => FcHeld(fh, i, 0, now - MaxCall)
  BY <1>1, <1>2, <1>3, FcHeldBefore DEF FcAgeInv
<1>5. now - MaxCall >= now - FcWindow
  <2>1. (Chunks + 1) * MaxCall = Chunks * MaxCall + MaxCall  BY <1>3
  <2>2. Chunks * MaxCall \in Nat  BY <1>3
  <2> QED  BY <1>3, <2>1, <2>2 DEF FcWindow, FcClock
<1>6. CASE /\ dvalid /\ (avalid => a = attr)
           /\ Fc!Finish /\ Fc!Serve(data) /\ UNCHANGED <<dvalid, data, got>>
  <2>1. a = attr  BY <1>6 DEF FcIInv, FcCacheInv
  <2>2. \A i \in Fc!Chunk : FcHeld(fh, i, data[i], now - MaxCall)
    BY <1>1, <1>2, <1>3, <1>6, <2>1, FcHeldBefore DEF FcAgeInv
  <2>3. pc' = "idle" /\ since' = 0  BY <1>6 DEF Fc!Finish
  <2>4. FcTimeInv'  BY <1>1, <1>2, <1>6, <2>3 DEF FcTimeInv, FcStill, Fc!Serve
  <2>5. FcAgeInv'  BY <1>1, <1>4, <1>6, <2>2, <2>3 DEF FcAgeInv, FcHeld, FcStill
  <2>6. FcResultInv'  BY <1>1, <1>2, <1>3, <1>5, <1>6, <2>2, FcServed
  <2> QED  BY <2>4, <2>5, <2>6 DEF FcStaleInv
<1>7. CASE a.size = 0 /\ Fc!Fetched(<<>>)
  <2> DEFINE c == <<>>
  <2>1. c \in Seq(Nat) /\ Len(c) = 0 /\ Fc!Fetched(c)  BY <1>7
  <2> HIDE DEF c
  <2>2. \A i \in Fc!Chunk : i > Len(c) => FcHeld(fh, i, 0, now - MaxCall)
    BY <1>4, <1>7, <2>1
  <2>3. \A j \in 1..Len(c) : j <= Chunks => FcHeld(fh, j, c[j], now - MaxCall)
    BY <2>1
  <2>4. now <= now  BY <1>3
  <2> QED  BY <1>1, <1>2, <1>3, <1>4, <1>5, <2>1, <2>2, <2>3, <2>4, FcFetchedAges
<1>8. CASE /\ dvalid' = FALSE /\ Fc!Begin("data", Fc!NoWrite) /\ got' = <<>>
           /\ UNCHANGED result
  <2>1. pc' = "data" /\ since' = now /\ replies' = {} /\ Len(got') = 0  BY <1>8 DEF Fc!Begin
  <2>2. Len(got') * MaxCall = 0  BY <1>3, <2>1
  <2>3. FcTimeInv'  BY <1>1, <1>2, <1>3, <1>8, <2>1, <2>2 DEF FcTimeInv, FcStill, FcClock
  <2>4. 1..Len(got') = {}  BY <2>1
  <2>5. FcAgeInv'  BY <1>1, <1>4, <1>8, <2>1, <2>4 DEF FcAgeInv, FcHeld, FcStill
  <2>6. FcResultInv'  BY <1>1, <1>2, <1>8 DEF FcResultInv, FcHeld, FcStill
  <2> QED  BY <2>3, <2>5, <2>6 DEF FcStaleInv
<1> QED  BY <1>6, <1>7, <1>8 DEF Fc!TakeAttr

LEMMA FcTakeDataAges ==
    ASSUME FcClock, FcIInv, FcStaleInv, NEW c \in replies, Fc!TakeData(c)
    PROVE  FcStaleInv'
<1> DEFINE have == IF c = 0 THEN got ELSE Append(got, c)
<1>1. pc = "data" /\ FcStill /\ UNCHANGED <<now, fh, avalid, attr, afetched>>
  BY DEF Fc!TakeData, FcStill
<1>2. FcTimeInv /\ FcAgeInv /\ FcResultInv  BY DEF FcStaleInv
<1>3. /\ avalid = TRUE /\ got \in Seq(Nat) /\ Len(got) \in Nat /\ Len(got) < attr.size
      /\ attr.size \in 0..Chunks /\ c \in Nat /\ Chunks \in Nat /\ MaxCall \in Nat /\ Ac \in Nat
  BY <1>1 DEF FcIInv, FcTypeInv, FcCallInv, FcAttrs, FcClock, FcSizes
<1>4. /\ now \in Nat /\ since \in Nat /\ afetched \in Nat /\ afetched <= since /\ since <= now
      /\ now <= since + MaxCall /\ since <= afetched + Ac - 1 + Len(got) * MaxCall
  BY <1>1, <1>2 DEF FcTimeInv
<1>5. have \in Seq(Nat) /\ Len(have) = IF c = 0 THEN Len(got) ELSE Len(got) + 1
  BY <1>3
<1>6. now <= afetched + Ac - 1 + (Len(got) + 1) * MaxCall
  <2>1. (Len(got) + 1) * MaxCall = Len(got) * MaxCall + MaxCall /\ Len(got) * MaxCall \in Nat
    BY <1>3
  <2> QED  BY <1>3, <1>4, <2>1
<1>7. afetched - MaxCall \in Int /\ afetched - MaxCall <= afetched /\ afetched - MaxCall <= since
  BY <1>3, <1>4
<1>8. /\ FcHeld(fh, Len(got) + 1, c, since)
      /\ c = 0 => \A i \in Fc!Chunk : i > Len(got) => FcHeld(fh, i, 0, since)
      /\ \A j \in 1..Len(got) : FcHeld(fh, j, got[j], afetched)
      /\ \A i \in Fc!Chunk : i > attr.size => FcHeld(fh, i, 0, afetched - MaxCall)
  BY <1>1, <1>2, <1>3 DEF FcAgeInv
<1>9. \A j \in 1..Len(have) : FcHeld(fh, j, have[j], afetched)
  <2>1. CASE c = 0  BY <1>8, <2>1
  <2>2. CASE c # 0
    <3> SUFFICES ASSUME NEW j \in 1..Len(have) PROVE FcHeld(fh, j, have[j], afetched)
      OBVIOUS
    <3>1. have = Append(got, c) /\ j \in 1..(Len(got) + 1)  BY <1>5, <2>2
    <3>2. have[j] = IF j = Len(got) + 1 THEN c ELSE got[j]  BY <1>3, <3>1
    <3>3. CASE j = Len(got) + 1
      <4>1. FcHeld(fh, j, have[j], since)  BY <1>8, <3>2, <3>3
      <4> HIDE DEF have
      <4> QED  BY <1>2, <1>4, <4>1, FcHeldBefore
    <3>4. CASE j # Len(got) + 1
      <4>1. j \in 1..Len(got) /\ have[j] = got[j]  BY <1>3, <3>1, <3>2, <3>4
      <4> QED  BY <1>8, <4>1
    <3> QED  BY <3>3, <3>4
  <2> QED  BY <2>1, <2>2
<1> HIDE DEF have
<1>10. CASE (c = 0 \/ Len(have) >= attr.size) /\ Fc!Fetched(have)
  <2>1. \A i \in Fc!Chunk : i > Len(have) => FcHeld(fh, i, 0, afetched - MaxCall)
    <3>1. CASE c = 0
      <4>1. \A i \in Fc!Chunk : i > Len(have) => FcHeld(fh, i, 0, since)
        BY <1>5, <1>8, <3>1
      <4> QED  BY <1>2, <1>4, <1>7, <4>1, FcHeldBefore
    <3>2. CASE Len(have) >= attr.size
      <4>1. \A i \in Fc!Chunk : i > Len(have) => i > attr.size
        BY <1>3, <1>5, <3>2 DEF Fc!Chunk
      <4> QED  BY <1>8, <4>1
    <3> QED  BY <1>10, <3>1, <3>2
  <2>2. \A j \in 1..Len(have) : j <= Chunks => FcHeld(fh, j, have[j], afetched - MaxCall)
    BY <1>2, <1>4, <1>7, <1>9, FcHeldBefore
  <2>3. Len(got) + 1 \in Nat /\ Len(got) + 1 <= Chunks  BY <1>3
  <2>4. afetched - MaxCall >= now - FcWindow  BY <1>2, <1>6, <2>3, FcRoom
  <2>5. avalid' = TRUE /\ attr' = attr /\ afetched' = afetched /\ afetched <= now
    BY <1>1, <1>3, <1>4
  <2> QED  BY <1>1, <1>2, <1>4, <1>5, <1>8, <1>10, <2>1, <2>2, <2>4, <2>5, FcFetchedAges
<1>11. CASE /\ c # 0 /\ Len(have) < attr.size
            /\ Fc!Begin("data", Fc!NoWrite) /\ got' = have
            /\ UNCHANGED <<dvalid, data, result>>
  <2>1. pc' = "data" /\ since' = now /\ replies' = {}  BY <1>11 DEF Fc!Begin
  <2>2. Len(got') = Len(got) + 1  BY <1>5, <1>11
  <2>3. FcTimeInv'
    <3>1. since' <= afetched' + Ac - 1 + Len(got') * MaxCall  BY <1>1, <1>6, <2>1, <2>2
    <3> QED  BY <1>1, <1>2, <1>3, <1>4, <1>11, <2>1, <3>1 DEF FcTimeInv, FcStill
  <2>4. FcAgeInv'
    BY <1>1, <1>2, <1>9, <1>11, <2>1 DEF FcAgeInv, FcHeld, FcStill
  <2>5. FcResultInv'  BY <1>1, <1>2, <1>11 DEF FcResultInv, FcHeld, FcStill
  <2> QED  BY <2>3, <2>4, <2>5 DEF FcStaleInv
<1> QED  BY <1>10, <1>11 DEF Fc!TakeData, have

-----------------------------------------------------------------------------

LEMMA FcStaleInit == ASSUME FcClock, Fc!Init PROVE FcStaleInv
<1>1. FcTimeInv  BY DEF Fc!Init, FcTimeInv, FcClock
<1>2. FcAgeInv  BY DEF Fc!Init, FcAgeInv
<1>3. FcResultInv  BY DEF Fc!Init, FcResultInv, FcHeld, Fc!Blank
<1> QED  BY <1>1, <1>2, <1>3 DEF FcStaleInv

LEMMA FcStaleStep == ASSUME FcClock, FcIInv, FcStaleInv, [Fc!Next]_Fc!vars PROVE FcStaleInv'
<1>1. CASE Fc!Tick  BY <1>1, FcTickAges
<1>2. CASE Fc!Restart
  <2>1. FcTimeInv' /\ FcAgeInv' /\ FcResultInv'
    BY <1>2 DEF Fc!Restart, FcStaleInv, FcTimeInv, FcAgeInv, FcResultInv, FcHeld
  <2> QED  BY <2>1 DEF FcStaleInv
<1>3. ASSUME NEW f \in Files, NEW i \in Fc!Chunk, Fc!RemoteWrite(f, i) PROVE FcStaleInv'
  BY <1>3, FcWriteAges DEF Fc!RemoteWrite
<1>4. CASE Fc!DoGetattr  BY <1>4, FcGetattrAges
<1>5. CASE Fc!DoRead  BY <1>5, FcReadAges
<1>6. CASE Fc!DoOwnWrite
  <2>1. /\ pc = "write" /\ Fc!DoWrite(fh, wr[1], wr[2])
        /\ UNCHANGED <<now, pc, since, got, fh, avalid, attr, afetched, dvalid, data, result>>
    BY <1>6 DEF Fc!DoOwnWrite, Fc!Run
  <2>2. fh \in Files /\ wr[1] \in Fc!Chunk  BY <2>1 DEF FcIInv, FcTypeInv, FcCallInv
  <2> QED  BY <2>1, <2>2, FcWriteAges
<1>7. ASSUME NEW f \in Files, Fc!Open(f) PROVE FcStaleInv'
  <2>1. /\ Fc!Drop /\ FcStill /\ pc' = "idle" /\ UNCHANGED <<since, now, result>>
    BY <1>7 DEF Fc!Open, FcStill
  <2> QED  BY <2>1, FcDropAges
<1>8. CASE Fc!ReadHit  BY <1>8, FcHitAges
<1>9. CASE Fc!StartRevalidate \/ Fc!StartFetch \/ \E i \in Fc!Chunk : Fc!StartWrite(i)
  BY <1>9, FcStartAges
<1>10. ASSUME NEW r \in replies, Fc!TakeAttr(r) \/ Fc!TakeData(r) PROVE FcStaleInv'
  BY <1>10, FcTakeAttrAges, FcTakeDataAges
<1>11. CASE Fc!TakeWrite
  <2>1. /\ Fc!Drop /\ FcStill /\ pc' = "idle" /\ since' = 0 /\ UNCHANGED <<now, result>>
    BY <1>11 DEF Fc!TakeWrite, Fc!Finish, FcStill
  <2> QED  BY <2>1, FcDropAges
<1>12. CASE Fc!Fail  BY <1>12, FcFailAges
<1>13. CASE UNCHANGED Fc!vars
  <2>1. FcTimeInv' /\ FcAgeInv' /\ FcResultInv'
    BY <1>13 DEF Fc!vars, FcStaleInv, FcTimeInv, FcAgeInv, FcResultInv, FcHeld
  <2> QED  BY <2>1 DEF FcStaleInv
<1> QED
  BY <1>1, <1>2, <1>3, <1>4, <1>5, <1>6, <1>7, <1>8, <1>9, <1>10, <1>11, <1>12, <1>13
  DEF Fc!Next

LEMMA FcStaleEnough == ASSUME FcClock, FcStaleInv PROVE Fc!StalenessBound
BY DEF FcStaleInv, FcResultInv, FcHeld, FcWindow, Fc!StalenessBound, Fc!FreshWithin

(* The file cache, for any files of any size: see FileCache's own words. *)
LEMMA FcStaleness == ASSUME FcClock PROVE Fc!Spec => []Fc!StalenessBound
<1>1. Fc!Init => FcIInv /\ FcStaleInv  BY FcInvInit, FcStaleInit DEF FcClock
<1>2. FcIInv /\ FcStaleInv /\ [Fc!Next]_Fc!vars => FcIInv' /\ FcStaleInv'
  BY FcInvStep, FcStaleStep DEF FcClock
<1>3. FcStaleInv => Fc!StalenessBound  BY FcStaleEnough
<1> QED  BY <1>1, <1>2, <1>3, PTL DEF Fc!Spec

-----------------------------------------------------------------------------
(* A client reads its own writes.                                          *)

(* Chunk i of file f held w after the last write of the client returned,   *)
(* or has not held it yet.                                                 *)
FcUngone(f, i, w) == <<f, i, w>> \notin gone

(* Write numbers are used once: what is gone does not come back. *)
FcNumberInv ==
    /\ writes \in Nat
    /\ \A f \in Files, i \in Fc!Chunk : file[f][i] <= writes /\ FcUngone(f, i, file[f][i])
    /\ \A e \in ended : e[3] \in Nat /\ e[3] <= writes
    /\ \A g \in gone : g[3] \in Nat /\ g[3] <= writes
    /\ pc = "write" => wr[2] \in Nat /\ wr[2] <= writes /\ \A g \in gone : g[3] # wr[2]

(* Neither the cache, nor the fetch under way, nor a reply to it shows     *)
(* what is gone.                                                           *)
FcShownInv ==
    /\ dvalid => \A i \in Fc!Chunk : FcUngone(fh, i, data[i])
    /\ avalid => \A i \in Fc!Chunk : i > attr.size => FcUngone(fh, i, 0)
    /\ pc = "attr" => \A a \in replies, i \in Fc!Chunk : i > a.size => FcUngone(fh, i, 0)
    /\ pc = "data" =>
           /\ \A j \in 1..Len(got) : FcUngone(fh, j, got[j])
           /\ \A c \in replies :
                  /\ FcUngone(fh, Len(got) + 1, c)
                  /\ c = 0 => \A i \in Fc!Chunk : i > Len(got) => FcUngone(fh, i, 0)

FcOwnInv == FcNumberInv /\ FcShownInv

(* Nothing was written or acknowledged, and no number taken. *)
FcUntouched == UNCHANGED <<file, ended, gone, writes>>

LEMMA FcNumberStays ==
    ASSUME FcIInv, FcNumberInv, FcUntouched, pc' = "write" => pc = "write" /\ UNCHANGED wr
    PROVE  FcNumberInv'
BY DEF FcNumberInv, FcUntouched, FcUngone

(* A write puts a number into a file that is not gone. *)
LEMMA FcWriteUngone ==
    ASSUME FcSizes, FcIInv, FcOwnInv, NEW f \in Files, NEW j \in Fc!Chunk, NEW w \in Nat,
           Fc!DoWrite(f, j, w), w <= writes', writes' \in {writes, writes + 1},
           \A g \in gone : g[3] # w, pc = "write" \/ UNCHANGED replies,
           UNCHANGED <<gone, pc, wr, got, fh, avalid, attr, dvalid, data>>
    PROVE  FcOwnInv'
<1>1. FcTypeInv /\ FcNumberInv /\ FcShownInv  BY DEF FcIInv, FcOwnInv
<1>2. /\ file' = [file EXCEPT ![f][j] = w] /\ file \in [Files -> [Fc!Chunk -> Nat]]
      /\ ended' \subseteq ended \cup {<<f, j, file[f][j], now>>}
      /\ writes \in Nat /\ writes' \in Nat /\ writes <= writes'
  BY <1>1 DEF Fc!DoWrite, FcTypeInv, FcNumberInv
<1>3. ASSUME NEW g \in Files, NEW i \in Fc!Chunk
      PROVE  file'[g][i] <= writes' /\ FcUngone(g, i, file'[g][i])
  <2>1. file'[g][i] = IF g = f /\ i = j THEN w ELSE file[g][i]  BY <1>2
  <2>2. file[g][i] \in Nat /\ file[g][i] <= writes /\ FcUngone(g, i, file[g][i])
    BY <1>1, <1>2 DEF FcNumberInv
  <2>3. FcUngone(g, i, w)
    <3>1. <<g, i, w>>[3] = w  OBVIOUS
    <3> QED  BY <3>1 DEF FcUngone
  <2> QED  BY <1>2, <2>1, <2>2, <2>3
<1>4. \A e \in ended' : e[3] \in Nat /\ e[3] <= writes'
  <2>1. file[f][j] \in Nat /\ file[f][j] <= writes  BY <1>1, <1>2 DEF FcNumberInv
  <2>2. <<f, j, file[f][j], now>>[3] = file[f][j]  OBVIOUS
  <2>3. \A e \in ended : e[3] \in Nat /\ e[3] <= writes  BY <1>1 DEF FcNumberInv
  <2> QED  BY <1>2, <2>1, <2>2, <2>3
<1>5. FcNumberInv'
  BY <1>1, <1>2, <1>3, <1>4 DEF FcNumberInv, FcUngone
<1>6. FcShownInv'  BY <1>1 DEF FcShownInv, FcUngone
<1> QED  BY <1>5, <1>6 DEF FcOwnInv

(* The server answers with what is in the file. *)
LEMMA FcGetattrShows == ASSUME FcSizes, FcIInv, FcOwnInv, Fc!DoGetattr PROVE FcOwnInv'
<1>1. /\ pc = "attr" /\ replies' = replies \cup {Fc!Attr(fh)} /\ FcUntouched
      /\ UNCHANGED <<pc, wr, fh, got, avalid, attr, dvalid, data>>
  BY DEF Fc!DoGetattr, Fc!Run, FcUntouched
<1>2. fh \in Files /\ file[fh] \in [Fc!Chunk -> Nat]  BY DEF FcIInv, FcTypeInv
<1>3. \A i \in Fc!Chunk : i > Fc!Attr(fh).size => FcUngone(fh, i, 0)
  <2>1. \A i \in Fc!Chunk : i > Fc!Attr(fh).size => file[fh][i] = 0
    BY <1>2 DEF FcIInv, FcFileInv, Fc!Attr, Fc!Chunk
  <2>2. \A i \in Fc!Chunk : FcUngone(fh, i, file[fh][i])
    BY <1>2 DEF FcOwnInv, FcNumberInv
  <2> QED  BY <2>1, <2>2
<1>4. FcShownInv'
  BY <1>1, <1>3 DEF FcOwnInv, FcShownInv, FcUngone, FcUntouched
<1> QED  BY <1>1, <1>4, FcNumberStays DEF FcOwnInv

LEMMA FcReadShows == ASSUME FcSizes, FcIInv, FcOwnInv, Fc!DoRead PROVE FcOwnInv'
<1>1. /\ pc = "data" /\ replies' = replies \cup {file[fh][Len(got) + 1]} /\ FcUntouched
      /\ UNCHANGED <<pc, wr, fh, got, avalid, attr, dvalid, data>>
  BY DEF Fc!DoRead, Fc!Run, FcUntouched
<1>2. fh \in Files /\ file[fh] \in [Fc!Chunk -> Nat] /\ Len(got) \in Nat
      /\ attr.size \in 0..Chunks /\ Chunks \in Nat
  BY DEF FcIInv, FcTypeInv, FcAttrs, FcSizes
<1>3. Len(got) + 1 \in Fc!Chunk  BY <1>1, <1>2 DEF FcIInv, FcCallInv, Fc!Chunk
<1>4. file[fh][Len(got) + 1] = 0 => \A i \in Fc!Chunk : i > Len(got) => file[fh][i] = 0
  BY <1>2, <1>3 DEF FcIInv, FcFileInv, Fc!Chunk
<1>5. \A i \in Fc!Chunk : FcUngone(fh, i, file[fh][i])
  BY <1>2 DEF FcOwnInv, FcNumberInv
<1>6. FcShownInv'
  BY <1>1, <1>3, <1>4, <1>5 DEF FcOwnInv, FcShownInv, FcUngone, FcUntouched
<1> QED  BY <1>1, <1>6, FcNumberStays DEF FcOwnInv

(* What a fetch that is over leaves in the cache: c, and nothing beyond. *)
LEMMA FcFetchedShows ==
    ASSUME FcSizes, NEW c \in Seq(Nat), Fc!Fetched(c), fh' = fh, gone' = gone,
           \A j \in 1..Len(c) : FcUngone(fh, j, c[j]),
           \A i \in Fc!Chunk : i > Len(c) => FcUngone(fh, i, 0)
    PROVE  pc' = "idle" /\ (\A i \in Fc!Chunk : FcUngone(fh, i, data'[i])) /\ Fc!Serve(data')
<1>1. /\ pc' = "idle" /\ Fc!Serve(data')
      /\ data' = [i \in Fc!Chunk |-> IF i <= Len(c) THEN c[i] ELSE 0]
  BY DEF Fc!Fetched, Fc!Finish, Fc!Serve
<1>2. ASSUME NEW i \in Fc!Chunk PROVE FcUngone(fh, i, data'[i])
  <2>1. i \in 1..Chunks /\ Len(c) \in Nat /\ Chunks \in Nat  BY DEF Fc!Chunk, FcSizes
  <2>2. CASE i <= Len(c)
    <3>1. data'[i] = c[i] /\ i \in 1..Len(c)  BY <1>1, <2>1, <2>2
    <3> QED  BY <3>1
  <2>3. CASE ~(i <= Len(c))
    <3>1. data'[i] = 0 /\ i > Len(c)  BY <1>1, <2>1, <2>3
    <3> QED  BY <3>1
  <2> QED  BY <2>2, <2>3
<1> QED  BY <1>1, <1>2

(* A read that is served shows nothing that is gone. *)
FcReadGood ==
    result' # result => \A i \in Fc!Chunk : <<result'.file, i, result'.data[i]>> \notin gone

LEMMA FcServeGood ==
    ASSUME NEW d, Fc!Serve(d), \A i \in Fc!Chunk : FcUngone(fh, i, d[i])
    PROVE  FcReadGood
BY DEF Fc!Serve, FcReadGood, FcUngone

LEMMA FcTakeAttrShows ==
    ASSUME FcSizes, FcIInv, FcOwnInv, NEW a \in replies, Fc!TakeAttr(a)
    PROVE  FcOwnInv' /\ FcReadGood
<1>1. pc = "attr" /\ attr' = a /\ avalid' = TRUE /\ FcUntouched /\ UNCHANGED fh
  BY DEF Fc!TakeAttr, FcUntouched
<1>2. FcShownInv /\ gone' = gone /\ FcIInv  BY <1>1 DEF FcOwnInv, FcUntouched
<1>3. \A i \in Fc!Chunk : i > a.size => FcUngone(fh, i, 0)  BY <1>1, <1>2 DEF FcShownInv
<1>4. ASSUME pc' # "write", FcShownInv' PROVE FcOwnInv'
  BY <1>1, <1>4, FcNumberStays DEF FcOwnInv
<1>5. CASE dvalid /\ Fc!Finish /\ Fc!Serve(data) /\ UNCHANGED <<dvalid, data, got>>
  <2>1. \A i \in Fc!Chunk : FcUngone(fh, i, data[i])  BY <1>2, <1>5 DEF FcShownInv
  <2>2. pc' = "idle"  BY <1>5 DEF Fc!Finish
  <2>3. FcShownInv'  BY <1>1, <1>2, <1>3, <1>5, <2>1, <2>2 DEF FcShownInv, FcUngone
  <2> QED  BY <1>4, <1>5, <2>1, <2>2, <2>3, FcServeGood
<1>6. CASE a.size = 0 /\ Fc!Fetched(<<>>)
  <2> DEFINE c == <<>>
  <2>1. c \in Seq(Nat) /\ Len(c) = 0 /\ Fc!Fetched(c)  BY <1>6
  <2> HIDE DEF c
  <2>2. \A i \in Fc!Chunk : i > Len(c) => FcUngone(fh, i, 0)  BY <1>3, <1>6, <2>1
  <2>3. \A j \in 1..Len(c) : FcUngone(fh, j, c[j])  BY <2>1
  <2>4. pc' = "idle" /\ (\A i \in Fc!Chunk : FcUngone(fh, i, data'[i])) /\ Fc!Serve(data')
    BY <1>1, <1>2, <2>1, <2>2, <2>3, FcFetchedShows
  <2>5. FcShownInv'  BY <1>1, <1>2, <1>3, <2>4 DEF FcShownInv, FcUngone
  <2> QED  BY <1>4, <2>4, <2>5, FcServeGood
<1>7. CASE /\ dvalid' = FALSE /\ Fc!Begin("data", Fc!NoWrite) /\ got' = <<>>
           /\ UNCHANGED result
  <2>1. pc' = "data" /\ replies' = {} /\ Len(got') = 0  BY <1>7 DEF Fc!Begin
  <2>2. 1..Len(got') = {}  BY <2>1
  <2>3. FcShownInv'  BY <1>1, <1>2, <1>3, <1>7, <2>1, <2>2 DEF FcShownInv, FcUngone
  <2> QED  BY <1>4, <1>7, <2>1, <2>3 DEF FcReadGood
<1> QED  BY <1>5, <1>6, <1>7 DEF Fc!TakeAttr

LEMMA FcTakeDataShows ==
    ASSUME FcSizes, FcIInv, FcOwnInv, NEW c \in replies, Fc!TakeData(c)
    PROVE  FcOwnInv' /\ FcReadGood
<1> DEFINE have == IF c = 0 THEN got ELSE Append(got, c)
<1>1. pc = "data" /\ FcUntouched /\ UNCHANGED <<fh, avalid, attr>>
  BY DEF Fc!TakeData, FcUntouched
<1>2. FcShownInv /\ gone' = gone /\ FcIInv  BY <1>1 DEF FcOwnInv, FcUntouched
<1>3. /\ avalid = TRUE /\ got \in Seq(Nat) /\ Len(got) \in Nat /\ c \in Nat
      /\ attr.size \in 0..Chunks /\ Chunks \in Nat
  BY <1>1 DEF FcIInv, FcTypeInv, FcCallInv, FcAttrs, FcSizes
<1>4. have \in Seq(Nat) /\ Len(have) = IF c = 0 THEN Len(got) ELSE Len(got) + 1
  BY <1>3
<1>5. /\ FcUngone(fh, Len(got) + 1, c)
      /\ c = 0 => \A i \in Fc!Chunk : i > Len(got) => FcUngone(fh, i, 0)
      /\ \A j \in 1..Len(got) : FcUngone(fh, j, got[j])
      /\ \A i \in Fc!Chunk : i > attr.size => FcUngone(fh, i, 0)
  BY <1>1, <1>2, <1>3 DEF FcShownInv
<1>6. \A j \in 1..Len(have) : FcUngone(fh, j, have[j])
  <2>1. CASE c = 0  BY <1>5, <2>1
  <2>2. CASE c # 0
    <3> SUFFICES ASSUME NEW j \in 1..Len(have) PROVE FcUngone(fh, j, have[j])
      OBVIOUS
    <3>1. have = Append(got, c) /\ j \in 1..(Len(got) + 1)  BY <1>4, <2>2
    <3>2. have[j] = IF j = Len(got) + 1 THEN c ELSE got[j]  BY <1>3, <3>1
    <3>3. j # Len(got) + 1 => j \in 1..Len(got)  BY <1>3, <3>1
    <3> QED  BY <1>5, <3>2, <3>3
  <2> QED  BY <2>1, <2>2
<1> HIDE DEF have
<1>7. ASSUME pc' # "write", FcShownInv' PROVE FcOwnInv'
  BY <1>1, <1>7, FcNumberStays DEF FcOwnInv
<1>8. CASE (c = 0 \/ Len(have) >= attr.size) /\ Fc!Fetched(have)
  <2>1. \A i \in Fc!Chunk : i > Len(have) => FcUngone(fh, i, 0)
    <3>1. CASE c = 0  BY <1>4, <1>5, <3>1
    <3>2. CASE Len(have) >= attr.size
      <4>1. \A i \in Fc!Chunk : i > Len(have) => i > attr.size
        BY <1>3, <1>4, <3>2 DEF Fc!Chunk
      <4> QED  BY <1>5, <4>1
    <3> QED  BY <1>8, <3>1, <3>2
  <2>2. pc' = "idle" /\ (\A i \in Fc!Chunk : FcUngone(fh, i, data'[i])) /\ Fc!Serve(data')
    BY <1>1, <1>2, <1>4, <1>6, <1>8, <2>1, FcFetchedShows
  <2>3. FcShownInv'  BY <1>1, <1>2, <1>5, <2>2 DEF FcShownInv, FcUngone
  <2> QED  BY <1>7, <2>2, <2>3, FcServeGood
<1>9. CASE /\ c # 0 /\ Fc!Begin("data", Fc!NoWrite) /\ got' = have
           /\ UNCHANGED <<dvalid, data, result>>
  <2>1. pc' = "data" /\ replies' = {}  BY <1>9 DEF Fc!Begin
  <2>2. FcShownInv'  BY <1>1, <1>2, <1>6, <1>9, <2>1 DEF FcShownInv, FcUngone
  <2> QED  BY <1>7, <1>9, <2>1, <2>2 DEF FcReadGood
<1> QED  BY <1>8, <1>9 DEF Fc!TakeData, have

(* The last write has returned: what it replaced is gone, and so is the    *)
(* cache.                                                                  *)
LEMMA FcTakeWriteShows == ASSUME FcSizes, FcIInv, FcOwnInv, Fc!TakeWrite PROVE FcOwnInv'
<1>1. /\ pc' = "idle" /\ avalid' = FALSE /\ dvalid' = FALSE /\ UNCHANGED <<file, ended, writes>>
      /\ gone' = {<<e[1], e[2], e[3]>> : e \in ended}
                     \ {<<f, i, file[f][i]>> : f \in Files, i \in Fc!Chunk}
  BY DEF Fc!TakeWrite, Fc!Drop, Fc!Finish
<1>2. FcShownInv'  BY <1>1 DEF FcShownInv
<1>3. \A f \in Files, i \in Fc!Chunk : <<f, i, file[f][i]>> \notin gone'
  BY <1>1
<1>4. ASSUME NEW g \in gone' PROVE g[3] \in Nat /\ g[3] <= writes
  <2>1. PICK e \in ended : g = <<e[1], e[2], e[3]>>  BY <1>1, <1>4
  <2>2. g[3] = e[3]  BY <2>1
  <2> QED  BY <2>2 DEF FcOwnInv, FcNumberInv
<1>5. FcNumberInv'
  BY <1>1, <1>3, <1>4 DEF FcOwnInv, FcNumberInv, FcUngone
<1> QED  BY <1>2, <1>5 DEF FcOwnInv

LEMMA FcOwnInit == ASSUME FcSizes, Fc!Init PROVE FcOwnInv
<1>1. FcNumberInv  BY DEF Fc!Init, FcNumberInv, FcUngone, Fc!Blank
<1>2. FcShownInv  BY DEF Fc!Init, FcShownInv
<1> QED  BY <1>1, <1>2 DEF FcOwnInv

LEMMA FcOwnStep ==
    ASSUME FcSizes, FcIInv, FcOwnInv, [Fc!Next]_Fc!vars
    PROVE  FcOwnInv' /\ FcReadGood
<1> USE DEF FcUntouched
<1>1. CASE UNCHANGED Fc!vars \/ Fc!Tick \/ Fc!Restart
  <2>1. FcUntouched /\ UNCHANGED <<pc, wr, result>>
    BY <1>1 DEF Fc!vars, Fc!Tick, Fc!Restart
  <2>2. FcShownInv'
    BY <1>1 DEF Fc!vars, Fc!Tick, Fc!Restart, FcOwnInv, FcShownInv, FcUngone
  <2> QED  BY <2>1, <2>2, FcNumberStays DEF FcOwnInv, FcReadGood
<1>2. ASSUME NEW f \in Files, NEW i \in Fc!Chunk, Fc!RemoteWrite(f, i)
      PROVE  FcOwnInv' /\ FcReadGood
  <2>1. writes \in Nat /\ \A g \in gone : g[3] \in Nat /\ g[3] <= writes
    BY DEF FcOwnInv, FcNumberInv
  <2>2. \A g \in gone : g[3] # writes + 1  BY <2>1
  <2>3. /\ Fc!DoWrite(f, i, writes + 1) /\ writes' = writes + 1
        /\ UNCHANGED <<gone, pc, wr, got, fh, avalid, attr, dvalid, data, replies, result>>
    BY <1>2 DEF Fc!RemoteWrite
  <2>4. writes + 1 \in Nat /\ writes + 1 <= writes' /\ writes' \in {writes, writes + 1}
    BY <2>1, <2>3
  <2>5. FcOwnInv'  BY <2>2, <2>3, <2>4, FcWriteUngone
  <2> QED  BY <2>3, <2>5 DEF FcReadGood
<1>3. CASE Fc!DoGetattr
  BY <1>3, FcGetattrShows DEF Fc!DoGetattr, Fc!Run, FcReadGood
<1>4. CASE Fc!DoRead
  BY <1>4, FcReadShows DEF Fc!DoRead, Fc!Run, FcReadGood
<1>5. CASE Fc!DoOwnWrite
  <2>1. /\ pc = "write" /\ Fc!DoWrite(fh, wr[1], wr[2])
        /\ UNCHANGED <<gone, writes, pc, wr, got, fh, avalid, attr, dvalid, data, result>>
    BY <1>5 DEF Fc!DoOwnWrite, Fc!Run
  <2>2. fh \in Files /\ wr[1] \in Fc!Chunk  BY <2>1 DEF FcIInv, FcTypeInv, FcCallInv
  <2>3. wr[2] \in Nat /\ wr[2] <= writes' /\ (\A g \in gone : g[3] # wr[2])
    BY <2>1 DEF FcOwnInv, FcNumberInv
  <2>4. writes' \in {writes, writes + 1}  BY <2>1
  <2>5. FcOwnInv'  BY <2>1, <2>2, <2>3, <2>4, FcWriteUngone
  <2> QED  BY <2>1, <2>5 DEF FcReadGood
<1>6. ASSUME NEW f \in Files, Fc!Open(f) PROVE FcOwnInv' /\ FcReadGood
  <2>1. /\ FcUntouched /\ pc' = "idle" /\ avalid' = FALSE /\ dvalid' = FALSE
        /\ UNCHANGED result
    BY <1>6 DEF Fc!Open, Fc!Drop
  <2>2. FcShownInv'  BY <2>1 DEF FcShownInv
  <2> QED  BY <2>1, <2>2, FcNumberStays DEF FcOwnInv, FcReadGood
<1>7. CASE Fc!ReadHit
  <2>1. /\ dvalid /\ Fc!Serve(data) /\ FcUntouched
        /\ UNCHANGED <<pc, wr, got, replies, fh, avalid, attr, dvalid, data>>
    BY <1>7 DEF Fc!ReadHit
  <2>2. FcShownInv'  BY <2>1 DEF FcOwnInv, FcShownInv, FcUngone
  <2>3. FcReadGood  BY <2>1, FcServeGood DEF FcOwnInv, FcShownInv
  <2> QED  BY <2>1, <2>2, <2>3, FcNumberStays DEF FcOwnInv
<1>8. CASE Fc!StartRevalidate \/ Fc!StartFetch
  <2>1. /\ FcUntouched /\ replies' = {} /\ pc' \in {"attr", "data"} /\ (pc' = "data" => got' = <<>>)
        /\ UNCHANGED <<fh, avalid, attr, dvalid, data, result>>
    BY <1>8 DEF Fc!StartRevalidate, Fc!StartFetch, Fc!Begin
  <2>2. pc' = "data" => 1..Len(got') = {}  BY <2>1
  <2>3. FcShownInv'  BY <2>1, <2>2 DEF FcOwnInv, FcShownInv, FcUngone
  <2> QED  BY <2>1, <2>3, FcNumberStays DEF FcOwnInv, FcReadGood
<1>9. ASSUME NEW i \in Fc!Chunk, Fc!StartWrite(i) PROVE FcOwnInv' /\ FcReadGood
  <2>1. /\ writes' = writes + 1 /\ wr' = <<i, writes + 1>> /\ pc' = "write"
        /\ UNCHANGED <<file, ended, gone, fh, avalid, attr, dvalid, data, result>>
    BY <1>9 DEF Fc!StartWrite, Fc!Begin
  <2>2. wr'[2] = writes + 1  BY <2>1
  <2>3. FcNumberInv'
    <3>1. FcTypeInv /\ FcNumberInv  BY DEF FcIInv, FcOwnInv
    <3>2. writes \in Nat /\ \A f \in Files, j \in Fc!Chunk : file[f][j] \in Nat
      BY <3>1 DEF FcTypeInv
    <3> QED  BY <2>1, <2>2, <3>1, <3>2 DEF FcNumberInv, FcUngone
  <2>4. FcShownInv'  BY <2>1 DEF FcOwnInv, FcShownInv, FcUngone
  <2> QED  BY <2>1, <2>3, <2>4 DEF FcOwnInv, FcReadGood
<1>10. ASSUME NEW r \in replies, Fc!TakeAttr(r) \/ Fc!TakeData(r)
       PROVE  FcOwnInv' /\ FcReadGood
  BY <1>10, FcTakeAttrShows, FcTakeDataShows
<1>11. CASE Fc!TakeWrite
  BY <1>11, FcTakeWriteShows DEF Fc!TakeWrite, FcReadGood
<1>12. CASE Fc!Fail
  <2>1. /\ FcUntouched /\ pc' = "idle" /\ UNCHANGED <<fh, avalid, attr, dvalid, data, result>>
    BY <1>12 DEF Fc!Fail, Fc!Finish
  <2>2. FcShownInv'  BY <2>1 DEF FcOwnInv, FcShownInv, FcUngone
  <2> QED  BY <2>1, <2>2, FcNumberStays DEF FcOwnInv, FcReadGood
<1> QED
  BY <1>1, <1>2, <1>3, <1>4, <1>5, <1>6, <1>7, <1>8, <1>9, <1>10, <1>11, <1>12
  DEF Fc!Next

(* The file cache, for any files of any size: see FileCache's own words. *)
LEMMA FcOwnWrites == ASSUME FcSizes PROVE Fc!Spec => Fc!OwnWritesSeen
<1>1. Fc!Init => FcIInv /\ FcOwnInv  BY FcInvInit, FcOwnInit
<1>2. FcIInv /\ FcOwnInv /\ [Fc!Next]_Fc!vars => FcIInv' /\ FcOwnInv'
  BY FcInvStep, FcOwnStep
<1>3. FcIInv /\ FcOwnInv /\ [Fc!Next]_Fc!vars =>
          [result' # result =>
             \A i \in Fc!Chunk : <<result'.file, i, result'.data[i]>> \notin gone]_Fc!vars
  BY FcOwnStep DEF FcReadGood
<1> QED  BY <1>1, <1>2, <1>3, PTL DEF Fc!Spec, Fc!OwnWritesSeen

-----------------------------------------------------------------------------
(* What the constants must be: 0 stands for no process and no block. *)
BcSizes == IsFiniteSet(BufProcs) /\ 0 \notin BufProcs /\ 0 \notin Blocks /\ NBUF \in Nat

BcPlaces == {"idle", "lock", "asleep", "locked", "has", "dirty", "unpin", "done", "released"}
BcUsers(b) == {p \in BufProcs : bufPc[p] # "idle" /\ buf[p] = b}
BcReads(p) == bufPc[p] \in {"has", "dirty", "unpin", "done"}

BcTypeInv ==
    /\ blockno \in [Bc!Bufs -> Blocks \cup {0}]
    /\ bufValid \in [Bc!Bufs -> BOOLEAN] /\ bufData \in [Bc!Bufs -> Vals]
    /\ refcnt \in [Bc!Bufs -> Nat] /\ locked \in [Bc!Bufs -> BufProcs \cup {0}]
    /\ disk \in [Blocks -> Vals] /\ latest \in [Blocks -> Vals]
    /\ pinned \subseteq Bc!Bufs
    /\ bufPc \in [BufProcs -> BcPlaces]
    /\ want \in [BufProcs -> Blocks \cup {0}] /\ buf \in [BufProcs -> Bc!Bufs \cup {0}]

(* A reference for each process on its way with b, and one for the log. *)
BcRefInv ==
    \A b \in Bc!Bufs : refcnt[b] = Cardinality(BcUsers(b)) + (IF b \in pinned THEN 1 ELSE 0)

BcLockInv ==
    \A p \in BufProcs :
        /\ Bc!Holds(p) => locked[buf[p]] = p
        /\ bufPc[p] = "asleep" => locked[buf[p]] # 0

BcBlockInv ==
    /\ \A p \in BufProcs : bufPc[p] # "idle" =>
           buf[p] \in Bc!Bufs /\ want[p] \in Blocks /\ blockno[buf[p]] = want[p]
    /\ \A b, c \in Bc!Bufs : blockno[b] \in Blocks /\ blockno[b] = blockno[c] => b = c

(* Where the last contents of a block are. *)
BcDataInv ==
    /\ \A b \in Bc!Bufs : blockno[b] \in Blocks /\ bufValid[b] => bufData[b] = latest[blockno[b]]
    /\ \A k \in Blocks : (\A b \in Bc!Bufs : blockno[b] = k => ~bufValid[b]) => disk[k] = latest[k]

(* A buffer that differs from the disk is pinned, or about to be dealt     *)
(* with by the process that changed it.                                    *)
BcDirtyInv ==
    /\ \A p \in BufProcs : BcReads(p) => bufValid[buf[p]]
    /\ \A p \in BufProcs : bufPc[p] = "unpin" =>
           buf[p] \in pinned /\ disk[want[p]] = bufData[buf[p]]
    /\ \A b \in Bc!Bufs : blockno[b] \in Blocks /\ bufValid[b] /\ b \notin pinned =>
           \/ disk[blockno[b]] = bufData[b]
           \/ \E p \in BufProcs : bufPc[p] = "dirty" /\ buf[p] = b

BcIInv == BcTypeInv /\ BcRefInv /\ BcLockInv /\ BcBlockInv /\ BcDataInv /\ BcDirtyInv
-----------------------------------------------------------------------------
(* Counting references.                                                    *)

(* The users of a buffer can be counted. *)
LEMMA BcUsersCount ==
    ASSUME BcSizes, NEW b
    PROVE  IsFiniteSet(BcUsers(b)) /\ Cardinality(BcUsers(b)) \in Nat
  BY FS_Subset, FS_CardinalityType DEF BcSizes, BcUsers

(* An unused buffer has no users and is not pinned. *)
LEMMA BcUnusedFree ==
    ASSUME BcSizes, BcTypeInv, BcRefInv, NEW b \in Bc!Bufs, Bc!Unused(b)
    PROVE  BcUsers(b) = {} /\ b \notin pinned
  <1>1. Cardinality(BcUsers(b)) \in Nat
    BY BcUsersCount
  <1>2. refcnt[b] = 0
    BY DEF Bc!Unused
  <1>3. Cardinality(BcUsers(b)) = 0 /\ b \notin pinned
    BY <1>1, <1>2 DEF BcRefInv
  <1>. QED  BY <1>3, BcUsersCount, FS_EmptySet

(* Steps between bget and the end of brelse leave the users alone. *)
LEMMA BcUsersStay ==
    ASSUME BcTypeInv, NEW p \in BufProcs, bufPc[p] # "idle", NEW place \in BcPlaces \ {"idle"},
           Bc!Goto(p, place), buf' = buf
    PROVE  \A b : BcUsers(b)' = BcUsers(b)
  BY DEF BcUsers, Bc!Goto

(* Such a step that leaves the pins alone, too, keeps the count. *)
LEMMA BcCountStays ==
    ASSUME BcRefInv, \A b : BcUsers(b)' = BcUsers(b), refcnt' = refcnt, pinned' = pinned
    PROVE  BcRefInv'
  BY DEF BcRefInv

-----------------------------------------------------------------------------
(* The actions, one by one.                                                *)

(* The lock is taken, or the process sleeps because it is held. *)
LEMMA BcAcquireSleepKeeps ==
    ASSUME BcSizes, BcIInv, NEW p \in BufProcs, Bc!AcquireSleep(p)
    PROVE  BcIInv'
  <1>. USE DEF Bc!AcquireSleep, Bc!Goto, BcIInv
  <1>0. \A b : BcUsers(b)' = BcUsers(b)
    <2>1. Bc!Goto(p, "locked") \/ Bc!Goto(p, "asleep")
      OBVIOUS 
    <2>. QED  BY <2>1, BcUsersStay DEF BcPlaces
  <1>1. BcTypeInv'
    BY DEF BcTypeInv, BcPlaces
  <1>2. BcRefInv'
    BY <1>0, BcCountStays
  <1>3. BcLockInv'
    BY DEF BcTypeInv, BcLockInv, BcBlockInv, BcSizes, Bc!Holds
  <1>4. BcBlockInv'
    BY DEF BcTypeInv, BcBlockInv
  <1>5. BcDataInv'
    BY DEF BcDataInv
  <1>6. BcDirtyInv'
    BY DEF BcTypeInv, BcDirtyInv, BcReads
  <1>. QED  BY <1>1, <1>2, <1>3, <1>4, <1>5, <1>6

(* An invalid buffer takes what is on the disk, which is the latest. *)
LEMMA BcBreadKeeps ==
    ASSUME BcSizes, BcIInv, NEW p \in BufProcs, Bc!Bread(p)
    PROVE  BcIInv'
  <1>. USE DEF Bc!Bread, Bc!Goto, BcIInv
  <1>0. \A b : BcUsers(b)' = BcUsers(b)
    BY BcUsersStay DEF BcPlaces
  <1>1. BcTypeInv'
    <2>1. disk[blockno[buf[p]]] \in Vals /\ buf[p] \in Bc!Bufs
      BY DEF BcTypeInv, BcBlockInv
    <2>2. bufData' \in [Bc!Bufs -> Vals] /\ bufValid' \in [Bc!Bufs -> BOOLEAN]
      BY <2>1 DEF BcTypeInv
    <2>. QED  BY <2>2 DEF BcTypeInv, BcPlaces
  <1>2. BcRefInv'
    BY <1>0, BcCountStays
  <1>3. BcLockInv'
    BY DEF BcLockInv, Bc!Holds
  <1>4. BcBlockInv'
    BY DEF BcBlockInv
  <1>5. BcDataInv'
    BY DEF BcTypeInv, BcBlockInv, BcDataInv
  <1>6. BcDirtyInv'
    BY DEF BcTypeInv, BcBlockInv, BcDirtyInv, BcReads
  <1>. QED  BY <1>1, <1>2, <1>3, <1>4, <1>5, <1>6

(* A block that is not pinned is written through. *)
LEMMA BcBwriteKeeps ==
    ASSUME BcSizes, BcIInv, NEW p \in BufProcs, Bc!Bwrite(p)
    PROVE  BcIInv'
  <1>. USE DEF Bc!Bwrite, Bc!WriteOut, Bc!Goto, BcIInv
  <1>0. \A b : BcUsers(b)' = BcUsers(b)
    BY BcUsersStay DEF BcPlaces
  <1>1. BcTypeInv'
    BY DEF BcTypeInv, BcBlockInv, BcPlaces
  <1>2. BcRefInv'
    BY <1>0, BcCountStays
  <1>3. BcLockInv'
    BY DEF BcLockInv, Bc!Holds
  <1>4. BcBlockInv'
    BY DEF BcBlockInv
  <1>5. BcDataInv'
    BY DEF BcBlockInv, BcDataInv, BcDirtyInv, BcReads
  <1>6. BcDirtyInv'
    BY DEF BcTypeInv, BcBlockInv, BcDirtyInv, BcReads
  <1>. QED  BY <1>1, <1>2, <1>3, <1>4, <1>5, <1>6

(* A pinned block is written at its place. *)
LEMMA BcInstallKeeps ==
    ASSUME BcSizes, BcIInv, NEW p \in BufProcs, Bc!Install(p)
    PROVE  BcIInv'
  <1>. USE DEF Bc!Install, Bc!WriteOut, Bc!Goto, BcIInv
  <1>0. \A b : BcUsers(b)' = BcUsers(b)
    BY BcUsersStay DEF BcPlaces
  <1>1. BcTypeInv'
    BY DEF BcTypeInv, BcPlaces
  <1>2. BcRefInv'
    BY <1>0, BcCountStays
  <1>3. BcLockInv'
    BY DEF BcLockInv, Bc!Holds
  <1>4. BcBlockInv'
    BY DEF BcBlockInv
  <1>5. BcDataInv'
    BY DEF BcTypeInv, BcDataInv, BcDirtyInv, BcReads
  <1>6. BcDirtyInv'
    BY DEF BcTypeInv, BcBlockInv, BcDirtyInv, BcReads
  <1>. QED  BY <1>1, <1>2, <1>3, <1>4, <1>5, <1>6

(* The holder alone changes a block. *)
LEMMA BcModifyKeeps ==
    ASSUME BcSizes, BcIInv, NEW p \in BufProcs, NEW v \in Vals, Bc!Modify(p, v)
    PROVE  BcIInv'
  <1>. USE DEF Bc!Modify, Bc!Goto, BcIInv
  <1>0. \A b : BcUsers(b)' = BcUsers(b)
    BY BcUsersStay DEF BcPlaces
  <1>1. BcTypeInv'
    BY DEF BcTypeInv, BcPlaces
  <1>2. BcRefInv'
    BY <1>0, BcCountStays
  <1>3. BcLockInv'
    BY DEF BcLockInv, Bc!Holds
  <1>4. BcBlockInv'
    BY DEF BcBlockInv
  <1>5. BcDataInv'
    BY DEF BcTypeInv, BcBlockInv, BcDataInv, BcDirtyInv, BcReads
  <1>6. BcDirtyInv'
    BY DEF BcTypeInv, BcLockInv, BcDirtyInv, Bc!Holds, BcReads
  <1>. QED  BY <1>1, <1>2, <1>3, <1>4, <1>5, <1>6

(* The sleepers are woken with the release. *)
LEMMA BcReleaseSleepKeeps ==
    ASSUME BcSizes, BcIInv, NEW p \in BufProcs, Bc!ReleaseSleep(p)
    PROVE  BcIInv'
  <1>. USE DEF Bc!ReleaseSleep, BcIInv
  <1>0. \A b : BcUsers(b)' = BcUsers(b)
    BY DEF BcUsers
  <1>1. BcTypeInv'
    BY DEF BcTypeInv, BcPlaces
  <1>2. BcRefInv'
    BY <1>0, BcCountStays
  <1>3. BcLockInv'
    BY DEF BcLockInv, Bc!Holds
  <1>4. BcBlockInv'
    BY DEF BcBlockInv
  <1>5. BcDataInv'
    BY DEF BcDataInv
  <1>6. BcDirtyInv'
    BY DEF BcDirtyInv, BcReads
  <1>. QED  BY <1>1, <1>2, <1>3, <1>4, <1>5, <1>6

(* log_write pins what is not pinned. *)
LEMMA BcLogWriteKeeps ==
    ASSUME BcSizes, BcIInv, NEW p \in BufProcs, Bc!LogWrite(p)
    PROVE  BcIInv'
  <1>. USE DEF Bc!LogWrite, Bc!Goto, BcIInv
  <1>0. \A b : BcUsers(b)' = BcUsers(b)
    BY BcUsersStay DEF BcPlaces
  <1>1. BcTypeInv'
    BY DEF BcTypeInv, BcBlockInv, BcPlaces
  <1>2. BcRefInv'
    <2>1. CASE buf[p] \in pinned
      BY <1>0, <2>1, BcCountStays
    <2>2. CASE buf[p] \notin pinned
      BY <1>0, <2>2, BcUsersCount DEF BcRefInv, BcTypeInv
    <2>. QED  BY <2>1, <2>2
  <1>3. BcLockInv'
    BY DEF BcLockInv, Bc!Holds
  <1>4. BcBlockInv'
    BY DEF BcBlockInv
  <1>5. BcDataInv'
    BY DEF BcDataInv
  <1>6. BcDirtyInv'
    BY DEF BcDirtyInv, BcReads
  <1>. QED  BY <1>1, <1>2, <1>3, <1>4, <1>5, <1>6

(* bunpin gives up the reference of the log. *)
LEMMA BcBunpinKeeps ==
    ASSUME BcSizes, BcIInv, NEW p \in BufProcs, Bc!Bunpin(p)
    PROVE  BcIInv'
  <1>. USE DEF Bc!Bunpin, Bc!Goto, BcIInv
  <1>0. \A b : BcUsers(b)' = BcUsers(b)
    BY BcUsersStay DEF BcPlaces
  <1>a. buf[p] \in Bc!Bufs /\ buf[p] \in pinned
    BY DEF BcBlockInv, BcDirtyInv
  <1>b. Cardinality(BcUsers(buf[p])) \in Nat /\ refcnt[buf[p]] = Cardinality(BcUsers(buf[p])) + 1
    BY <1>a, BcUsersCount DEF BcRefInv
  <1>1. BcTypeInv'
    BY <1>a, <1>b DEF BcTypeInv, BcPlaces
  <1>2. BcRefInv'
    BY <1>0, <1>a, <1>b, BcUsersCount DEF BcRefInv, BcTypeInv
  <1>3. BcLockInv'
    BY <1>a, <1>b DEF BcLockInv, Bc!Holds
  <1>4. BcBlockInv'
    BY <1>a, <1>b DEF BcBlockInv
  <1>5. BcDataInv'
    BY <1>a, <1>b DEF BcDataInv
  <1>6. BcDirtyInv'
    BY <1>a, <1>b DEF BcTypeInv, BcLockInv, BcBlockInv, BcDirtyInv, Bc!Holds, BcReads
  <1>. QED  BY <1>1, <1>2, <1>3, <1>4, <1>5, <1>6

(* One more user of a buffer that is there. *)
LEMMA BcHitKeeps ==
    ASSUME BcSizes, BcIInv, NEW p \in BufProcs, NEW k \in Blocks, Bc!Hit(p, k)
    PROVE  BcIInv'
  <1>. USE DEF Bc!Gets, Bc!Goto, BcIInv
  <1>a. PICK b \in Bc!Bufs :
          /\ blockno[b] = k /\ Bc!Gets(p, k, b) /\ refcnt' = [refcnt EXCEPT ![b] = @ + 1]
          /\ UNCHANGED <<blockno, bufValid>>
    BY DEF Bc!Hit, Bc!Caching
  <1>b. p \notin BcUsers(b) /\ BcUsers(b)' = BcUsers(b) \cup {p}
    BY <1>a DEF BcUsers, BcTypeInv
  <1>c. \A c \in Bc!Bufs \ {b} : BcUsers(c)' = BcUsers(c)
    BY <1>a DEF BcUsers, BcTypeInv
  <1>d. Cardinality(BcUsers(b)') = Cardinality(BcUsers(b)) + 1
    BY <1>b, BcUsersCount, FS_AddElement
  <1>1. BcTypeInv'
    BY <1>a DEF BcTypeInv, BcPlaces
  <1>2. BcRefInv'
    BY <1>a, <1>c, <1>d, BcUsersCount DEF BcRefInv, BcTypeInv
  <1>3. BcLockInv'
    BY <1>a DEF BcLockInv, Bc!Holds
  <1>4. BcBlockInv'
    BY <1>a DEF BcTypeInv, BcBlockInv
  <1>5. BcDataInv'
    BY <1>a DEF BcDataInv
  <1>6. BcDirtyInv'
    BY <1>a DEF BcDirtyInv, BcReads
  <1>. QED  BY <1>1, <1>2, <1>3, <1>4, <1>5, <1>6

(* What is recycled differs from the disk in nothing. *)
LEMMA BcRecycleKeeps ==
    ASSUME BcSizes, BcIInv, NEW p \in BufProcs, NEW k \in Blocks, Bc!Recycle(p, k)
    PROVE  BcIInv'
  <1>. USE DEF Bc!Gets, Bc!Goto, BcIInv
  <1>a. PICK b \in Bc!Bufs :
          /\ Bc!Unused(b) /\ Bc!Gets(p, k, b)
          /\ blockno' = [blockno EXCEPT ![b] = k] /\ bufValid' = [bufValid EXCEPT ![b] = FALSE]
          /\ refcnt' = [refcnt EXCEPT ![b] = 1]
    BY DEF Bc!Recycle
  <1>b. \A c \in Bc!Bufs : blockno[c] # k
    BY DEF Bc!Recycle, Bc!Caching
  <1>c. BcUsers(b) = {} /\ b \notin pinned
    BY <1>a, BcUnusedFree
  <1>d. \A q \in BufProcs : bufPc[q] # "idle" => buf[q] # b
    BY <1>c DEF BcUsers
  <1>e. BcUsers(b)' = {p} /\ \A c \in Bc!Bufs \ {b} : BcUsers(c)' = BcUsers(c)
    BY <1>a, <1>c DEF BcUsers, BcTypeInv
  <1>f. Cardinality(BcUsers(b)') = 1
    BY <1>c, <1>e, FS_Singleton
  <1>g. blockno[b] \in Blocks => disk[blockno[b]] = latest[blockno[b]]
    <2>1. CASE bufValid[b]
      BY <1>c, <1>d, <2>1 DEF BcDataInv, BcDirtyInv
    <2>2. CASE ~bufValid[b]
      BY <2>2 DEF BcDataInv, BcBlockInv
    <2>. QED  BY <2>1, <2>2
  <1>1. BcTypeInv'
    BY <1>a, <1>b, <1>c, <1>d, <1>g DEF BcTypeInv, BcPlaces
  <1>2. BcRefInv'
    <2>. SUFFICES ASSUME NEW c \in Bc!Bufs
                  PROVE  (refcnt[c] = Cardinality(BcUsers(c)) + (IF c \in pinned THEN 1 ELSE 0))'
      BY DEF BcRefInv
    <2>1. CASE c = b
      BY <1>a, <1>c, <1>f, <2>1 DEF BcTypeInv
    <2>2. CASE c # b
      BY <1>a, <1>e, <2>2 DEF BcRefInv
    <2>. QED  BY <2>1, <2>2
  <1>3. BcLockInv'
    BY <1>a, <1>b, <1>c, <1>d, <1>g DEF BcLockInv, Bc!Holds
  <1>4. BcBlockInv'
    BY <1>a, <1>b, <1>c, <1>d, <1>g DEF BcTypeInv, BcBlockInv
  <1>5. BcDataInv'
    BY <1>a, <1>b, <1>c, <1>d, <1>g DEF BcTypeInv, BcDataInv
  <1>6. BcDirtyInv'
    BY <1>a, <1>b, <1>c, <1>d, <1>g DEF BcTypeInv, BcDirtyInv, BcReads
  <1>. QED  BY <1>1, <1>2, <1>3, <1>4, <1>5, <1>6

(* One user less. *)
LEMMA BcBrelseKeeps ==
    ASSUME BcSizes, BcIInv, NEW p \in BufProcs, Bc!Brelse(p)
    PROVE  BcIInv'
  <1>. USE DEF Bc!Goto, BcIInv
  <1>a. PICK b \in Bc!Bufs :
          /\ bufPc[p] = "released" /\ b = buf[p]
          /\ refcnt' = [refcnt EXCEPT ![b] = @ - 1]
          /\ want' = [want EXCEPT ![p] = 0] /\ buf' = [buf EXCEPT ![p] = 0]
          /\ Bc!Goto(p, "idle")
          /\ UNCHANGED <<blockno, bufValid, bufData, locked, disk, pinned, latest>>
    BY DEF Bc!Brelse, BcBlockInv
  <1>b. p \in BcUsers(b) /\ BcUsers(b)' = BcUsers(b) \ {p}
    BY <1>a DEF BcUsers, BcTypeInv
  <1>c. \A c \in Bc!Bufs \ {b} : BcUsers(c)' = BcUsers(c)
    BY <1>a DEF BcUsers, BcTypeInv
  <1>d. /\ Cardinality(BcUsers(b)) \in Nat /\ Cardinality(BcUsers(b)') = Cardinality(BcUsers(b)) - 1
        /\ Cardinality(BcUsers(b)') \in Nat
    BY <1>b, BcUsersCount, FS_RemoveElement, FS_CardinalityType
  <1>e. refcnt[b] - 1 \in Nat
    BY <1>d DEF BcRefInv
  <1>1. BcTypeInv'
    BY <1>a, <1>d, <1>e DEF BcTypeInv, BcPlaces
  <1>2. BcRefInv'
    <2>. SUFFICES ASSUME NEW c \in Bc!Bufs
                  PROVE  (refcnt[c] = Cardinality(BcUsers(c)) + (IF c \in pinned THEN 1 ELSE 0))'
      BY DEF BcRefInv
    <2>1. CASE c = b
      BY <1>a, <1>d, <2>1 DEF BcRefInv, BcTypeInv
    <2>2. CASE c # b
      BY <1>a, <1>c, <2>2 DEF BcRefInv
    <2>. QED  BY <2>1, <2>2
  <1>3. BcLockInv'
    BY <1>a, <1>d, <1>e DEF BcLockInv, Bc!Holds
  <1>4. BcBlockInv'
    BY <1>a, <1>d, <1>e DEF BcTypeInv, BcBlockInv
  <1>5. BcDataInv'
    BY <1>a, <1>d, <1>e DEF BcDataInv
  <1>6. BcDirtyInv'
    BY <1>a, <1>d, <1>e DEF BcDirtyInv, BcReads
  <1>. QED  BY <1>1, <1>2, <1>3, <1>4, <1>5, <1>6

-----------------------------------------------------------------------------
(* IInv is inductive, and says what is wanted. *)

(* At first nothing is cached, used or pinned. *)
LEMMA BcInvInit == BcSizes /\ Bc!Init => BcIInv
  <1>. SUFFICES ASSUME BcSizes, Bc!Init
                PROVE  BcIInv
    OBVIOUS
  <1>1. BcTypeInv
    <2>1. PICK v \in Vals : bufData = [b \in Bc!Bufs |-> v]
      BY DEF Bc!Init
    <2>. QED  BY <2>1 DEF Bc!Init, BcTypeInv, BcPlaces
  <1>2. BcRefInv
    <2>1. \A b : BcUsers(b) = {}
      BY DEF Bc!Init, BcUsers
    <2>. QED  BY <2>1, FS_EmptySet DEF Bc!Init, BcRefInv
  <1>3. BcLockInv /\ BcDataInv /\ BcDirtyInv
    BY DEF Bc!Init, BcLockInv, BcDataInv, BcDirtyInv, Bc!Holds, BcReads
  <1>4. BcBlockInv
    BY DEF Bc!Init, BcBlockInv, BcSizes
  <1>. QED  BY <1>1, <1>2, <1>3, <1>4 DEF BcIInv

(* Every step keeps it. *)
LEMMA BcInvStep == BcSizes /\ BcIInv /\ [Bc!Next]_Bc!vars => BcIInv'
  <1>. SUFFICES ASSUME BcSizes, BcIInv, [Bc!Next]_Bc!vars
                PROVE  BcIInv'
    OBVIOUS
  <1>1. CASE UNCHANGED Bc!vars
    BY <1>1 DEF Bc!vars, BcIInv, BcTypeInv, BcRefInv, BcLockInv, BcBlockInv, BcDataInv, BcDirtyInv, Bc!Holds,
                BcReads, BcUsers
  <1>2. ASSUME NEW p \in BufProcs, NEW k \in Blocks, Bc!Hit(p, k) \/ Bc!Recycle(p, k)
        PROVE  BcIInv'
    BY <1>2, BcHitKeeps, BcRecycleKeeps
  <1>3. ASSUME NEW p \in BufProcs, NEW v \in Vals, Bc!Modify(p, v)
        PROVE  BcIInv'
    BY <1>3, BcModifyKeeps
  <1>4. ASSUME NEW p \in BufProcs, Bc!Step(p)
        PROVE  BcIInv'
    <2>1. CASE Bc!AcquireSleep(p) \/ Bc!Bread(p)
      BY <2>1, BcAcquireSleepKeeps, BcBreadKeeps
    <2>2. CASE Bc!Bwrite(p) \/ Bc!LogWrite(p)
      BY <2>2, BcBwriteKeeps, BcLogWriteKeeps
    <2>3. CASE Bc!Install(p) \/ Bc!Bunpin(p)
      BY <2>3, BcInstallKeeps, BcBunpinKeeps
    <2>4. CASE Bc!ReleaseSleep(p) \/ Bc!Brelse(p)
      BY <2>4, BcReleaseSleepKeeps, BcBrelseKeeps
    <2>. QED  BY <1>4, <2>1, <2>2, <2>3, <2>4 DEF Bc!Step
  <1>. QED  BY <1>1, <1>2, <1>3, <1>4 DEF Bc!Next

(* Whoever holds a block holds the lock of its one buffer. *)
LEMMA BcInvEnough == BcSizes /\ BcIInv => Bc!BlocksPassedOn
  <1>. SUFFICES ASSUME BcSizes, BcIInv
                PROVE  Bc!BlocksPassedOn
    OBVIOUS
  <1>1. \A k \in Blocks : \A b, c \in Bc!Caching(k) : b = c
    BY DEF BcIInv, BcBlockInv, Bc!Caching
  <1>2. ASSUME NEW p \in BufProcs, NEW q \in BufProcs, Bc!Holds(p), Bc!Holds(q), p # q
        PROVE  want[p] # want[q]
    <2>1. locked[buf[p]] = p /\ locked[buf[q]] = q
      BY <1>2 DEF BcIInv, BcLockInv
    <2>2. bufPc[p] # "idle" /\ bufPc[q] # "idle"
      BY <1>2 DEF Bc!Holds
    <2>. QED  BY <1>2, <2>1, <2>2 DEF BcIInv, BcBlockInv
  <1>3. Bc!NotRecycled
    BY DEF BcIInv, BcBlockInv, Bc!NotRecycled
  <1>4. Bc!NothingLost
    <2>. SUFFICES ASSUME NEW k \in Blocks
                  PROVE  IF \E b \in Bc!Caching(k) : bufValid[b]
                         THEN \A b \in Bc!Caching(k) : bufData[b] = latest[k]
                         ELSE disk[k] = latest[k]
      BY DEF Bc!NothingLost
    <2>1. CASE \E b \in Bc!Caching(k) : bufValid[b]
      BY <1>1, <2>1 DEF BcIInv, BcDataInv, Bc!Caching
    <2>2. CASE ~\E b \in Bc!Caching(k) : bufValid[b]
      BY <2>2 DEF BcIInv, BcDataInv, Bc!Caching
    <2>. QED  BY <2>1, <2>2
  <1>5. Bc!WakeupDue
    BY DEF BcIInv, BcLockInv, Bc!WakeupDue
  <1>6. Bc!OneCopy
    BY <1>1, <1>2 DEF Bc!OneCopy
  <1>. QED  BY <1>3, <1>4, <1>5, <1>6 DEF Bc!BlocksPassedOn

(* Blocks are passed on whole, whoever recycles what, for any number of    *)
(* buffers, any blocks and any finite set of processes.                    *)
LEMMA BcPassedOn ==
    ASSUME BcSizes
    PROVE  Bc!Spec => []Bc!BlocksPassedOn
  <1>1. Bc!Init => BcIInv
    BY BcInvInit
  <1>2. BcIInv /\ [Bc!Next]_Bc!vars => BcIInv'
    BY BcInvStep
  <1>3. BcIInv => Bc!BlocksPassedOn
    BY BcInvEnough
  <1>. QED  BY <1>1, <1>2, <1>3, PTL DEF Bc!Spec

-----------------------------------------------------------------------------
(* The caches together.                                                    *)

(* A behaviour of the caches is one of each of them. *)
LEMMA CachesImplement == CachesSpec => Fc!Spec /\ Bc!Spec
  <1>1. Initially => Fc!Init /\ Bc!Init
    BY DEF Initially
  <1>2. [Step]_<<subject, vars, fileVars, bufferVars>> => [Fc!Next]_Fc!vars
    BY DEF Step, fileVars, bufferVars, Fc!vars
  <1>3. [Step]_<<subject, vars, fileVars, bufferVars>> => [Bc!Next]_Bc!vars
    BY DEF Step, fileVars, bufferVars, Bc!vars
  <1>. QED  BY <1>1, <1>2, <1>3, PTL DEF CachesSpec, Fc!Spec, Bc!Spec

(* fileclient.c, cached_read: a chunk that a read returns was in the file  *)
(* that is open less than ac_ms, and the calls of a fetch, ago, whatever   *)
(* other clients write meanwhile and whenever the server is restarted; for *)
(* any files, window and call length.                                      *)
THEOREM ReadsAreRecent == ASSUME FcClock PROVE CachesSpec => []StalenessBound
  BY CachesImplement, FcStaleness, PTL DEF StalenessBound

(* fileclient.c, cached_read: data kept because a getattr found the        *)
(* attributes unchanged is the data of the server.                         *)
THEOREM KeptDataIsCurrent == ASSUME FcSizes PROVE CachesSpec => []RevalidatedGood
  BY CachesImplement, FcRevalidated, PTL DEF RevalidatedGood

(* fileclient.c, the command write: once it has succeeded, the client no   *)
(* longer reads what it, or a write before it, replaced.                   *)
THEOREM OwnWritesAreSeen == ASSUME FcSizes PROVE CachesSpec => OwnWritesSeen
  BY CachesImplement, FcOwnWrites, PTL DEF OwnWritesSeen

(* bio.c: whoever gets a block from bread has it alone, as it was last     *)
(* written, for any finite set of processes, any blocks and any number of  *)
(* buffers.                                                                *)
THEOREM BlocksArePassedOn == ASSUME BcSizes PROVE CachesSpec => []BlocksPassedOn
  BY CachesImplement, BcPassedOn, PTL DEF BlocksPassedOn
=============================================================================

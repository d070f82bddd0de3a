--------------------------- MODULE CertStoreProofs ---------------------------
(***************************************************************************)
(* Proofs about the certificate store, for any number of callers,          *)
(* certificates, files and write(2) calls.                                 *)
(***************************************************************************)
EXTENDS CertStore, TLAPS

-----------------------------------------------------------------------------
\* A descriptor's offset is zero outside write_all and below its end inside.
OffsetOK ==
    \A w \in Writer :
        /\ wpc[w] \notin {"write", "sync"} => off[w] = 0
        /\ wpc[w] = "write" => off[w] < NumChunks /\ fd[w] \in Inode
        /\ wpc[w] = "sync" => fd[w] \in Inode
        /\ Busy(w) => wcert[w] \in Cert

\* A reader in the middle of a file has it open.
ReadingOK ==
    \A r \in Reader :
        /\ rpc[r] = "read" => rfd[r] \in Inode
        /\ rpc[r] = "open" => rcert[r] \in Cert

TypeInv == TypeOK /\ OffsetOK /\ ReadingOK

\* The initial state is well typed.
LEMMA TypeInit == Init => TypeInv
BY StoreAssumption DEF Init, TypeInv, TypeOK, OffsetOK, ReadingOK, Chunks, Busy

\* Every step of put, of get_bytes and of the file system keeps the types.
LEMMA TypeStep == TypeInv /\ [Next]_vars => TypeInv'
<1> SUFFICES ASSUME TypeInv, [Next]_vars PROVE TypeInv'
  OBVIOUS
<1> USE StoreAssumption
    DEF TypeInv, TypeOK, OffsetOK, ReadingOK, Chunks, Busy,
        dirVars, fileVars, writerVars, readerVars, history
<1>1. ASSUME NEW w \in Writer, NEW c \in Cert, PutCall(w, c) PROVE TypeInv'
  BY <1>1 DEF PutCall
<1>2. ASSUME NEW w \in Writer, PutCreate(w) PROVE TypeInv'
  BY <1>2 DEF PutCreate
<1>3. ASSUME NEW w \in Writer, PutWrite(w) PROVE TypeInv'
  <2>1. data' \in [Inode -> SUBSET Chunks]
    BY <1>3 DEF PutWrite
  <2>2. off' \in [Writer -> 0..NumChunks]
    BY <1>3 DEF PutWrite
  <2>3. ASSUME NEW v \in Writer
        PROVE  /\ wpc'[v] \notin {"write", "sync"} => off'[v] = 0
               /\ wpc'[v] = "write" => off'[v] < NumChunks /\ fd'[v] \in Inode
               /\ wpc'[v] = "sync" => fd'[v] \in Inode
               /\ Busy(v)' => wcert'[v] \in Cert
    <3>1. CASE v = w
      <4>1. off[w] \in Nat /\ off[w] < NumChunks /\ off'[w] = off[w] + 1
        BY <1>3 DEF PutWrite
      <4>2. wpc'[w] = (IF off[w] + 1 = NumChunks THEN "sync" ELSE "write")
        BY <1>3 DEF PutWrite
      <4>3. fd'[w] = fd[w] /\ wcert'[w] = wcert[w]
        BY <1>3 DEF PutWrite
      <4>4. wpc[w] = "write"
        BY <1>3 DEF PutWrite
      <4>5. QED
        BY <3>1, <4>1, <4>2, <4>3, <4>4
    <3>2. CASE v # w
      BY <1>3, <3>2 DEF PutWrite
    <3>3. QED
      BY <3>1, <3>2
  <2>4. QED
    BY <1>3, <2>1, <2>2, <2>3 DEF PutWrite
<1>4. ASSUME NEW w \in Writer, PutSync(w) PROVE TypeInv'
  BY <1>4 DEF PutSync
<1>5. ASSUME NEW w \in Writer, PutRename(w) PROVE TypeInv'
  BY <1>5 DEF PutRename
<1>6. ASSUME NEW w \in Writer, PutRenameGone(w) PROVE TypeInv'
  BY <1>6 DEF PutRenameGone
<1>7. ASSUME NEW w \in Writer, PutFail(w) \/ PutCrash(w) PROVE TypeInv'
  BY <1>7 DEF PutFail, PutCrash, PutStop
<1>8. ASSUME NEW r \in Reader, NEW c \in Cert, GetExists(r, c) PROVE TypeInv'
  <2>1. rpc' \in [Reader -> {"idle", "open", "read", "ok", "notfound", "mismatch", "io"}]
    BY <1>8 DEF GetExists
  <2>2. ReadingOK'
    BY <1>8 DEF GetExists
  <2>3. QED
    BY <1>8, <2>1, <2>2 DEF GetExists
<1>9. ASSUME NEW r \in Reader, ReaderStep(r) PROVE TypeInv'
  <2>1. CASE GetOpen(r)
    <3>1. rfd' \in [Reader -> Inode \cup {None}]
      BY <2>1 DEF GetOpen
    <3>2. rpc' \in [Reader -> {"idle", "open", "read", "ok", "notfound", "mismatch", "io"}]
      BY <2>1 DEF GetOpen
    <3>3. ReadingOK'
      BY <2>1, <3>1 DEF GetOpen
    <3>4. QED
      BY <2>1, <3>1, <3>2, <3>3 DEF GetOpen
  <2>2. CASE GetRead(r)
    <3>1. roff' \in [Reader -> 0..NumChunks]
      BY <2>2 DEF GetRead
    <3>2. got' \in [Reader -> SUBSET Chunks]
      BY <2>2 DEF GetRead
    <3>3. QED
      BY <2>2, <3>1, <3>2 DEF GetRead
  <2>3. CASE GetReturn(r)
    BY <2>3 DEF GetReturn
  <2>4. QED
    BY <1>9, <2>1, <2>2, <2>3 DEF ReaderStep
<1>10. ASSUME NEW r \in Reader, GetFail(r) PROVE TypeInv'
  BY <1>10 DEF GetFail
<1>11. ASSUME NEW c \in Cert, Writeback(c) PROVE TypeInv'
  BY <1>11 DEF Writeback
<1>12. CASE PowerLoss
  BY <1>12 DEF PowerLoss
<1>13. CASE UNCHANGED vars
  BY <1>13 DEF vars
<1>14. QED
  BY <1>1, <1>2, <1>3, <1>4, <1>5, <1>6, <1>7, <1>8, <1>9, <1>10, <1>11, <1>12, <1>13
     DEF Next, WriterStep

LEMMA TypeInvariant == Spec => []TypeInv
BY TypeInit, TypeStep, PTL DEF Spec

\* Init and every step keep each variable of the store in its type.
THEOREM TypeCorrect == Spec => []TypeOK
<1>1. TypeInv => TypeOK
  BY DEF TypeInv
<1>2. QED
  BY <1>1, TypeInvariant, PTL

-----------------------------------------------------------------------------
(***************************************************************************)
(* Writers of one certificate may overlap: what keeps a published file     *)
(* from staying incomplete.  Of the writers with the file open, the one    *)
(* that truncated it last still has every missing piece ahead of it.       *)
(***************************************************************************)

\* File i is whole, will be, or was left by a writer that stopped inside it.
Sound(i) ==
    \/ i \in torn
    \/ data[i] = Chunks
    \/ \E w \in Writer : Owes(w, i)

NamedIsSound ==
    \A c \in Cert, i \in Inode : tmp[c] = i \/ final[c] = i => Sound(i)

\* No step takes a file out of Sound.
LEMMA SoundStep ==
  ASSUME TypeInv, [Next]_vars, NEW i \in Inode, Sound(i)
  PROVE  Sound(i)'
<1> USE StoreAssumption
    DEF TypeInv, TypeOK, OffsetOK, Chunks, Busy, Sound, Owes,
        dirVars, fileVars, writerVars, readerVars, history
<1>1. ASSUME NEW w \in Writer, NEW c \in Cert, PutCall(w, c) PROVE Sound(i)'
  BY <1>1 DEF PutCall
<1>2. ASSUME NEW w \in Writer, PutCreate(w) PROVE Sound(i)'
  <2>1. PICK j \in Inode :
          /\ fd' = [fd EXCEPT ![w] = j]
          /\ data' = [data EXCEPT ![j] = {}]
          /\ torn' = torn \ {j}
    BY <1>2 DEF PutCreate
  <2>2. /\ wpc[w] = "create" /\ off[w] = 0 /\ off' = off
        /\ wpc' = [wpc EXCEPT ![w] = "write"]
    BY <1>2 DEF PutCreate
  <2>3. CASE i = j
    <3>1. wpc'[w] = "write" /\ fd'[w] = i /\ off'[w] = 0
      BY <2>1, <2>2, <2>3
    <3>2. Chunks \ data'[i] \subseteq (off'[w] + 1)..NumChunks
      BY <3>1
    <3>3. QED
      BY <3>1, <3>2
  <2>4. CASE i # j
    <3>1. data'[i] = data[i] /\ (i \in torn => i \in torn')
      BY <2>1, <2>4
    <3>2. ASSUME NEW v \in Writer, Owes(v, i) PROVE Owes(v, i)'
      BY <2>1, <2>2, <3>1, <3>2
    <3>3. QED
      BY <3>1, <3>2
  <2>5. QED
    BY <2>3, <2>4
<1>3. ASSUME NEW w \in Writer, PutWrite(w) PROVE Sound(i)'
  <2>1. /\ wpc[w] = "write" /\ fd[w] \in Inode /\ fd' = fd /\ torn' = torn
        /\ off[w] \in Nat /\ off[w] < NumChunks
        /\ off' = [off EXCEPT ![w] = off[w] + 1]
        /\ wpc' = [wpc EXCEPT ![w] = IF off[w] + 1 = NumChunks THEN "sync" ELSE "write"]
        /\ data' = [data EXCEPT ![fd[w]] = data[fd[w]] \cup {off[w] + 1}]
    BY <1>3 DEF PutWrite
  <2>2. data[i] \subseteq data'[i] /\ data'[i] \subseteq Chunks
    BY <2>1
  <2>3. CASE i \in torn \/ data[i] = Chunks
    BY <2>1, <2>2, <2>3
  <2>4. ASSUME NEW v \in Writer, Owes(v, i), v # w PROVE Owes(v, i)'
    BY <2>1, <2>2, <2>4
  <2>5. CASE Owes(w, i)
    <3>1. data'[i] = data[i] \cup {off[w] + 1} /\ fd[w] = i
      BY <2>1, <2>5
    <3>2. Chunks \ data'[i] \subseteq (off[w] + 2)..NumChunks
      BY <2>1, <2>5, <3>1
    <3>3. CASE off[w] + 1 = NumChunks
      <4>1. Chunks \ data'[i] = {}
        BY <2>1, <3>2, <3>3
      <4>2. QED
        BY <2>2, <4>1
    <3>4. CASE off[w] + 1 # NumChunks
      <4>1. wpc'[w] = "write" /\ off'[w] = off[w] + 1 /\ fd'[w] = i
        BY <2>1, <3>1, <3>4
      <4>2. QED
        BY <2>1, <3>2, <4>1
    <3>5. QED
      BY <3>3, <3>4
  <2>6. QED
    BY <2>3, <2>4, <2>5
<1>4. ASSUME NEW w \in Writer, PutSync(w) PROVE Sound(i)'
  BY <1>4 DEF PutSync
<1>5. ASSUME NEW w \in Writer, PutRename(w) \/ PutRenameGone(w) PROVE Sound(i)'
  BY <1>5 DEF PutRename, PutRenameGone
<1>6. ASSUME NEW w \in Writer, PutFail(w) \/ PutCrash(w) PROVE Sound(i)'
  <2>1. PICK outcome \in {"err", "idle"} : PutStop(w, outcome)
    BY <1>6 DEF PutFail, PutCrash
  <2>2. /\ torn' = IF wpc[w] = "write" THEN torn \cup {fd[w]} ELSE torn
        /\ data' = data
    BY <2>1 DEF PutStop
  <2>3. CASE i \in torn \/ data[i] = Chunks
    BY <2>2, <2>3
  <2>4. CASE Owes(w, i)
    BY <2>2, <2>4
  <2>5. ASSUME NEW v \in Writer, Owes(v, i), v # w PROVE Owes(v, i)'
    BY <2>1, <2>5 DEF PutStop
  <2>6. QED
    BY <2>3, <2>4, <2>5
<1>7. ASSUME NEW r \in Reader, NEW c \in Cert, GetExists(r, c) PROVE Sound(i)'
  BY <1>7 DEF GetExists
<1>8. ASSUME NEW r \in Reader, ReaderStep(r) \/ GetFail(r) PROVE Sound(i)'
  BY <1>8 DEF ReaderStep, GetOpen, GetRead, GetReturn, GetFail
<1>9. ASSUME NEW c \in Cert, Writeback(c) PROVE Sound(i)'
  BY <1>9 DEF Writeback
<1>10. CASE PowerLoss
  BY <1>10 DEF PowerLoss
<1>11. CASE UNCHANGED vars
  BY <1>11 DEF vars
<1>12. QED
  BY <1>1, <1>2, <1>3, <1>4, <1>5, <1>6, <1>7, <1>8, <1>9, <1>10, <1>11
     DEF Next, WriterStep

\* After a loss of power every file is whole or recorded as torn.
LEMMA PowerSound ==
  ASSUME TypeInv, PowerLoss, NEW i \in Inode
  PROVE  Sound(i)'
BY DEF PowerLoss, Sound

\* Names move to other files only by File::create, by rename and by a loss of
\* power, and each of them leaves the named file sound.
LEMMA NamedStep == TypeInv /\ NamedIsSound /\ [Next]_vars => NamedIsSound'
<1> SUFFICES ASSUME TypeInv, NamedIsSound, [Next]_vars, NEW c \in Cert, NEW i \in Inode,
                    tmp'[c] = i \/ final'[c] = i
             PROVE  Sound(i)'
  BY DEF NamedIsSound
<1> USE DEF dirVars, fileVars, writerVars, readerVars, history
<1>1. CASE tmp[c] = i \/ final[c] = i
  BY <1>1, SoundStep DEF NamedIsSound
<1>2. ASSUME NEW w \in Writer, PutCreate(w) PROVE Sound(i)'
  <2>1. PICK j \in Inode :
          /\ tmp' = [tmp EXCEPT ![wcert[w]] = j]
          /\ fd' = [fd EXCEPT ![w] = j]
          /\ data' = [data EXCEPT ![j] = {}]
    BY <1>2 DEF PutCreate
  <2>2. off'[w] = 0 /\ wpc'[w] = "write" /\ fd'[w] = j /\ data'[j] = {}
    BY <1>2, <2>1 DEF PutCreate, TypeInv, TypeOK, OffsetOK
  <2>3. Sound(j)'
    BY <2>2, StoreAssumption DEF Sound, Owes, Chunks
  <2>4. tmp'[c] = tmp[c] \/ tmp'[c] = j
    BY <2>1 DEF TypeInv, TypeOK
  <2>5. final' = final
    BY <1>2 DEF PutCreate
  <2>6. QED
    BY <1>1, <2>3, <2>4, <2>5
<1>3. ASSUME NEW w \in Writer, PutRename(w) PROVE Sound(i)'
  <2>1. /\ tmp'[c] = tmp[c] \/ tmp'[c] = None
        /\ final'[c] = final[c] \/ final'[c] = tmp[c]
    BY <1>3 DEF PutRename, TypeInv, TypeOK
  <2>2. QED
    BY <1>1, <2>1, StoreAssumption
<1>4. CASE PowerLoss
  BY <1>4, PowerSound
<1>5. CASE tmp' = tmp /\ final' = final
  BY <1>1, <1>5
<1>6. ASSUME NEW w \in Writer, NEW d \in Cert, PutCall(w, d) PROVE tmp' = tmp /\ final' = final
  BY <1>6 DEF PutCall
<1>7. ASSUME NEW w \in Writer,
             PutWrite(w) \/ PutSync(w) \/ PutRenameGone(w) \/ PutFail(w) \/ PutCrash(w)
      PROVE  tmp' = tmp /\ final' = final
  BY <1>7 DEF PutWrite, PutSync, PutRenameGone, PutFail, PutCrash, PutStop
<1>8. ASSUME NEW r \in Reader, NEW d \in Cert, GetExists(r, d) PROVE tmp' = tmp /\ final' = final
  BY <1>8 DEF GetExists
<1>9. ASSUME NEW r \in Reader, ReaderStep(r) \/ GetFail(r) PROVE tmp' = tmp /\ final' = final
  BY <1>9 DEF ReaderStep, GetOpen, GetRead, GetReturn, GetFail
<1>10. ASSUME NEW d \in Cert, Writeback(d) PROVE tmp' = tmp /\ final' = final
  BY <1>10 DEF Writeback
<1>11. CASE UNCHANGED vars
  BY <1>5, <1>11 DEF vars
<1>12. QED
  BY <1>2, <1>3, <1>4, <1>5, <1>6, <1>7, <1>8, <1>9, <1>10, <1>11 DEF Next, WriterStep

\* However many writers of one certificate overlap, a final path that names an
\* incomplete file is still being written, or was left by an interrupted writer.
THEOREM IncompleteOwed == Spec => []IncompleteIsOwed
<1>1. Init => NamedIsSound
  BY StoreAssumption DEF Init, NamedIsSound
<1>2. TypeInv /\ NamedIsSound => IncompleteIsOwed
  BY DEF TypeInv, TypeOK, NamedIsSound, IncompleteIsOwed, Sound, Published, Complete
<1>3. QED
  BY <1>1, <1>2, NamedStep, TypeInvariant, PTL DEF Spec

-----------------------------------------------------------------------------
(***************************************************************************)
(* Certificates that no two writers have stored at a time: why their final *)
(* path never names an incomplete file, through crashes, failed calls and  *)
(* losses of power, and whatever happens to the other certificates.        *)
(***************************************************************************)

\* At most one writer is inside put with such a certificate.
OneWriter ==
    \A v, w \in Writer :
        Busy(v) /\ Busy(w) /\ wcert[v] = wcert[w] /\ wcert[v] \notin shared => v = w

\* The writer's descriptor is the file its temporary path names, and it knows
\* what it has put there.
Owns(w) ==
    /\ wpc[w] \in {"write", "sync"} => tmp[wcert[w]] = fd[w]
    /\ wpc[w] = "write" => 1..off[w] \subseteq data[fd[w]]
    /\ wpc[w] = "sync" => data[fd[w]] = Chunks
    /\ \A i \in Inode : wpc[w] = "rename" /\ tmp[wcert[w]] = i =>
            data[i] = Chunks /\ synced[i] = Chunks

WriterOwns == \A w \in Writer : wcert[w] \notin shared => Owns(w)

\* What a final path names, now or after a loss of power, is whole on disk.
WholeOnDisk ==
    \A c \in Cert \ shared, i \in Inode :
        final[c] = i \/ onDisk[c] = i => data[i] = Chunks /\ synced[i] = Chunks

\* A temporary path shares its file with no other path, whoever overlaps.
Apart ==
    \A c, d \in Cert, i \in Inode :
        tmp[c] = i => final[d] # i /\ onDisk[d] # i /\ (tmp[d] = i => c = d)

SoleInv == OneWriter /\ WriterOwns /\ WholeOnDisk /\ Apart

\* A put of a certificate that nobody is storing does not share it.
LEMMA OneWriterStep ==
  ASSUME TypeInv, OneWriter, [Next]_vars
  PROVE  OneWriter'
<1> USE DEF TypeInv, TypeOK, OneWriter, Busy, dirVars, fileVars, writerVars, readerVars, history
<1>1. ASSUME NEW w \in Writer, NEW c \in Cert, PutCall(w, c) PROVE OneWriter'
  BY <1>1 DEF PutCall
<1>2. ASSUME NEW w \in Writer,
             PutCreate(w) \/ PutWrite(w) \/ PutSync(w) \/ PutRename(w) \/ PutRenameGone(w)
      PROVE  OneWriter'
  <2>1. wcert' = wcert /\ shared' = shared /\ Busy(w)
    BY <1>2 DEF PutCreate, PutWrite, PutSync, PutRename, PutRenameGone
  <2>2. \A v \in Writer : v # w => wpc'[v] = wpc[v]
    BY <1>2 DEF PutCreate, PutWrite, PutSync, PutRename, PutRenameGone
  <2>3. QED
    BY <2>1, <2>2
<1>3. ASSUME NEW w \in Writer, PutFail(w) \/ PutCrash(w) PROVE OneWriter'
  BY <1>3 DEF PutFail, PutCrash, PutStop
<1>4. CASE UNCHANGED <<wpc, wcert, shared>>
  BY <1>4
<1>5. CASE PowerLoss
  BY <1>5 DEF PowerLoss
<1>6. QED
  BY <1>1, <1>2, <1>3, <1>4, <1>5
     DEF Next, WriterStep, ReaderStep, GetExists, GetOpen, GetRead, GetReturn, GetFail, Writeback, vars

\* A whole file that only gains pieces stays whole.
LEMMA StaysWhole ==
  ASSUME NEW A, NEW B, NEW C, A = C, A \subseteq B, B \subseteq C
  PROVE  B = C
OBVIOUS

\* What a writer knows of its file survives what only adds to files.
LEMMA OwnsKept ==
  ASSUME TypeInv, NEW v \in Writer, Owns(v),
         UNCHANGED <<wpc[v], fd[v], off[v], wcert[v]>>,
         Busy(v) => tmp'[wcert[v]] = tmp[wcert[v]],
         \A i \in Inode : data[i] \subseteq data'[i] /\ data'[i] \subseteq Chunks,
         \A i \in Inode : synced'[i] = synced[i] \/ synced'[i] = data[i]
  PROVE  Owns(v)'
<1> USE DEF TypeInv, TypeOK, OffsetOK, Busy, Owns
<1>1. ASSUME wpc[v] \in {"write", "sync"}
      PROVE  /\ tmp'[wcert'[v]] = fd'[v]
             /\ wpc[v] = "write" => 1..off'[v] \subseteq data'[fd'[v]]
             /\ wpc[v] = "sync" => data'[fd'[v]] = Chunks
  <2>1. fd[v] \in Inode /\ tmp'[wcert'[v]] = fd'[v] /\ fd'[v] = fd[v] /\ off'[v] = off[v]
    BY <1>1
  <2>2. data[fd[v]] \subseteq data'[fd[v]] /\ data'[fd[v]] \subseteq Chunks
    BY <2>1
  <2>3. wpc[v] = "write" => 1..off[v] \subseteq data[fd[v]]
    OBVIOUS
  <2>4. ASSUME wpc[v] = "sync" PROVE data'[fd[v]] = Chunks
    <3>1. data[fd[v]] = Chunks
      BY <2>4
    <3>2. QED
      BY <3>1, <2>2, StaysWhole
  <2>5. QED
    BY <2>1, <2>2, <2>3, <2>4
<1>2. ASSUME wpc[v] = "rename", NEW i \in Inode, tmp'[wcert'[v]] = i
      PROVE  data'[i] = Chunks /\ synced'[i] = Chunks
  <2>1. data[i] = Chunks /\ synced[i] = Chunks
    BY <1>2
  <2>2. data'[i] = Chunks
    <3>1. data[i] \subseteq data'[i] /\ data'[i] \subseteq Chunks
      OBVIOUS
    <3>2. QED
      BY <2>1, <3>1, StaysWhole
  <2>3. QED
    BY <2>1, <2>2
<1>3. QED
  BY <1>1, <1>2

\* Whoever else stores other certificates, a writer owns its temporary file.
LEMMA OwnsStep ==
  ASSUME TypeInv, SoleInv, [Next]_vars
  PROVE  WriterOwns'
<1> SUFFICES ASSUME NEW v \in Writer, wcert'[v] \notin shared' PROVE Owns(v)'
  BY DEF WriterOwns
<1> USE StoreAssumption
    DEF TypeInv, TypeOK, OffsetOK, Chunks, Busy, SoleInv, WriterOwns,
        dirVars, fileVars, writerVars, readerVars, history
<1>1. ASSUME NEW w \in Writer, NEW c \in Cert, PutCall(w, c) PROVE Owns(v)'
  <2>1. CASE v = w
    BY <1>1, <2>1 DEF PutCall, Owns
  <2>2. CASE v # w
    <3>1. UNCHANGED <<wpc[v], fd[v], off[v], wcert[v], tmp, data, synced>> /\ wcert[v] \notin shared
      BY <1>1, <2>2 DEF PutCall
    <3>2. QED
      BY <3>1, OwnsKept
  <2>3. QED
    BY <2>1, <2>2
<1>2. ASSUME NEW w \in Writer, PutCreate(w) PROVE Owns(v)'
  <2>1. PICK j \in Inode :
          /\ IF tmp[wcert[w]] = None THEN Free(j) ELSE j = tmp[wcert[w]]
          /\ tmp' = [tmp EXCEPT ![wcert[w]] = j]
          /\ fd' = [fd EXCEPT ![w] = j]
          /\ data' = [data EXCEPT ![j] = {}]
          /\ synced' = [synced EXCEPT ![j] = {}]
    BY <1>2 DEF PutCreate
  <2>2. /\ UNCHANGED <<off, wcert, shared>> /\ Busy(w) /\ wcert[w] \in Cert
        /\ wpc' = [wpc EXCEPT ![w] = "write"] /\ off[w] = 0
    BY <1>2 DEF PutCreate
  <2>3. CASE v = w
    <3>1. tmp'[wcert'[v]] = fd'[v] /\ wpc'[v] = "write" /\ 1..off'[v] = {}
      BY <2>1, <2>2, <2>3
    <3>2. QED
      BY <3>1 DEF Owns
  <2>4. CASE v # w /\ Busy(v)
    <3>1. wcert[v] \in Cert /\ wcert[v] # wcert[w] /\ Owns(v)
      BY <2>2, <2>4 DEF OneWriter
    <3>2. tmp'[wcert[v]] = tmp[wcert[v]] /\ tmp[wcert[v]] # j
      BY <2>1, <2>2, <3>1 DEF Free, Named, Apart
    <3>3. \A i \in Inode : i # j => data'[i] = data[i] /\ synced'[i] = synced[i]
      BY <2>1
    <3>4. wpc[v] \in {"write", "sync"} => fd[v] \in Inode /\ fd[v] # j
      BY <3>1, <3>2 DEF Owns
    <3>5. UNCHANGED <<wpc[v], fd[v], off[v], wcert[v]>>
      BY <2>1, <2>2, <2>4
    <3>6. QED
      BY <3>1, <3>2, <3>3, <3>4, <3>5 DEF Owns
  <2>5. CASE v # w /\ ~Busy(v)
    BY <2>2, <2>5 DEF Owns
  <2>6. QED
    BY <2>3, <2>4, <2>5
<1>3. ASSUME NEW w \in Writer, PutWrite(w) PROVE Owns(v)'
  <2>1. /\ wpc[w] = "write" /\ fd[w] \in Inode /\ off[w] \in Nat /\ off[w] < NumChunks
        /\ off' = [off EXCEPT ![w] = off[w] + 1]
        /\ data' = [data EXCEPT ![fd[w]] = data[fd[w]] \cup {off[w] + 1}]
        /\ wpc' = [wpc EXCEPT ![w] = IF off[w] + 1 = NumChunks THEN "sync" ELSE "write"]
        /\ UNCHANGED <<fd, tmp, wcert, synced, shared>>
    BY <1>3 DEF PutWrite
  <2>2. Owns(v)
    BY <2>1
  <2>3. CASE v = w
    <3>1. /\ 1..off[w] \subseteq data[fd[w]] /\ data[fd[w]] \subseteq 1..NumChunks
          /\ tmp[wcert[w]] = fd[w]
      BY <2>1, <2>2, <2>3 DEF Owns
    <3>2. 1..off'[w] \subseteq data'[fd[w]] /\ data'[fd[w]] \subseteq 1..NumChunks
      <4>1. off'[w] = off[w] + 1 /\ data'[fd[w]] = data[fd[w]] \cup {off[w] + 1}
        BY <2>1
      <4>2. ASSUME NEW k \in 1..off'[w] PROVE k \in data'[fd[w]]
        <5>1. off[w] \in Nat /\ k \in Nat /\ k >= 1 /\ (k <= off[w] \/ k = off[w] + 1)
          BY <2>1, <4>1
        <5>2. QED
          BY <3>1, <4>1, <5>1
      <4>3. off[w] + 1 \in 1..NumChunks
        BY <2>1
      <4>4. QED
        BY <3>1, <4>1, <4>2, <4>3
    <3>3. CASE off[w] + 1 = NumChunks
      <4>1. data'[fd'[w]] = 1..NumChunks /\ wpc'[w] = "sync"
        BY <2>1, <3>2, <3>3
      <4>2. QED
        BY <2>1, <2>3, <3>1, <4>1 DEF Owns
    <3>4. CASE off[w] + 1 # NumChunks
      <4>1. wpc'[w] = "write"
        BY <2>1, <3>4
      <4>2. QED
        BY <2>1, <2>3, <3>1, <3>2, <4>1 DEF Owns
    <3>5. QED
      BY <3>3, <3>4
  <2>4. CASE v # w
    <3>1. UNCHANGED <<wpc[v], fd[v], off[v], wcert[v], tmp, synced>>
      BY <2>1, <2>4
    <3>2. \A i \in Inode : data[i] \subseteq data'[i] /\ data'[i] \subseteq Chunks
      BY <2>1
    <3>3. QED
      BY <2>2, <3>1, <3>2, OwnsKept
  <2>5. QED
    BY <2>3, <2>4
<1>4. ASSUME NEW w \in Writer, PutSync(w) PROVE Owns(v)'
  <2>1. /\ wpc[w] = "sync" /\ fd[w] \in Inode /\ wpc' = [wpc EXCEPT ![w] = "rename"]
        /\ synced' = [synced EXCEPT ![fd[w]] = data[fd[w]]]
        /\ fd' = [fd EXCEPT ![w] = None] /\ off' = [off EXCEPT ![w] = 0]
        /\ UNCHANGED <<tmp, wcert, data, shared>>
    BY <1>4 DEF PutSync
  <2>2. Owns(v)
    BY <2>1
  <2>3. CASE v = w
    BY <2>1, <2>2, <2>3 DEF Owns
  <2>4. CASE v # w
    <3>1. UNCHANGED <<wpc[v], fd[v], off[v], wcert[v], tmp, data>>
      BY <2>1, <2>4
    <3>2. \A i \in Inode : synced'[i] = synced[i] \/ synced'[i] = data[i]
      BY <2>1
    <3>3. QED
      BY <2>2, <3>1, <3>2, OwnsKept
  <2>5. QED
    BY <2>3, <2>4
<1>5. ASSUME NEW w \in Writer, PutRename(w) PROVE Owns(v)'
  <2>1. /\ wpc[w] = "rename" /\ wpc' = [wpc EXCEPT ![w] = "ok"]
        /\ tmp' = [tmp EXCEPT ![wcert[w]] = None]
        /\ UNCHANGED <<wcert, fd, off, data, synced, shared>>
    BY <1>5 DEF PutRename
  <2>2. CASE v = w
    BY <2>1, <2>2 DEF Owns
  <2>3. CASE v # w
    <3>1. UNCHANGED <<wpc[v], fd[v], off[v], wcert[v], data, synced>> /\ Owns(v)
      BY <2>1, <2>3
    <3>2. Busy(v) => tmp'[wcert[v]] = tmp[wcert[v]]
      BY <2>1, <2>3 DEF OneWriter
    <3>3. QED
      BY <3>1, <3>2, OwnsKept
  <2>4. QED
    BY <2>2, <2>3
<1>6. ASSUME NEW w \in Writer, PutRenameGone(w) \/ PutFail(w) \/ PutCrash(w) PROVE Owns(v)'
  <2>1. /\ UNCHANGED <<wcert, tmp, data, synced, shared>>
        /\ wpc'[w] \in {"err", "idle"}
        /\ v # w => UNCHANGED <<wpc[v], fd[v], off[v]>>
    BY <1>6 DEF PutRenameGone, PutFail, PutCrash, PutStop
  <2>2. CASE v = w
    BY <2>1, <2>2 DEF Owns
  <2>3. CASE v # w
    <3>1. UNCHANGED <<wpc[v], fd[v], off[v], wcert[v], tmp, data, synced>> /\ Owns(v)
      BY <2>1, <2>3
    <3>2. QED
      BY <3>1, OwnsKept
  <2>4. QED
    BY <2>2, <2>3
<1>7. CASE UNCHANGED <<wpc, fd, off, wcert, tmp, data, synced, shared>>
  <2>1. UNCHANGED <<wpc[v], fd[v], off[v], wcert[v], tmp, data, synced>> /\ Owns(v)
    BY <1>7
  <2>2. QED
    BY <2>1, OwnsKept
<1>8. CASE PowerLoss
  BY <1>8 DEF PowerLoss, Owns
<1>9. QED
  BY <1>1, <1>2, <1>3, <1>4, <1>5, <1>6, <1>7, <1>8
     DEF Next, WriterStep, ReaderStep, GetExists, GetOpen, GetRead, GetReturn, GetFail, Writeback, vars

\* The files of final paths are not emptied, and rename adds a synced one.
LEMMA WholeStep ==
  ASSUME TypeInv, SoleInv, [Next]_vars
  PROVE  WholeOnDisk'
<1> SUFFICES ASSUME NEW c \in Cert, c \notin shared', NEW i \in Inode, final'[c] = i \/ onDisk'[c] = i
             PROVE  data'[i] = Chunks /\ synced'[i] = Chunks
  BY DEF WholeOnDisk
<1> USE StoreAssumption
    DEF TypeInv, TypeOK, OffsetOK, Chunks, SoleInv, WholeOnDisk,
        dirVars, fileVars, writerVars, readerVars, history
<1>1. CASE UNCHANGED <<final, onDisk, data, synced>> /\ shared \subseteq shared'
  BY <1>1
<1>2. ASSUME NEW w \in Writer, PutCreate(w) PROVE data'[i] = Chunks /\ synced'[i] = Chunks
  <2>1. PICK j \in Inode :
          /\ Free(j) \/ j = tmp[wcert[w]]
          /\ data' = [data EXCEPT ![j] = {}]
          /\ synced' = [synced EXCEPT ![j] = {}]
    BY <1>2 DEF PutCreate
  <2>2. UNCHANGED <<final, onDisk, shared>> /\ wcert[w] \in Cert
    BY <1>2 DEF PutCreate, Busy
  <2>3. i # j
    BY <2>1, <2>2 DEF Free, Named, Apart
  <2>4. QED
    BY <2>1, <2>2, <2>3
<1>3. ASSUME NEW w \in Writer, PutWrite(w) PROVE data'[i] = Chunks /\ synced'[i] = Chunks
  <2>1. /\ UNCHANGED <<final, onDisk, synced, shared>> /\ off[w] + 1 \in Chunks
        /\ data' = [data EXCEPT ![fd[w]] = data[fd[w]] \cup {off[w] + 1}]
    BY <1>3 DEF PutWrite
  <2>2. data[i] \subseteq data'[i] /\ data'[i] \subseteq Chunks
    BY <2>1
  <2>3. data[i] = Chunks /\ synced[i] = Chunks
    BY <2>1
  <2>4. QED
    BY <2>1, <2>2, <2>3, StaysWhole
<1>4. ASSUME NEW w \in Writer, PutSync(w) PROVE data'[i] = Chunks /\ synced'[i] = Chunks
  BY <1>4 DEF PutSync
<1>5. ASSUME NEW w \in Writer, PutRename(w) PROVE data'[i] = Chunks /\ synced'[i] = Chunks
  <2>1. /\ wpc[w] = "rename" /\ UNCHANGED <<onDisk, data, synced, shared>>
        /\ final' = [final EXCEPT ![wcert[w]] = tmp[wcert[w]]]
    BY <1>5 DEF PutRename
  <2>2. CASE final[c] = i \/ onDisk[c] = i
    BY <2>1, <2>2
  <2>3. CASE c = wcert[w] /\ tmp[wcert[w]] = i
    BY <2>1, <2>3 DEF WriterOwns, Owns
  <2>4. QED
    BY <2>1, <2>2, <2>3
<1>6. ASSUME NEW d \in Cert, Writeback(d) PROVE data'[i] = Chunks /\ synced'[i] = Chunks
  BY <1>6 DEF Writeback
<1>7. CASE PowerLoss
  BY <1>7 DEF PowerLoss
<1>8. QED
  BY <1>1, <1>2, <1>3, <1>4, <1>5, <1>6, <1>7
     DEF Next, WriterStep, ReaderStep, PutCall, PutRenameGone, PutFail, PutCrash, PutStop,
         GetExists, GetOpen, GetRead, GetReturn, GetFail, vars

\* Only File::create names a file temporarily, and only rename unnames it.
LEMMA ApartStep ==
  ASSUME TypeInv, Apart, [Next]_vars
  PROVE  Apart'
<1> USE StoreAssumption
    DEF TypeInv, TypeOK, OffsetOK, Apart, dirVars, fileVars, writerVars, readerVars, history
<1>1. CASE UNCHANGED dirVars
  BY <1>1
<1>2. ASSUME NEW w \in Writer, PutCreate(w) PROVE Apart'
  BY <1>2 DEF PutCreate, Free, Named
<1>3. ASSUME NEW w \in Writer, PutRename(w) PROVE Apart'
  BY <1>3 DEF PutRename
<1>4. ASSUME NEW d \in Cert, Writeback(d) PROVE Apart'
  BY <1>4 DEF Writeback
<1>5. CASE PowerLoss
  BY <1>5 DEF PowerLoss
<1>6. QED
  BY <1>1, <1>2, <1>3, <1>4, <1>5
     DEF Next, WriterStep, ReaderStep, PutCall, PutWrite, PutSync, PutRenameGone, PutFail,
         PutCrash, PutStop, GetExists, GetOpen, GetRead, GetReturn, GetFail, vars

LEMMA SoleStep ==
  ASSUME TypeInv, SoleInv, [Next]_vars
  PROVE  SoleInv'
BY OneWriterStep, OwnsStep, WholeStep, ApartStep DEF SoleInv

\* The final path of a certificate that no two writers have stored at a time
\* never names an incomplete file.
THEOREM PublishedComplete == Spec => []PublishedIsComplete
<1>1. Init => SoleInv
  BY StoreAssumption DEF Init, SoleInv, OneWriter, WriterOwns, Owns, WholeOnDisk, Apart, Busy
<1>2. TypeInv /\ SoleInv /\ [Next]_vars => SoleInv'
  BY SoleStep
<1>3. TypeInv /\ SoleInv => PublishedIsComplete
  BY DEF TypeInv, TypeOK, SoleInv, WholeOnDisk, PublishedIsComplete, Published, Complete
<1>4. QED
  BY <1>1, <1>2, <1>3, TypeInvariant, PTL DEF Spec

-----------------------------------------------------------------------------
(***************************************************************************)
(* The store of CertStore, at the granularity of system calls, is the      *)
(* store of AtomicStore, in which put and get_bytes are single steps: for  *)
(* any number of callers, certificates, files and write(2) calls, under    *)
(* every fault and however writers overlap.                                *)
(***************************************************************************)

\* A writer finds its temporary file, unless another writer of the certificate
\* has renamed it away and so stored the certificate.
Ready ==
    \A w \in Writer :
        wpc[w] \in {"write", "sync", "rename"} /\ tmp[wcert[w]] = None =>
            wcert[w] \in shared /\ final[wcert[w]] # None

\* A certificate that survives a loss of power is there before it.
Kept == \A c \in Cert : onDisk[c] # None => final[c] # None

\* A reader that has seen the path will open it, and what it has open has no
\* temporary name; if no two writers have stored the certificate at a time, the
\* file is whole and has been read without a hole.
Reading(r) ==
    /\ rpc[r] = "open" => final[rcert[r]] # None /\ got[r] = {}
    /\ rpc[r] # "read" => roff[r] = 0
    /\ rpc[r] = "read" => \A c \in Cert : tmp[c] # rfd[r]
    /\ rpc[r] = "read" /\ rcert[r] \notin shared =>
         data[rfd[r]] = Chunks /\ got[r] = 1..roff[r]

ReadersRead == \A r \in Reader : Reading(r)

RefInv == TypeInv /\ SoleInv /\ Ready /\ Kept /\ ReadersRead

LEMMA ReadersInit == Init => Ready /\ Kept /\ ReadersRead
BY DEF Init, Ready, Kept, ReadersRead, Reading

LEMMA ReadyStep ==
  ASSUME RefInv, [Next]_vars
  PROVE  Ready'
<1> USE StoreAssumption
    DEF RefInv, TypeInv, TypeOK, OffsetOK, Busy, SoleInv, OneWriter, WriterOwns, Owns, Ready,
        dirVars, fileVars, writerVars, readerVars, history
<1>1. ASSUME NEW w \in Writer, NEW c \in Cert, PutCall(w, c) PROVE Ready'
  BY <1>1 DEF PutCall
<1>2. ASSUME NEW w \in Writer, PutCreate(w) PROVE Ready'
  BY <1>2 DEF PutCreate
<1>3. ASSUME NEW w \in Writer, PutWrite(w) PROVE Ready'
  BY <1>3 DEF PutWrite
<1>4. ASSUME NEW w \in Writer, PutSync(w) PROVE Ready'
  BY <1>4 DEF PutSync
<1>5. ASSUME NEW w \in Writer, PutRename(w) PROVE Ready'
  BY <1>5 DEF PutRename
<1>6. ASSUME NEW w \in Writer, PutRenameGone(w) PROVE Ready'
  BY <1>6 DEF PutRenameGone
<1>7. ASSUME NEW w \in Writer, PutFail(w) \/ PutCrash(w) PROVE Ready'
  BY <1>7 DEF PutFail, PutCrash, PutStop
<1>8. CASE UNCHANGED <<wpc, wcert, tmp, final, shared>>
  BY <1>8
<1>9. CASE PowerLoss
  BY <1>9 DEF PowerLoss
<1>10. QED
  BY <1>1, <1>2, <1>3, <1>4, <1>5, <1>6, <1>7, <1>8, <1>9
     DEF Next, WriterStep, ReaderStep, GetExists, GetOpen, GetRead, GetReturn, GetFail, Writeback, vars

LEMMA KeptStep ==
  ASSUME RefInv, [Next]_vars
  PROVE  Kept'
<1> USE StoreAssumption DEF RefInv, TypeInv, TypeOK, Kept, dirVars
<1>1. ASSUME NEW w \in Writer, PutRename(w) PROVE Kept'
  BY <1>1 DEF PutRename
<1>2. ASSUME NEW c \in Cert, Writeback(c) PROVE Kept'
  BY <1>2 DEF Writeback
<1>3. CASE PowerLoss
  BY <1>3 DEF PowerLoss
<1>4. CASE UNCHANGED <<final, onDisk>>
  BY <1>4
<1>5. QED
  BY <1>1, <1>2, <1>3, <1>4
     DEF Next, WriterStep, ReaderStep, PutCall, PutCreate, PutWrite, PutSync, PutRenameGone,
         PutFail, PutCrash, PutStop, GetExists, GetOpen, GetRead, GetReturn, GetFail, vars

LEMMA ReadingStep ==
  ASSUME RefInv, [Next]_vars
  PROVE  ReadersRead'
<1> SUFFICES ASSUME NEW r \in Reader PROVE Reading(r)'
  BY DEF ReadersRead
<1>0. Reading(r)
  BY DEF RefInv, ReadersRead
<1> USE StoreAssumption
    DEF RefInv, TypeInv, TypeOK, OffsetOK, ReadingOK, Busy, SoleInv, Reading, Chunks,
        dirVars, fileVars, writerVars, readerVars, history
<1>1. CASE UNCHANGED <<tmp, final, data, readerVars>> /\ shared \subseteq shared'
  BY <1>0, <1>1
<1>2. ASSUME NEW w \in Writer, PutCreate(w) PROVE Reading(r)'
  <2>1. PICK i \in Inode :
          /\ tmp' = [tmp EXCEPT ![wcert[w]] = i]
          /\ data' = [data EXCEPT ![i] = {}]
          /\ Free(i) \/ i = tmp[wcert[w]]
          /\ wcert[w] \in Cert
    BY <1>2 DEF PutCreate
  <2>2. rpc[r] = "read" => rfd[r] # i
    BY <1>0, <2>1 DEF Free
  <2>3. UNCHANGED <<final, readerVars, shared>>
    BY <1>2 DEF PutCreate
  <2>4. QED
    BY <1>0, <2>1, <2>2, <2>3
<1>3. ASSUME NEW w \in Writer, PutWrite(w) PROVE Reading(r)'
  <2>1. /\ UNCHANGED <<tmp, final, readerVars, shared>>
        /\ data' = [data EXCEPT ![fd[w]] = data[fd[w]] \cup {off[w] + 1}]
        /\ off[w] + 1 \in Chunks /\ fd[w] \in Inode
    BY <1>3 DEF PutWrite
  <2>2. ASSUME NEW i \in Inode, data[i] = Chunks PROVE data'[i] = Chunks
    <3>1. data[i] \subseteq data'[i] /\ data'[i] \subseteq Chunks
      BY <2>1
    <3>2. QED
      BY <2>2, <3>1, StaysWhole
  <2>3. QED
    BY <1>0, <2>1, <2>2
<1>4. ASSUME NEW w \in Writer, PutRename(w) PROVE Reading(r)'
  BY <1>0, <1>4 DEF PutRename
<1>5. ASSUME NEW s \in Reader, NEW c \in Cert, GetExists(s, c) PROVE Reading(r)'
  BY <1>0, <1>5 DEF GetExists
<1>6. ASSUME NEW s \in Reader, GetOpen(s) PROVE Reading(r)'
  <2>1. CASE s # r
    BY <1>0, <1>6, <2>1 DEF GetOpen
  <2>2. CASE s = r
    <3>1. /\ rpc[r] = "open" /\ rcert[r] \in Cert /\ final[rcert[r]] \in Inode
          /\ rpc'[r] = "read" /\ rfd'[r] = final[rcert[r]]
          /\ UNCHANGED <<rcert, roff, got, tmp, data, final, shared>>
      BY <1>0, <1>6, <2>2 DEF GetOpen
    <3>2. rcert[r] \notin shared => data[final[rcert[r]]] = Chunks
      BY <3>1 DEF WholeOnDisk
    <3>3. \A c \in Cert : tmp[c] # final[rcert[r]]
      BY <3>1 DEF Apart
    <3>4. roff[r] = 0 /\ got[r] = {} /\ 1..0 = {}
      BY <1>0, <3>1
    <3>5. QED
      BY <3>1, <3>2, <3>3, <3>4
  <2>3. QED
    BY <2>1, <2>2
<1>7. ASSUME NEW s \in Reader, GetRead(s) PROVE Reading(r)'
  <2>1. CASE s # r
    BY <1>0, <1>7, <2>1 DEF GetRead
  <2>2. CASE s = r
    <3>1. /\ rpc[r] = "read" /\ roff'[r] = roff[r] + 1
          /\ got'[r] = got[r] \cup ({roff[r] + 1} \cap data[rfd[r]])
          /\ \E k \in data[rfd[r]] : k > roff[r]
          /\ UNCHANGED <<rpc, rcert, rfd, tmp, data, final, shared>>
      BY <1>7, <2>2 DEF GetRead
    <3>2. ASSUME rcert[r] \notin shared PROVE got'[r] = 1..(roff[r] + 1)
      <4>1. data[rfd[r]] = 1..NumChunks /\ got[r] = 1..roff[r] /\ roff[r] \in Nat
        BY <1>0, <3>1, <3>2
      <4>2. roff[r] + 1 \in 1..NumChunks
        BY <3>1, <4>1
      <4>3. QED
        BY <3>1, <4>1, <4>2
    <3>3. QED
      BY <1>0, <3>1, <3>2
  <2>3. QED
    BY <2>1, <2>2
<1>8. ASSUME NEW s \in Reader, GetReturn(s) \/ GetFail(s) PROVE Reading(r)'
  BY <1>0, <1>8 DEF GetReturn, GetFail
<1>9. CASE PowerLoss
  BY <1>9 DEF PowerLoss
<1>10. QED
  BY <1>1, <1>2, <1>3, <1>4, <1>5, <1>6, <1>7, <1>8, <1>9
     DEF Next, WriterStep, ReaderStep, PutCall, PutSync, PutRenameGone, PutFail, PutCrash, PutStop,
         Writeback, vars

-----------------------------------------------------------------------------
LEMMA AtomicStep ==
  ASSUME RefInv, [Next]_vars
  PROVE  [Atomic!Next]_(Atomic!vars)
<1> USE StoreAssumption
    DEF RefInv, TypeInv, TypeOK, OffsetOK, ReadingOK, Busy, stored, call, lookup, Published,
        Atomic!vars, Atomic!Next, dirVars, fileVars, writerVars, readerVars, history
<1>1. CASE UNCHANGED <<final, wpc, wcert, rpc, rcert, shared>>
  BY <1>1
<1>2. ASSUME NEW w \in Writer, NEW c \in Cert, PutCall(w, c) PROVE Atomic!Put(w, c)
  <2>1. call' = [call EXCEPT ![w] = "busy"]
    BY <1>2 DEF PutCall
  <2>2. QED
    BY <1>2, <2>1 DEF PutCall, Atomic!Put
<1>3. ASSUME NEW w \in Writer, PutCreate(w) \/ PutWrite(w) \/ PutSync(w) PROVE UNCHANGED Atomic!vars
  <2>1. UNCHANGED <<final, wcert, rpc, rcert, shared>>
    BY <1>3 DEF PutCreate, PutWrite, PutSync
  <2>2. \E to \in {"write", "sync", "rename"} : wpc' = [wpc EXCEPT ![w] = to]
    BY <1>3 DEF PutCreate, PutWrite, PutSync
  <2>3. wpc[w] \in {"create", "write", "sync"}
    BY <1>3 DEF PutCreate, PutWrite, PutSync
  <2>4. call' = call
    BY <2>2, <2>3
  <2>5. QED
    BY <2>1, <2>4
<1>4. ASSUME NEW w \in Writer, PutRename(w) PROVE Atomic!Commit(w)
  <2>1. /\ wpc[w] = "rename" /\ wcert[w] \in Cert /\ tmp[wcert[w]] # None
        /\ final' = [final EXCEPT ![wcert[w]] = tmp[wcert[w]]]
        /\ wpc' = [wpc EXCEPT ![w] = "ok"]
        /\ UNCHANGED <<wcert, rpc, rcert, shared>>
    BY <1>4 DEF PutRename
  <2>2. stored' = stored \cup {wcert[w]}
    BY <2>1
  <2>3. call' = [call EXCEPT ![w] = "ok"] /\ call[w] = "busy"
    BY <2>1
  <2>4. QED
    BY <2>1, <2>2, <2>3 DEF Atomic!Commit
<1>5. ASSUME NEW w \in Writer, PutRenameGone(w) PROVE Atomic!Abort(w)
  <2>1. /\ UNCHANGED <<final, wcert, rpc, rcert, shared>>
        /\ wpc[w] = "rename" /\ wpc' = [wpc EXCEPT ![w] = "err"] /\ tmp[wcert[w]] = None
    BY <1>5 DEF PutRenameGone
  <2>2. wcert[w] \in shared \cap stored
    BY <2>1 DEF Ready
  <2>3. call' = [call EXCEPT ![w] = "err"] /\ call[w] = "busy"
    BY <2>1
  <2>4. QED
    BY <2>1, <2>2, <2>3 DEF Atomic!Abort
<1>6. ASSUME NEW w \in Writer, PutFail(w) \/ PutCrash(w) PROVE Atomic!Abort(w)
  <2>1. /\ UNCHANGED <<final, wcert, rpc, rcert, shared>> /\ Busy(w)
        /\ \E outcome \in {"err", "idle"} :
             /\ outcome = "err" => "io" \in Faults
             /\ outcome = "idle" => "crash" \in Faults
             /\ wpc' = [wpc EXCEPT ![w] = outcome]
    BY <1>6 DEF PutFail, PutCrash, PutStop
  <2>2. PICK outcome \in {"err", "idle"} :
             /\ outcome = "err" => "io" \in Faults
             /\ outcome = "idle" => "crash" \in Faults
             /\ wpc' = [wpc EXCEPT ![w] = outcome]
    BY <2>1
  <2>3. call' = [call EXCEPT ![w] = outcome] /\ call[w] = "busy"
    BY <2>1, <2>2
  <2>4. QED
    BY <2>1, <2>2, <2>3 DEF Atomic!Abort
<1>7. ASSUME NEW r \in Reader, NEW c \in Cert, GetExists(r, c) PROVE Atomic!Lookup(r, c)
  <2>1. CASE final[c] # None /\ rpc' = [rpc EXCEPT ![r] = "open"]
    <3>1. lookup' = [lookup EXCEPT ![r] = "found"] /\ c \in stored /\ lookup[r] # "found"
      BY <1>7, <2>1 DEF GetExists
    <3>2. QED
      BY <1>7, <3>1 DEF GetExists, Atomic!Lookup
  <2>2. CASE (final[c] = None \/ "io" \in Faults) /\ rpc' = [rpc EXCEPT ![r] = "notfound"]
    <3>1. /\ lookup' = [lookup EXCEPT ![r] = "notfound"] /\ lookup[r] # "found"
          /\ c \notin stored \/ "io" \in Faults
      BY <1>7, <2>2 DEF GetExists
    <3>2. QED
      BY <1>7, <3>1 DEF GetExists, Atomic!Lookup
  <2>3. QED
    BY <1>7, <2>1, <2>2 DEF GetExists
<1>8. ASSUME NEW r \in Reader, GetOpen(r) PROVE UNCHANGED Atomic!vars
  <2>1. rpc[r] = "open" /\ rpc' = [rpc EXCEPT ![r] = "read"] /\ UNCHANGED <<final, wpc, wcert, rcert, shared>>
    BY <1>8 DEF GetOpen, ReadersRead, Reading
  <2>2. lookup' = lookup
    BY <2>1
  <2>3. QED
    BY <2>1, <2>2
<1>9. ASSUME NEW r \in Reader, GetReturn(r) PROVE Atomic!Answer(r)
  <2>1. PICK outcome \in IF got[r] = Chunks THEN {"ok"} ELSE {"mismatch", "io"} :
          rpc' = [rpc EXCEPT ![r] = outcome]
    BY <1>9 DEF GetReturn
  <2>2. ASSUME rcert[r] \notin shared PROVE got[r] = Chunks
    <3>1. /\ got[r] = 1..roff[r] /\ data[rfd[r]] = 1..NumChunks
          /\ roff[r] \in 0..NumChunks /\ \A k \in data[rfd[r]] : k <= roff[r]
      BY <1>9, <2>2 DEF GetReturn, ReadersRead, Reading, Chunks
    <3>2. NumChunks \in 1..NumChunks
      OBVIOUS
    <3>3. NumChunks <= roff[r]
      BY <3>1, <3>2
    <3>4. \A m \in 0..NumChunks : NumChunks <= m => m = NumChunks
      OBVIOUS
    <3>5. roff[r] = NumChunks
      BY <3>1, <3>3, <3>4
    <3>6. QED
      BY <3>1, <3>5 DEF Chunks
  <2>3. /\ rpc[r] = "read" /\ UNCHANGED <<final, wpc, wcert, rcert, shared>>
        /\ outcome \in {"ok", "mismatch", "io"} /\ (outcome # "ok" => rcert[r] \in shared)
    BY <1>9, <2>1, <2>2 DEF GetReturn
  <2>4. lookup' = [lookup EXCEPT ![r] = outcome] /\ lookup[r] = "found"
    BY <2>1, <2>3
  <2>5. QED
    BY <2>3, <2>4 DEF Atomic!Answer
<1>10. ASSUME NEW r \in Reader, GetFail(r) PROVE Atomic!Answer(r)
  <2>1. /\ "io" \in Faults /\ rpc[r] \in {"open", "read"}
        /\ rpc' = [rpc EXCEPT ![r] = "io"] /\ UNCHANGED <<final, wpc, wcert, rcert, shared>>
    BY <1>10 DEF GetFail
  <2>2. lookup' = [lookup EXCEPT ![r] = "io"] /\ lookup[r] = "found"
    BY <2>1
  <2>3. QED
    BY <2>1, <2>2 DEF Atomic!Answer
<1>11. CASE PowerLoss
  <2>1. PICK undone \in SUBSET {c \in Cert : final[c] # onDisk[c]} :
          final' = [c \in Cert |-> IF c \in undone THEN onDisk[c] ELSE final[c]]
    BY <1>11 DEF PowerLoss
  <2>2. stored' \in SUBSET stored
    BY <2>1 DEF Kept
  <2>3. call' = [w \in Writer |-> "idle"] /\ lookup' = [r \in Reader |-> "idle"]
    BY <1>11 DEF PowerLoss
  <2>4. QED
    BY <1>11, <2>2, <2>3 DEF PowerLoss, Atomic!Lose
<1>12. QED
  BY <1>1, <1>2, <1>3, <1>4, <1>5, <1>6, <1>7, <1>8, <1>9, <1>10, <1>11
     DEF Next, WriterStep, ReaderStep, GetRead, Writeback, vars

LEMMA RefInvInit == Init => RefInv
BY ReadersInit, TypeInit, StoreAssumption
   DEF RefInv, Init, SoleInv, OneWriter, WriterOwns, Owns, WholeOnDisk, Apart, Busy

LEMMA RefStep == RefInv /\ [Next]_vars => RefInv'
BY TypeStep, SoleStep, ReadyStep, KeptStep, ReadingStep DEF RefInv

\* put and get_bytes act as one atomic store, whatever crashes, errors and
\* losses of power there are and however writers overlap.
THEOREM StoreIsAtomic == Spec => ImplementsAtomicStore
<1>1. Init => Atomic!Init
  BY DEF Init, Atomic!Init, stored, call, lookup, Published, Busy
<1>2. RefInv /\ [Next]_vars => [Atomic!Next]_(Atomic!vars)
  BY AtomicStep
<1>3. QED
  BY <1>1, <1>2, RefInvInit, RefStep, PTL DEF Spec, ImplementsAtomicStore, Atomic!Spec

\* No step takes a piece from a file that a reader has open: File::create only
\* empties files that have a temporary name or none.
THEOREM StableReads == Spec => ReadsAreStable
<1>1. ASSUME RefInv, [Next]_vars, NEW r \in Reader, rpc[r] = "read", rpc'[r] = "read"
      PROVE  data[rfd[r]] \subseteq data'[rfd[r]]
  <2> USE StoreAssumption
      DEF RefInv, TypeInv, TypeOK, ReadingOK, dirVars, fileVars, writerVars, readerVars, history
  <2>1. rfd[r] \in Inode /\ \A c \in Cert : tmp[c] # rfd[r]
    BY <1>1 DEF ReadersRead, Reading
  <2>2. ASSUME NEW w \in Writer, PutCreate(w) PROVE data[rfd[r]] \subseteq data'[rfd[r]]
    <3>1. PICK i \in Inode : /\ data' = [data EXCEPT ![i] = {}]
                             /\ Free(i) \/ i = tmp[wcert[w]]
                             /\ wcert[w] \in Cert
      BY <2>2, <1>1 DEF PutCreate, OffsetOK, Busy
    <3>2. rfd[r] # i
      BY <2>1, <3>1 DEF Free
    <3>3. QED
      BY <2>1, <3>1, <3>2, <1>1
  <2>3. ASSUME NEW w \in Writer, PutWrite(w) PROVE data[rfd[r]] \subseteq data'[rfd[r]]
    BY <2>1, <2>3, <1>1 DEF PutWrite
  <2>4. CASE PowerLoss
    BY <1>1, <2>4 DEF PowerLoss
  <2>5. CASE data' = data
    BY <2>5
  <2>6. QED
    BY <1>1, <2>2, <2>3, <2>4, <2>5
       DEF Next, WriterStep, ReaderStep, PutCall, PutSync, PutRename, PutRenameGone, PutFail,
           PutCrash, PutStop, GetExists, GetOpen, GetRead, GetReturn, GetFail, Writeback, vars
<1>2. RefInv /\ [Next]_vars =>
        [\A r \in Reader :
            rpc[r] = "read" /\ rpc'[r] = "read" => data[rfd[r]] \subseteq data'[rfd[r]]]_vars
  BY <1>1
<1>3. QED
  BY <1>2, RefInvInit, RefStep, PTL DEF Spec, ReadsAreStable
=============================================================================

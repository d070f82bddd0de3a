------------------------------ MODULE CertStore ------------------------------
(***************************************************************************)
(* The on-disk certificate store of crates/apsl-cert/src/store.rs, at the  *)
(* granularity of the file-system calls that put and get_bytes make.       *)
(*                                                                         *)
(* put derives BOTH of its paths from the certificate's hash: the final    *)
(* path <aa>/<bb>/<rest>.cert and the temporary one, <rest>.cert.tmp.      *)
(* Signatures are deterministic, so two callers certifying the same node   *)
(* with the same key write the same bytes through the same temporary path. *)
(*                                                                         *)
(* A certificate stands for its canonical bytes and, SHA-256 being         *)
(* injective here, for its hash.  Files under a certificate's two paths    *)
(* only ever receive that certificate's bytes, so the contents of a file   *)
(* are the set of its pieces that have been written: a piece that is       *)
(* absent is a hole or lies beyond the end of the file.                    *)
(***************************************************************************)
EXTENDS Naturals, FiniteSets

CONSTANTS
    Writer,     \* threads and processes that call put
    Reader,     \* threads and processes that call get_bytes
    Cert,       \* certificates, one per hash
    Inode,      \* files: what a path names and a descriptor keeps open
    NumChunks,  \* the write(2) calls one write_all may take
    Faults,     \* the faults of the environment: "crash", "io", "power"
    None        \* no file, or no certificate

ASSUME StoreAssumption ==
    /\ NumChunks \in Nat \ {0}
    /\ Faults \subseteq {"crash", "io", "power"}
    /\ None \notin Cert
    /\ None \notin Inode

Chunks == 1..NumChunks

VARIABLES
    tmp,        \* Cert -> the file named <rest>.cert.tmp
    final,      \* Cert -> the file named <rest>.cert
    onDisk,     \* Cert -> what <rest>.cert names after a power loss
    data,       \* Inode -> pieces a read of the file would see
    synced,     \* Inode -> pieces that survive a power loss
    torn,       \* files a writer left before writing every piece (history)
    wpc,        \* Writer -> the call of put it is about to make
    wcert,      \* Writer -> the certificate it stores
    fd,         \* Writer -> the file its descriptor f has open
    off,        \* Writer -> pieces it has written through f
    acked,      \* certificates for which some put returned Ok (history)
    shared,     \* certificates that two writers have stored at a time (history)
    rpc,        \* Reader -> where it is in get_bytes, or its last result
    rcert,      \* Reader -> the certificate it looks up
    rfd,        \* Reader -> the file it is reading
    roff,       \* Reader -> pieces it has read
    got         \* Reader -> the pieces it read correctly

dirVars    == <<tmp, final, onDisk>>
fileVars   == <<data, synced, torn>>
writerVars == <<wpc, wcert, fd, off>>
readerVars == <<rpc, rcert, rfd, roff, got>>
history    == <<acked, shared>>
vars == <<dirVars, fileVars, writerVars, history, readerVars>>

\* A writer whose put has not returned.
Busy(w) == wpc[w] \in {"create", "write", "sync", "rename"}

\* A path names the file, or did when the directory was last written back.
Named(i) == \E c \in Cert : i \in {tmp[c], final[c], onDisk[c]}

\* A file no path and no descriptor refers to.
Free(i) ==
    /\ ~Named(i)
    /\ \A w \in Writer : fd[w] # i
    /\ \A r \in Reader : rfd[r] # i

\* Which free file File::create gets is immaterial: it empties it.
NewFile == CHOOSE i \in Inode : Free(i)

\* Writer w is the one still to write every piece that file i misses.
Owes(w, i) ==
    /\ wpc[w] = "write"
    /\ fd[w] = i
    /\ Chunks \ data[i] \subseteq (off[w] + 1)..NumChunks

Published(c) == final[c] # None
Complete(c) == Published(c) /\ data[final[c]] = Chunks

-----------------------------------------------------------------------------
TypeOK ==
    /\ tmp \in [Cert -> Inode \cup {None}]
    /\ final \in [Cert -> Inode \cup {None}]
    /\ onDisk \in [Cert -> Inode \cup {None}]
    /\ data \in [Inode -> SUBSET Chunks]
    /\ synced \in [Inode -> SUBSET Chunks]
    /\ torn \subseteq Inode
    /\ wpc \in [Writer -> {"idle", "create", "write", "sync", "rename", "ok", "err"}]
    /\ wcert \in [Writer -> Cert \cup {None}]
    /\ fd \in [Writer -> Inode \cup {None}]
    /\ off \in [Writer -> 0..NumChunks]
    /\ acked \subseteq Cert
    /\ shared \subseteq Cert
    /\ rpc \in [Reader -> {"idle", "open", "read", "ok", "notfound", "mismatch", "io"}]
    /\ rcert \in [Reader -> Cert \cup {None}]
    /\ rfd \in [Reader -> Inode \cup {None}]
    /\ roff \in [Reader -> 0..NumChunks]
    /\ got \in [Reader -> SUBSET Chunks]

Init ==
    /\ tmp = [c \in Cert |-> None]
    /\ final = [c \in Cert |-> None]
    /\ onDisk = [c \in Cert |-> None]
    /\ data = [i \in Inode |-> {}]
    /\ synced = [i \in Inode |-> {}]
    /\ torn = {}
    /\ wpc = [w \in Writer |-> "idle"]
    /\ wcert = [w \in Writer |-> None]
    /\ fd = [w \in Writer |-> None]
    /\ off = [w \in Writer |-> 0]
    /\ acked = {}
    /\ shared = {}
    /\ rpc = [r \in Reader |-> "idle"]
    /\ rcert = [r \in Reader |-> None]
    /\ rfd = [r \in Reader |-> None]
    /\ roff = [r \in Reader |-> 0]
    /\ got = [r \in Reader |-> {}]

-----------------------------------------------------------------------------
(***************************************************************************)
(* put: canonicalise, hash, create the directories, then create, write,    *)
(* sync and rename the temporary file.  `?' returns Err at any of them.    *)
(***************************************************************************)

\* put(c, base) is called.
PutCall(w, c) ==
    /\ ~Busy(w)
    /\ wpc' = [wpc EXCEPT ![w] = "create"]
    /\ wcert' = [wcert EXCEPT ![w] = c]
    /\ shared' = IF \E v \in Writer : Busy(v) /\ wcert[v] = c THEN shared \cup {c} ELSE shared
    /\ UNCHANGED <<fd, off, dirVars, fileVars, acked, readerVars>>

\* Mutant: the temporary file is opened for appending: what a stopped writer
\* has left there stays in front of what is written now.
PutCreateAppends(w) ==
    LET c == wcert[w] IN
    /\ wpc[w] = "create"
    /\ \E i \in Inode :
        /\ IF tmp[c] = None THEN Free(i) /\ i = NewFile ELSE i = tmp[c]
        /\ tmp' = [tmp EXCEPT ![c] = i]
        /\ fd' = [fd EXCEPT ![w] = i]
        /\ data' = [data EXCEPT ![i] = IF tmp[c] = None THEN {} ELSE @]
        /\ synced' = [synced EXCEPT ![i] = IF tmp[c] = None THEN {} ELSE @]
        /\ torn' = torn \ {i}
        /\ off' = [off EXCEPT ![w] = IF tmp[c] = None THEN 0 ELSE Cardinality(data[i])]
    /\ wpc' = [wpc EXCEPT ![w] = "write"]
    /\ UNCHANGED <<final, onDisk, wcert, history, readerVars>>

\* File::create opens the temporary path, emptying the file it names or
\* making a new one.
PutCreate(w) ==
    LET c == wcert[w] IN
    /\ wpc[w] = "create"
    /\ \E i \in Inode :
        /\ IF tmp[c] = None THEN Free(i) /\ i = NewFile ELSE i = tmp[c]
        /\ tmp' = [tmp EXCEPT ![c] = i]
        /\ fd' = [fd EXCEPT ![w] = i]
        /\ data' = [data EXCEPT ![i] = {}]
        /\ synced' = [synced EXCEPT ![i] = {}]
        /\ torn' = torn \ {i}
    /\ wpc' = [wpc EXCEPT ![w] = "write"]
    /\ UNCHANGED <<final, onDisk, wcert, off, history, readerVars>>

\* Mutant: write in place of write_all, which may write a part only.
PutWriteOnce(w) ==
    /\ wpc[w] = "write"
    /\ data' = [data EXCEPT ![fd[w]] = @ \cup {off[w] + 1}]
    /\ off' = [off EXCEPT ![w] = @ + 1]
    /\ wpc' = [wpc EXCEPT ![w] = "sync"]
    /\ UNCHANGED <<wcert, fd, synced, torn, dirVars, history, readerVars>>

\* One write(2) of write_all, at the descriptor's own offset.
PutWrite(w) ==
    /\ wpc[w] = "write"
    /\ off' = [off EXCEPT ![w] = @ + 1]
    /\ data' = [data EXCEPT ![fd[w]] = @ \cup {off[w] + 1}]
    /\ wpc' = [wpc EXCEPT ![w] = IF off[w] + 1 = NumChunks THEN "sync" ELSE "write"]
    /\ UNCHANGED <<wcert, fd, synced, torn, dirVars, history, readerVars>>

\* Mutant: sync_all is forgotten.
PutUnsynced(w) ==
    /\ wpc[w] = "sync"
    /\ fd' = [fd EXCEPT ![w] = None]
    /\ off' = [off EXCEPT ![w] = 0]
    /\ wpc' = [wpc EXCEPT ![w] = "rename"]
    /\ UNCHANGED <<wcert, data, synced, torn, dirVars, history, readerVars>>

\* sync_all, then the block ends and closes f.
PutSync(w) ==
    /\ wpc[w] = "sync"
    /\ synced' = [synced EXCEPT ![fd[w]] = data[fd[w]]]
    /\ fd' = [fd EXCEPT ![w] = None]
    /\ off' = [off EXCEPT ![w] = 0]
    /\ wpc' = [wpc EXCEPT ![w] = "rename"]
    /\ UNCHANGED <<wcert, data, torn, dirVars, history, readerVars>>

\* Mutant: the file is linked to its final path and keeps its temporary name.
PutLink(w) ==
    LET c == wcert[w] IN
    /\ wpc[w] = "rename"
    /\ tmp[c] # None
    /\ final' = [final EXCEPT ![c] = tmp[c]]
    /\ wpc' = [wpc EXCEPT ![w] = "ok"]
    /\ acked' = acked \cup {c}
    /\ UNCHANGED <<tmp, onDisk, wcert, fd, off, fileVars, shared, readerVars>>

\* rename gives whatever file the temporary path names its final path.
PutRename(w) ==
    LET c == wcert[w] IN
    /\ wpc[w] = "rename"
    /\ tmp[c] # None
    /\ final' = [final EXCEPT ![c] = tmp[c]]
    /\ tmp' = [tmp EXCEPT ![c] = None]
    /\ wpc' = [wpc EXCEPT ![w] = "ok"]
    /\ acked' = acked \cup {c}
    /\ UNCHANGED <<onDisk, wcert, fd, off, fileVars, shared, readerVars>>

\* Mutant: put waits for the temporary file to come back.
PutRenameWaits(w) ==
    /\ wpc[w] = "rename"
    /\ tmp[wcert[w]] = None
    /\ UNCHANGED vars

\* Another writer has renamed the file already: rename fails with ENOENT.
PutRenameGone(w) ==
    /\ wpc[w] = "rename"
    /\ tmp[wcert[w]] = None
    /\ wpc' = [wpc EXCEPT ![w] = "err"]
    /\ UNCHANGED <<wcert, fd, off, dirVars, fileVars, history, readerVars>>

\* Writer w stops inside put, at `outcome': its descriptor is closed.
PutStop(w, outcome) ==
    /\ Busy(w)
    /\ torn' = IF wpc[w] = "write" THEN torn \cup {fd[w]} ELSE torn
    /\ wpc' = [wpc EXCEPT ![w] = outcome]
    /\ fd' = [fd EXCEPT ![w] = None]
    /\ off' = [off EXCEPT ![w] = 0]
    /\ UNCHANGED <<wcert, data, synced, dirVars, history, readerVars>>

\* A call fails (no space, an I/O error) and put returns StoreError::Io.
PutFail(w) == "io" \in Faults /\ PutStop(w, "err")

\* The process dies inside put; the caller may be started again.
PutCrash(w) == "crash" \in Faults /\ PutStop(w, "idle")

-----------------------------------------------------------------------------
(***************************************************************************)
(* get_bytes: exists, read_to_string, compare the hash.                    *)
(***************************************************************************)

\* path.exists() decides between NotFound and the read; it answers false when
\* the path cannot be examined.
GetExists(r, c) ==
    /\ rpc[r] \notin {"open", "read"}
    /\ \/ final[c] # None /\ rpc' = [rpc EXCEPT ![r] = "open"]
       \/ /\ final[c] = None \/ "io" \in Faults
          /\ rpc' = [rpc EXCEPT ![r] = "notfound"]
    /\ rcert' = [rcert EXCEPT ![r] = c]
    /\ got' = [got EXCEPT ![r] = {}]
    /\ UNCHANGED <<rfd, roff, dirVars, fileVars, writerVars, history>>

\* read_to_string opens the path, which may have been renamed over since.
GetOpen(r) ==
    LET i == final[rcert[r]] IN
    /\ rpc[r] = "open"
    /\ rfd' = [rfd EXCEPT ![r] = i]
    /\ rpc' = [rpc EXCEPT ![r] = IF i = None THEN "io" ELSE "read"]
    /\ UNCHANGED <<rcert, roff, got, dirVars, fileVars, writerVars, history>>

\* One read(2): the next piece, or zeros where the file has a hole.
GetRead(r) ==
    /\ rpc[r] = "read"
    /\ \E k \in data[rfd[r]] : k > roff[r]
    /\ roff' = [roff EXCEPT ![r] = @ + 1]
    /\ got' = [got EXCEPT ![r] = @ \cup ({roff[r] + 1} \cap data[rfd[r]])]
    /\ UNCHANGED <<rpc, rcert, rfd, dirVars, fileVars, writerVars, history>>

\* End of file: the bytes read are compared with the hash that was asked for.
\* A file that is cut or has a hole may not even be UTF-8: read_to_string fails.
GetReturn(r) ==
    /\ rpc[r] = "read"
    /\ \A k \in data[rfd[r]] : k <= roff[r]
    /\ \E outcome \in IF got[r] = Chunks THEN {"ok"} ELSE {"mismatch", "io"} :
        rpc' = [rpc EXCEPT ![r] = outcome]
    /\ rfd' = [rfd EXCEPT ![r] = None]
    /\ roff' = [roff EXCEPT ![r] = 0]
    /\ UNCHANGED <<rcert, got, dirVars, fileVars, writerVars, history>>

\* read_to_string cannot open the path, or a read(2) fails: StoreError::Io.
GetFail(r) ==
    /\ "io" \in Faults
    /\ rpc[r] \in {"open", "read"}
    /\ rpc' = [rpc EXCEPT ![r] = "io"]
    /\ rfd' = [rfd EXCEPT ![r] = None]
    /\ roff' = [roff EXCEPT ![r] = 0]
    /\ UNCHANGED <<rcert, got, dirVars, fileVars, writerVars, history>>

-----------------------------------------------------------------------------
(***************************************************************************)
(* The file system, modelled from what the calls above rely on.            *)
(***************************************************************************)

\* The kernel writes a directory entry back; put never asks it to.
Writeback(c) ==
    /\ "power" \in Faults
    /\ onDisk[c] # final[c]
    /\ onDisk' = [onDisk EXCEPT ![c] = final[c]]
    /\ UNCHANGED <<tmp, final, fileVars, writerVars, history, readerVars>>

\* Power is lost: every caller dies, some files lose the pieces that were not
\* synced, some renames and some temporary names never reached the disk.
PowerLoss ==
    /\ "power" \in Faults
    /\ \E lost \in SUBSET {i \in Inode : Named(i) /\ data[i] # synced[i]},
          undone \in SUBSET {c \in Cert : final[c] # onDisk[c]},
          gone \in SUBSET {c \in Cert : tmp[c] # None} :
        /\ data' = [i \in Inode |-> IF i \in lost THEN synced[i] ELSE data[i]]
        /\ final' = [c \in Cert |-> IF c \in undone THEN onDisk[c] ELSE final[c]]
        /\ tmp' = [c \in Cert |-> IF c \in gone THEN None ELSE tmp[c]]
    /\ synced' = data'
    /\ onDisk' = final'
    /\ torn' = torn \cup {i \in Inode : data'[i] # Chunks}
    /\ wpc' = [w \in Writer |-> "idle"]
    /\ fd' = [w \in Writer |-> None]
    /\ off' = [w \in Writer |-> 0]
    /\ rpc' = [r \in Reader |-> "idle"]
    /\ rfd' = [r \in Reader |-> None]
    /\ roff' = [r \in Reader |-> 0]
    /\ UNCHANGED <<wcert, history, rcert, got>>

-----------------------------------------------------------------------------
WriterStep(w) ==
    PutCreate(w) \/ PutWrite(w) \/ PutSync(w) \/ PutRename(w) \/ PutRenameGone(w)

ReaderStep(r) == GetOpen(r) \/ GetRead(r) \/ GetReturn(r)

Next ==
    \/ \E w \in Writer : WriterStep(w) \/ PutFail(w) \/ PutCrash(w)
    \/ \E w \in Writer, c \in Cert : PutCall(w, c)
    \/ \E r \in Reader : ReaderStep(r) \/ GetFail(r)
    \/ \E r \in Reader, c \in Cert : GetExists(r, c)
    \/ \E c \in Cert : Writeback(c)
    \/ PowerLoss

Spec == Init /\ [][Next]_vars

-----------------------------------------------------------------------------
(***************************************************************************)
(* Properties.                                                             *)
(***************************************************************************)

\* A certificate that no two writers have stored at a time is complete from the
\* moment its final path exists, whatever crashes, I/O errors and power losses
\* there are and whatever else is stored: the purpose of write, sync_all,
\* rename in that order.
PublishedIsComplete ==
    \A c \in Cert : Published(c) /\ c \notin shared => Complete(c)

\* With writers that overlap, a final path may name an incomplete file, but
\* only while a writer is still to write what is missing, or because a writer
\* was stopped in the middle of that very file: a put that returned Ok is never
\* left incomplete by writers that all run to their end.
IncompleteIsOwed ==
    \A c \in Cert :
        Published(c) /\ ~Complete(c) =>
            \/ final[c] \in torn
            \/ \E w \in Writer : Owes(w, final[c])

\* What the store's round-trip test and the README expect of a put that
\* returned Ok: the printed hash can be looked up.
AckedIsReadable == \A c \in acked : Complete(c)

\* A file that a reader has open never loses what it holds, although writers
\* truncate the temporary file under each other: get_bytes reads a file that
\* was complete to its end, whatever is put and renamed meanwhile.
ReadsAreStable ==
    [][\A r \in Reader :
        rpc[r] = "read" /\ rpc'[r] = "read" => data[rfd[r]] \subseteq data'[rfd[r]]]_vars

\* The store a caller sees: rename is where put takes effect, exists is where
\* get_bytes does.
stored == {c \in Cert : Published(c)}
call == [w \in Writer |-> IF Busy(w) THEN "busy" ELSE wpc[w]]
lookup == [r \in Reader |-> IF rpc[r] \in {"open", "read"} THEN "found" ELSE rpc[r]]

Atomic == INSTANCE AtomicStore WITH item <- wcert, query <- rcert

\* put and get_bytes act as the atomic store of AtomicStore: a certificate that
\* no two writers have stored at a time is found whole or not at all, and a put
\* that loses the race for the temporary file fails with the certificate stored.
ImplementsAtomicStore == Atomic!Spec
=============================================================================

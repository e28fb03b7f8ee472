----------------------------- MODULE VFSArchive -----------------------------
(***************************************************************************)
(* The archive engine, CVFSArchive (src/VFSLib/src/VFSArchive.cpp): one   *)
(* archive handle over one archive file.                                  *)
(*                                                                         *)
(* The file is the header (written by Create) followed by slots; a slot   *)
(* starts with a fixed-size SFileEntry record and is numBlocks blocks     *)
(* long.  `disk` maps the byte position of every record ever written to   *)
(* the record and the payload behind it; `eof` is the file size.  The     *)
(* handle keeps the loaded header, the live map `files` (index -> record) *)
(* and the free list `entries` (a sequence: its order breaks best-fit     *)
(* ties).  Every handler runs under m_archiveMutex, so each is one atomic *)
(* action.  Data is abstract: a plaintext is a model value with a size, an *)
(* LZ4 output size and an xxhash32; a payload records which plaintext it  *)
(* encodes, whether it is LZ4 data and the AES key it was encrypted with. *)
(***************************************************************************)
EXTENDS Integers, Sequences, SequencesExt, Functions, TLC

CONSTANTS
  Paths,        \* logical file names passed to Write / Delete
  Data,         \* plaintexts
  Keys,         \* 32-byte AES keys
  NoKey,        \* a null key pointer, and the zeroed m_archiveKey
  Versions,     \* caller-assigned versions
  Flags,        \* requested flag masks, subset of 0..3
  NameIndex,    \* GenerateNameIndex: [Paths -> Nat], xxhash32 of the name
  SizeOf,       \* [Data -> Nat \ {0}]   plaintext length
  Lz4SizeOf,    \* [Data -> Nat]         LZ4_compress_HC result (0 = failure)
  HashOf,       \* [Data -> Nat \ {0}]   XXH32 of the plaintext
  PageSize,     \* dwPageSize, the archive's bytesPerBlock
  HeaderSize,   \* sizeof(SArchiveHeader)
  RecordSize,   \* sizeof(SFileEntry)
  AesBlock,     \* AES block length (PKCS padding unit)
  NoData,       \* no plaintext: absent entry or failed Open
  MaxFileSize,  \* bound on the archive file size (model bound)
  CrashPoints   \* disk writes of Write after which the process may die

ASSUME CrashPoints \subseteq {"free", "extend", "record"}

ASSUME /\ Flags \subseteq 0..3
       /\ NameIndex \in [Paths -> Nat]
       /\ SizeOf \in [Data -> Nat \ {0}]
       /\ Lz4SizeOf \in [Data -> Nat]
       /\ HashOf \in [Data -> Nat \ {0}]
       /\ {PageSize, HeaderSize, RecordSize, AesBlock} \subseteq Nat \ {0}
       /\ NoKey \notin Keys /\ NoData \notin Data

VARIABLES
  disk,      \* [record position -> [rec, body, intact]] bytes of the file
  eof,       \* file size
  diskHdr,   \* TRUE once the header has been written at offset 0
  vfsFile,   \* m_vfsFile: "none" or the mode of the handle it holds
  key,       \* m_archiveKey
  header,    \* the in-memory SArchiveHeader (zeroed by Unload)
  files,     \* live entries: [index -> record]
  entries,   \* free list: Seq(record)
  fault      \* the process died (division by zero, or killed mid-Write)

vars == <<disk, eof, diskHdr, vfsFile, key, header, files, entries, fault>>

-----------------------------------------------------------------------------
(* Helpers translated from the source.                                     *)

\* The 0xffffffff "no slot" sentinel.  TLC's integers end at 2^31 - 1; any
\* value above every slot's block count behaves the same in the scan.
NoBlocks == 2147483647

\* Mutant: rounds down instead of up.
AlignDown(x, a) == x - (x % a)

\* ALIGNTO(x, a): x + (a - x % a); a whole extra block when x % a = 0.
AlignTo(x, a) == x + (a - (x % a))

FirstEntry == AlignTo(HeaderSize, PageSize)
DiskHeader == [bpb |-> PageSize, first |-> FirstEntry]
ZeroHeader == [bpb |-> 0, first |-> 0]

HasLz4(f) == f % 2 = 1
HasAes(f) == (f \div 2) % 2 = 1
ClearLz4(f) == IF HasLz4(f) THEN f - 1 ELSE f

\* LZ4_compressBound(n)
Lz4Bound(n) == n + n \div 255 + 16

\* AES-256-CBC with PKCS padding: always 1..AesBlock bytes of padding.
AesSize(n) == (n \div AesBlock + 1) * AesBlock

\* The compress and encrypt stages of Write: the stored flags, the sizes
\* after each stage and the payload that ends up on disk.
Codec(d, fl, k) ==
  LET cs   == Lz4SizeOf[d]
      lz4  == HasLz4(fl) /\ cs # 0 /\ cs < Lz4Bound(SizeOf[d])
      f1   == IF lz4 THEN fl ELSE ClearLz4(fl)
      csz  == IF lz4 THEN cs ELSE SizeOf[d]
  IN [flags |-> f1,
      csize |-> csz,
      xsize |-> IF HasAes(f1) THEN AesSize(csz) ELSE csz,
      body  |-> [data |-> d, lz4 |-> lz4,
                 key  |-> IF HasAes(f1) THEN k ELSE NoKey,
                 len  |-> IF HasAes(f1) THEN AesSize(csz) ELSE csz]]

\* Mutant: the record keeps its index when freed.
FreeRecordKeepIndex(e) ==
  [e EXCEPT !.hash = 0, !.version = 0, !.flags = 0,
            !.rawsize = 0, !.csize = 0, !.xsize = 0, !.final = 0]

\* Delete's rewrite of a record: every field but numBlocks and offset is 0.
FreeRecord(e) ==
  [e EXCEPT !.index = 0, !.hash = 0, !.version = 0, !.flags = 0,
            !.rawsize = 0, !.csize = 0, !.xsize = 0, !.final = 0]

\* Mutant: a later slot of the same size replaces the earlier one.
ScanFreeListLastTie(en, bpb, need) ==
  LET RECURSIVE Loop(_, _, _)
      Loop(j, bestNb, best) ==
        IF j > Len(en) THEN best
        ELSE IF en[j].nblocks <= bestNb /\ en[j].nblocks * bpb >= need
             THEN Loop(j + 1, en[j].nblocks, j)
             ELSE Loop(j + 1, bestNb, best)
  IN Loop(1, NoBlocks, 0)

\* Mutant: a slot that fits exactly is not taken.
ScanFreeListStrictFit(en, bpb, need) ==
  LET RECURSIVE Loop(_, _, _)
      Loop(j, bestNb, best) ==
        IF j > Len(en) THEN best
        ELSE IF en[j].nblocks < bestNb /\ en[j].nblocks * bpb > need
             THEN Loop(j + 1, en[j].nblocks, j)
             ELSE Loop(j + 1, bestNb, best)
  IN Loop(1, NoBlocks, 0)

\* The free-list scan of Write: the first slot with the fewest blocks
\* among those holding `need` bytes, 0 if none.
ScanFreeList(en, bpb, need) ==
  LET RECURSIVE Loop(_, _, _)
      Loop(j, bestNb, best) ==
        IF j > Len(en) THEN best
        ELSE IF en[j].nblocks < bestNb /\ en[j].nblocks * bpb >= need
             THEN Loop(j + 1, en[j].nblocks, j)
             ELSE Loop(j + 1, bestNb, best)
  IN Loop(1, NoBlocks, 0)

\* Writing `len` bytes at `pos` puts `slot` there and overwrites the
\* record of any slot that starts inside the written range.
WriteBlock(dk, pos, len, slot) ==
  [q \in DOMAIN dk \cup {pos} |->
     IF q = pos THEN slot
     ELSE IF pos < q /\ q < pos + len THEN [dk[q] EXCEPT !.intact = FALSE]
     ELSE dk[q]]

\* The archive's mutable state as one value, so that handlers that call
\* other handlers (Write calls Delete) compose.
Cur == [files |-> files, entries |-> entries, disk |-> disk, eof |-> eof]

Commit(st) ==
  /\ files' = st.files /\ entries' = st.entries
  /\ disk' = st.disk /\ eof' = st.eof

\* Mutant: the freed record is not rewritten on disk.
DeleteIdxMemoryOnly(st, i) ==
  IF i \notin DOMAIN st.files THEN st
  ELSE [st EXCEPT !.files   = [j \in DOMAIN st.files \ {i} |-> st.files[j]],
                  !.entries = Append(st.entries, FreeRecord(st.files[i]))]

\* Delete(index) on a writeable handle.
DeleteIdx(st, i) ==
  IF i \notin DOMAIN st.files THEN st
  ELSE LET e == FreeRecord(st.files[i])
       IN [files   |-> [j \in DOMAIN st.files \ {i} |-> st.files[j]],
           entries |-> Append(st.entries, e),
           disk    |-> [st.disk EXCEPT ![e.offset - RecordSize].rec = e,
                                       ![e.offset - RecordSize].intact = TRUE],
           eof     |-> st.eof]

\* Mutant: a reused slot stays on the free list.
PlaceKeepFree(st, bpb, new, body) ==
  LET need == new.final + RecordSize
      j    == ScanFreeList(st.entries, bpb, need)
      nb   == IF j = 0 THEN AlignTo(need, bpb) \div bpb ELSE st.entries[j].nblocks
      off  == IF j = 0 THEN st.eof + RecordSize ELSE st.entries[j].offset
      e    == [new EXCEPT !.nblocks = nb, !.offset = off]
  IN [files   |-> st.files @@ (e.index :> e),
      entries |-> st.entries,
      disk    |-> WriteBlock(st.disk, off - RecordSize, need,
                             [rec |-> e, body |-> body, intact |-> TRUE]),
      eof     |-> IF j = 0 THEN st.eof + nb * bpb ELSE st.eof]

\* Allocation and write-out shared by Write and WriteRawData: reuse the
\* best-fitting free slot or append one at end of file, write record and
\* payload, drop the slot from the free list, emplace into files.
Place(st, bpb, new, body) ==
  LET need == new.final + RecordSize
      j    == ScanFreeList(st.entries, bpb, need)
      nb   == IF j = 0 THEN AlignTo(need, bpb) \div bpb ELSE st.entries[j].nblocks
      off  == IF j = 0 THEN st.eof + RecordSize ELSE st.entries[j].offset
      e    == [new EXCEPT !.nblocks = nb, !.offset = off]
  IN [files   |-> st.files @@ (e.index :> e),
      entries |-> IF j = 0 THEN st.entries ELSE RemoveAt(st.entries, j),
      disk    |-> WriteBlock(st.disk, off - RecordSize, need,
                             [rec |-> e, body |-> body, intact |-> TRUE]),
      eof     |-> IF j = 0 THEN st.eof + nb * bpb ELSE st.eof]

\* The record positions Load visits: from firstEntry, each step jumps to
\* offset - sizeof(SFileEntry) + numBlocks * bytesPerBlock.  -1 marks an
\* unreadable record, a jump that does not advance, or one past EOF.
RECURSIVE Walk(_, _, _, _)
Walk(dk, end, bpb, pos) ==
  IF pos = end THEN <<>>
  ELSE IF pos > end \/ pos \notin DOMAIN dk \/ ~dk[pos].intact THEN <<-1>>
  ELSE LET nxt == dk[pos].rec.offset - RecordSize + dk[pos].rec.nblocks * bpb
       IN IF nxt <= pos THEN <<-1>> ELSE <<pos>> \o Walk(dk, end, bpb, nxt)

\* The records a Load of the file `dk` of size `end` reads, in order
\* (operators of the file's bytes, so that a primed use evaluates once).
LoadPositionsOf(dk, end, hdr) ==
  IF hdr THEN SelectSeq(Walk(dk, end, PageSize, FirstEntry), LAMBDA p : p >= 0)
  ELSE <<>>

LoadPositions == LoadPositionsOf(disk, eof, diskHdr)

\* Load's files.insert: the first record read for an index wins.
LoadedFilesOf(dk, ps) ==
  LET Idx(k) == dk[ps[k]].rec.index
      live   == {k \in DOMAIN ps : Idx(k) # 0}
  IN [i \in {Idx(k) : k \in live} |-> dk[ps[Min({k \in live : Idx(k) = i})]].rec]

LoadedFiles == LoadedFilesOf(disk, LoadPositions)

LoadedFree ==
  LET ps == SelectSeq(LoadPositions, LAMBDA p : disk[p].rec.index = 0)
  IN [j \in DOMAIN ps |-> disk[ps[j]].rec]

\* A payload that is the one its record describes: the plaintext hashes
\* to the record's hash and was encoded with the record's stages and size.
\* A record written over an old payload or over uninitialised bytes is not.
Matches(slot, r) ==
  /\ slot.body.data # NoData
  /\ HashOf[slot.body.data] = r.hash
  /\ slot.body.len = r.final
  /\ slot.body.lz4 = HasLz4(r.flags)
  /\ (slot.body.key # NoKey) = HasAes(r.flags)

\* The persisted content: what a Load of the file makes readable.
DiskContentOf(dk, lf) ==
  [i \in Range(NameIndex) |->
     IF i \in DOMAIN lf /\ Matches(dk[lf[i].offset - RecordSize], lf[i])
     THEN dk[lf[i].offset - RecordSize].body.data
     ELSE NoData]

\* DiskContentOf(disk, LoadedFiles), with the record positions and the
\* loaded records bound to values once: TLC re-evaluates an operator argument at each of
\* its uses inside a primed expression, and the refinement below primes it.
DiskContent ==
  CHOOSE c \in {DiskContentOf(disk, lf) :
                  lf \in {LoadedFilesOf(disk, ps) : ps \in {LoadPositions}}} : TRUE

-----------------------------------------------------------------------------
(* Operations.                                                             *)

Init ==
  /\ disk = <<>>          \* CVFSFile::Create made an empty file
  /\ eof = 0
  /\ diskHdr = FALSE
  /\ vfsFile = "none"
  /\ key = NoKey
  /\ header = ZeroHeader
  /\ files = <<>>
  /\ entries = <<>>
  /\ fault = FALSE

Unloaded ==
  /\ vfsFile' = "none" /\ key' = NoKey /\ header' = ZeroHeader
  /\ files' = <<>> /\ entries' = <<>>

\* Load(file, key) with a handle of the given mode: Unload, then the
\* null-key return, the header read (short on an empty file: returns
\* false but m_vfsFile stays set), and the walk over the records.
LoadEffect(mode, k) ==
  \/ /\ k = NoKey
     /\ Unloaded
  \/ /\ k # NoKey /\ ~diskHdr
     /\ vfsFile' = mode /\ key' = NoKey /\ header' = ZeroHeader
     /\ files' = <<>> /\ entries' = <<>>
  \/ /\ k # NoKey /\ diskHdr
     /\ vfsFile' = mode /\ key' = k /\ header' = DiskHeader
     /\ files' = LoadedFiles /\ entries' = LoadedFree

Load(mode, k) ==
  /\ ~fault
  /\ LoadEffect(mode, k)
  /\ UNCHANGED <<disk, eof, diskHdr, fault>>

\* Create(file, key) with the writeable handle: Load it, else lay down a
\* fresh header padded to firstEntry.
Create(k) ==
  /\ ~fault
  /\ IF diskHdr
     THEN LoadEffect("output", k) /\ UNCHANGED <<disk, eof, diskHdr>>
     ELSE /\ vfsFile' = "output" /\ key' = k /\ header' = DiskHeader
          /\ files' = <<>> /\ entries' = <<>>
          /\ diskHdr' = TRUE
          /\ eof' = IF eof < FirstEntry THEN FirstEntry ELSE eof
          /\ UNCHANGED disk
  /\ UNCHANGED fault

Unload ==
  /\ ~fault
  /\ Unloaded
  /\ UNCHANGED <<disk, eof, diskHdr, fault>>

\* Write(filename, data, length, flags, version).  Same-hash rewrites
\* return true without a step.  With a zeroed header (after a failed
\* Load) the append path computes ALIGNTO(x, 0): division by zero.
\* The SFileEntry Write fills in for plaintext d (placement still 0).
NewRecord(p, d, enc, v) ==
  [index |-> NameIndex[p], hash |-> HashOf[d], version |-> v,
   flags |-> enc.flags, rawsize |-> SizeOf[d],
   csize |-> enc.csize, xsize |-> enc.xsize,
   final |-> enc.xsize, nblocks |-> 0, offset |-> 0]

Write(p, d, fl, v) ==
  LET idx == NameIndex[p]
      enc == Codec(d, fl, key)
      new == NewRecord(p, d, enc, v)
      st  == Place(DeleteIdx(Cur, idx), header.bpb, new, enc.body)
  IN /\ ~fault
     /\ vfsFile = "output"
     /\ ~(idx \in DOMAIN files /\ files[idx].hash = HashOf[d])
     /\ \/ /\ header.bpb = 0
           /\ fault' = TRUE
           /\ UNCHANGED <<disk, eof, diskHdr, vfsFile, key, header, files, entries>>
        \/ /\ header.bpb # 0
           /\ st.eof <= MaxFileSize
           /\ Commit(st)
           /\ UNCHANGED <<diskHdr, vfsFile, key, header, fault>>

\* Uninitialised bytes: what malloc hands to the append path's Write.
Junk == [data |-> NoData, lz4 |-> FALSE, key |-> NoKey, len |-> 0]

\* The file after Write's disk writes up to `point`, none of them atomic
\* with the next: "free" is Delete's rewrite of the old record, "extend"
\* the append path's write of numBlocks uninitialised blocks at EOF,
\* "record" the new SFileEntry (over the reused slot's old record, or over
\* the uninitialised bytes).  `st` is the state after Delete.
CrashedDisk(st, bpb, new, point) ==
  LET need  == new.final + RecordSize
      j     == ScanFreeList(st.entries, bpb, need)
      nb    == IF j = 0 THEN AlignTo(need, bpb) \div bpb ELSE st.entries[j].nblocks
      off   == IF j = 0 THEN st.eof + RecordSize ELSE st.entries[j].offset
      e     == [new EXCEPT !.nblocks = nb, !.offset = off]
      pos   == off - RecordSize
      grown == IF j = 0
               THEN [disk |-> st.disk @@ (pos :> [rec |-> e, body |-> Junk, intact |-> FALSE]),
                     eof  |-> st.eof + nb * bpb]
               ELSE [disk |-> st.disk, eof |-> st.eof]
  IN CASE point = "free"   -> [disk |-> st.disk, eof |-> st.eof, ok |-> TRUE]
       [] point = "extend" -> [disk |-> grown.disk, eof |-> grown.eof, ok |-> j = 0]
       [] point = "record" ->
            [disk |-> WriteBlock(grown.disk, pos, RecordSize,
                        [rec |-> e, body |-> grown.disk[pos].body, intact |-> TRUE]),
             eof  |-> grown.eof, ok |-> TRUE]

\* The process is killed inside Write (power loss, a kill, a crash of
\* another thread) after the disk writes up to `point`; nothing of the
\* handle survives.  There is no journal: the file is left as written.
WriteCrash(p, d, fl, v, point) ==
  LET idx == NameIndex[p]
      enc == Codec(d, fl, key)
      cd  == CrashedDisk(DeleteIdx(Cur, idx), header.bpb, NewRecord(p, d, enc, v), point)
  IN /\ ~fault
     /\ vfsFile = "output"
     /\ ~(idx \in DOMAIN files /\ files[idx].hash = HashOf[d])
     /\ header.bpb # 0
     /\ cd.ok
     /\ cd.eof <= MaxFileSize
     /\ disk' = cd.disk /\ eof' = cd.eof
     /\ fault' = TRUE
     /\ Unloaded
     /\ UNCHANGED diskHdr

Delete(p) ==
  /\ ~fault
  /\ vfsFile = "output"
  /\ NameIndex[p] \in DOMAIN files
  /\ Commit(DeleteIdx(Cur, NameIndex[p]))
  /\ UNCHANGED <<diskHdr, vfsFile, key, header, fault>>

\* The blocks ReadRawData of another archive hands to WriteRawData: a
\* record (without placement) and its encoded payload.
RawBlocks ==
  { LET c == Codec(d, fl, k)
    IN [rec  |-> [index |-> NameIndex[p], hash |-> HashOf[d], version |-> v,
                  flags |-> c.flags, rawsize |-> SizeOf[d], csize |-> c.csize,
                  xsize |-> c.xsize, final |-> c.xsize, nblocks |-> 0,
                  offset |-> 0],
        body |-> c.body]
    : p \in Paths, d \in Data, fl \in Flags, v \in Versions, k \in Keys }

\* WriteRawData(buffer, length): Delete an existing entry of the index,
\* then the same allocation as Write, no hash short-cut, no re-encoding.
WriteRawData(blk) ==
  LET st == Place(DeleteIdx(Cur, blk.rec.index), header.bpb, blk.rec, blk.body)
  IN /\ ~fault
     /\ vfsFile = "output"
     /\ \/ /\ header.bpb = 0
           /\ fault' = TRUE
           /\ UNCHANGED <<disk, eof, diskHdr, vfsFile, key, header, files, entries>>
        \/ /\ header.bpb # 0
           /\ st.eof <= MaxFileSize
           /\ Commit(st)
           /\ UNCHANGED <<diskHdr, vfsFile, key, header, fault>>

\* The process is started again after it died: the file stays, the
\* handle is new.
Restart ==
  /\ fault
  /\ fault' = FALSE
  /\ Unloaded
  /\ UNCHANGED <<disk, eof, diskHdr>>

Next ==
  \/ \E k \in Keys : Create(k)
  \/ \E m \in {"output", "input"}, k \in Keys \cup {NoKey} : Load(m, k)
  \/ Unload
  \/ \E p \in Paths, d \in Data, fl \in Flags, v \in Versions : Write(p, d, fl, v)
  \/ \E p \in Paths, d \in Data, fl \in Flags, v \in Versions, c \in CrashPoints :
        WriteCrash(p, d, fl, v, c)
  \/ \E p \in Paths : Delete(p)
  \/ \E b \in RawBlocks : WriteRawData(b)
  \/ Restart

Spec == Init /\ [][Next]_vars

-----------------------------------------------------------------------------
(* Reads.                                                                  *)

\* Decrypt (when flagged) with the handle's key, LZ4-decompress (when
\* flagged): a payload decoded with the wrong key or the wrong stages is
\* garbage, which the hash check rejects.
Decode(b, fl, k) ==
  IF /\ HasAes(fl) = (b.key # NoKey) /\ HasLz4(fl) = b.lz4
     /\ HasAes(fl) => b.key = k
  THEN b.data ELSE NoData

\* Mutant: the XXH32 check after decoding is dropped.
OpenResultNoHashCheck(i) ==
  IF i \notin DOMAIN files THEN NoData
  ELSE LET e    == files[i]
           slot == disk[e.offset - RecordSize]
       IN IF slot.intact /\ slot.body.len = e.final
          THEN Decode(slot.body, e.flags, key) ELSE NoData

\* Open(index): record from `files`, payload read from the file at its
\* offset, decoded, checked against the stored hash.
OpenResult(i) ==
  IF i \notin DOMAIN files THEN NoData
  ELSE LET e    == files[i]
           slot == disk[e.offset - RecordSize]
           d    == IF slot.intact /\ slot.body.len = e.final
                   THEN Decode(slot.body, e.flags, key) ELSE NoData
       IN IF d # NoData /\ HashOf[d] = e.hash THEN d ELSE NoData

-----------------------------------------------------------------------------
(* Properties.                                                             *)

TypeOK ==
  /\ eof \in 0..MaxFileSize
  /\ diskHdr \in BOOLEAN /\ fault \in BOOLEAN
  /\ vfsFile \in {"none", "output", "input"}
  /\ key \in Keys \cup {NoKey}
  /\ header \in {ZeroHeader, DiskHeader}
  /\ DOMAIN disk \subseteq 0..MaxFileSize
  /\ DOMAIN files \subseteq Nat
  /\ \A i \in DOMAIN files : files[i].index = i
  /\ \A j \in DOMAIN entries : entries[j].index = 0

\* Load's walk of the file, firstEntry plus numBlocks strides, lands on an
\* intact record at every step and ends exactly at EOF (Write's append,
\* Delete's in-place rewrite and slot reuse keep the file walkable).
LayoutWalkable ==
  diskHdr => \A p \in Range(Walk(disk, eof, PageSize, FirstEntry)) : p >= 0

\* A loaded handle's `files` and `entries` are what a fresh Load of the
\* file would build: every Write, Delete and WriteRawData updates memory
\* and disk alike, and no slot is on the free list twice or both free and
\* live.
MemoryMatchesDisk ==
  header.bpb # 0 =>
    /\ files = LoadedFiles
    /\ Len(entries) = Len(LoadedFree)
    /\ Range(entries) = Range(LoadedFree)

\* Open of a live entry, by a handle holding the key the entry was
\* encrypted with, returns exactly the plaintext persisted for its index:
\* what it returns survives a reload, and a record that a crash left over
\* another payload (of the same size and stages) yields nothing.
OpenReturnsStored ==
  \A i \in DOMAIN files :
    LET b == disk[files[i].offset - RecordSize].body
    IN (b.key = NoKey \/ b.key = key) =>
         OpenResult(i) = DiskContent[i]

\* The free-list scan of Write picks the smallest slot that fits, the
\* earliest one on a tie (checked on the current free list for every
\* request size the allocator can see).
BestFit(en, bpb, need) ==
  LET fit == {j \in DOMAIN en : en[j].nblocks * bpb >= need}
  IN IF fit = {} THEN 0
     ELSE CHOOSE j \in fit : \A k \in fit :
            \/ en[j].nblocks < en[k].nblocks
            \/ en[j].nblocks = en[k].nblocks /\ j <= k

ScanIsBestFit ==
  \A need \in 1..MaxFileSize :
    ScanFreeList(entries, PageSize, need) = BestFit(entries, PageSize, need)

\* The file grows only when no free slot can hold the record and payload
\* that the step writes at the old end of file.
SpaceReuse ==
  [][ (diskHdr /\ eof' > eof) =>
        \A e \in Range(entries') :
          e.nblocks * PageSize < disk'[eof].rec.final + RecordSize ]_vars

\* Every step changes the persisted content only as a put or a remove of
\* one index: the archive implements the key-value store VFSStore.
Store == INSTANCE VFSStore WITH Indices <- Range(NameIndex), store <- DiskContent
StoreSpec == Store!Spec

\* Spec 4.4: a handle not brought to Open by a successful Load or Create
\* fails every operation safely; the process never dies in Write.
NoFault == ~fault
=============================================================================

------------------------------ MODULE VFSFile ------------------------------
(***************************************************************************)
(* CVFSFile (src/VFSLib/src/VFSFile.cpp): one handle over one disk file or *)
(* a caller's memory, in one of four modes.  Every public handler holds   *)
(* m_fileMutex, so each is one action.  Bytes are kept exactly (a small   *)
(* alphabet), because what a Read returns and from where is the point.    *)
(* The OS objects the handle acquires (file handle, mapping, view, heap   *)
(* buffer) are tracked in `live`, so that a release of something not live *)
(* (a double release) and a free of the caller's buffer are visible.      *)
(***************************************************************************)
EXTENDS Integers, Sequences, SequencesExt, FiniteSets

CONSTANTS
  Bytes,      \* byte values
  Gran,       \* SYSTEM_INFO::dwAllocationGranularity
  Offsets,    \* offsets passed to Map and SetPosition
  Sizes,      \* sizes passed to Map, Read, Write and Assign
  CallerBuf,  \* the caller's memory handed to Assign
  MaxSize,    \* bound on the file's length
  MaxPos,     \* bound on a position set by SetPosition
  Garbage     \* a byte read from outside every backing buffer

ASSUME Garbage \notin Bytes

ASSUME 0 \in Bytes

Modes == {"NONE", "OUTPUT", "INPUT", "MAPPED", "MEMORY"}
Objects == {"file", "map", "view", "heap"}

VARIABLES
  exists, disk,                    \* the file on disk
  fileType, fileHandle, mapHandle, mappedData, rawData, rawOff,
  viewStart, viewLen, rawSize, currPos, memOwner,   \* CVFSFile members
  filePtr,                         \* the OS file pointer of m_fileHandle
  live, fault, callerFreed,        \* OS objects alive; a double release; free of borrowed memory
  lastRead,                        \* the bytes the last Read copied out
  mapOffset                        \* the offset the last Map was asked for

vars == <<exists, disk, fileType, fileHandle, mapHandle, mappedData, rawData,
          rawOff, viewStart, viewLen, rawSize, currPos, memOwner, filePtr,
          live, fault, callerFreed, lastRead, mapOffset>>

\* IsValid(): a disk mode needs the handle, a buffer mode needs m_rawData.
IsValid ==
  \/ fileType \in {"OUTPUT", "INPUT"} /\ fileHandle
  \/ fileType \in {"MAPPED", "MEMORY"} /\ rawData # "null"

IsWriteable == fileType = "OUTPUT" /\ IsValid

\* The bytes m_rawData points into: the mapped view, or the caller's memory
\* (borrowed, or copied to the heap by Assign).
Backing ==
  IF rawData = "view"
  THEN SubSeq(disk, viewStart + rawOff + 1, viewStart + viewLen)
  ELSE SubSeq(CallerBuf, 1, rawSize)

\* The k bytes from m_rawData[pos] on; a byte past the backing is Garbage.
Exposed(pos, k) ==
  [i \in 1..k |-> IF pos + i <= Len(Backing) THEN Backing[pos + i] ELSE Garbage]

\* The OS objects the members refer to.
Held == {o \in {"file", "map", "view"} :
           [file |-> fileHandle, map |-> mapHandle, view |-> mappedData][o]}

\* A plausible slip in Close: free m_rawData whenever it is not the view.
FreedNoOwnerCheck ==
  Held \cup {r \in {rawData} : r \in {"heap", "caller"}}

\* What Close releases: free(m_rawData) when it is not the view and the
\* handle owns it, UnmapViewOfFile, and CloseHandle on mapping and file.
Freed ==
  Held \cup {r \in {rawData} : r \in {"heap", "caller"} /\ memOwner}

\* The process state after Close; every opener starts with Close().
LiveAfterClose == live \ Freed
FaultAfterClose == fault \/ ~((Freed \ {"caller"}) \subseteq live)
CallerFreedAfterClose == callerFreed \/ "caller" \in Freed

\* The members Close resets, and the other handlers set.
Members(t, fh, mh, md, rd, ro, vs, vl, rs, cp, mo) ==
  /\ fileType' = t /\ fileHandle' = fh /\ mapHandle' = mh /\ mappedData' = md
  /\ rawData' = rd /\ rawOff' = ro /\ viewStart' = vs /\ viewLen' = vl
  /\ rawSize' = rs /\ currPos' = cp /\ memOwner' = mo

Init ==
  /\ exists \in BOOLEAN
  /\ disk \in IF exists THEN BoundedSeq(Bytes, MaxSize) ELSE {<<>>}
  /\ fileType = "NONE" /\ fileHandle = FALSE /\ mapHandle = FALSE
  /\ mappedData = FALSE /\ rawData = "null" /\ rawOff = 0
  /\ viewStart = 0 /\ viewLen = 0 /\ rawSize = 0 /\ currPos = 0
  /\ memOwner = FALSE /\ filePtr = 0
  /\ live = {} /\ fault = FALSE /\ callerFreed = FALSE
  /\ lastRead = <<>> /\ mapOffset = 0

Close ==
  /\ Members("NONE", FALSE, FALSE, FALSE, "null", 0, 0, 0, 0, 0, FALSE)
  /\ live' = LiveAfterClose /\ fault' = FaultAfterClose
  /\ callerFreed' = CallerFreedAfterClose
  /\ UNCHANGED <<exists, disk, filePtr, lastRead, mapOffset>>

\* Create(filename, append): CreateFileW(GENERIC_READ | GENERIC_WRITE,
\* FILE_SHARE_READ, append ? OPEN_ALWAYS : CREATE_ALWAYS).  It fails on a
\* sharing violation with another handle of the process.
Create(append) ==
  /\ callerFreed' = CallerFreedAfterClose /\ fault' = FaultAfterClose
  /\ UNCHANGED <<lastRead, mapOffset>>
  /\ \/ /\ Members("OUTPUT", TRUE, FALSE, FALSE, "null", 0, 0, 0, 0, 0, FALSE)
        /\ live' = LiveAfterClose \cup {"file"}
        /\ exists' = TRUE
        /\ disk' = IF append /\ exists THEN disk ELSE <<>>
        /\ filePtr' = 0
     \/ /\ Members("NONE", FALSE, FALSE, FALSE, "null", 0, 0, 0, 0, 0, FALSE)
        /\ live' = LiveAfterClose
        /\ UNCHANGED <<exists, disk, filePtr>>

\* Open(filename): CreateFileW(GENERIC_READ, OPEN_EXISTING).
Open ==
  /\ callerFreed' = CallerFreedAfterClose /\ fault' = FaultAfterClose
  /\ UNCHANGED <<exists, disk, lastRead, mapOffset>>
  /\ \/ /\ exists
        /\ Members("INPUT", TRUE, FALSE, FALSE, "null", 0, 0, 0, 0, 0, FALSE)
        /\ live' = LiveAfterClose \cup {"file"}
        /\ filePtr' = 0
     \/ /\ Members("NONE", FALSE, FALSE, FALSE, "null", 0, 0, 0, 0, 0, FALSE)
        /\ live' = LiveAfterClose
        /\ UNCHANGED filePtr

\* Map(filename, offset, size): open the file, CreateFileMapping (which
\* fails on an empty file, and then closes the handle), round the offset
\* down to the granularity, MapViewOfFile (which fails past the end of the
\* file), then m_rawData = m_mappedData + offset % granularity with the
\* already rounded offset, and m_rawSize = min(size, file size).
Map(offset, size) ==
  LET aligned == offset - (offset % Gran)
      sz      == IF size = 0 THEN Len(disk) ELSE size
      viewOk  == aligned < Len(disk) /\ (size = 0 \/ aligned + size <= Len(disk))
  IN
  /\ callerFreed' = CallerFreedAfterClose /\ fault' = FaultAfterClose
  /\ mapOffset' = offset
  /\ UNCHANGED <<exists, disk, lastRead>>
  /\ \/ /\ ~exists \/ Len(disk) = 0
        /\ Members("NONE", FALSE, FALSE, FALSE, "null", 0, 0, 0, 0, 0, FALSE)
        /\ live' = LiveAfterClose
        /\ UNCHANGED filePtr
     \/ /\ exists /\ Len(disk) > 0 /\ viewOk
        /\ Members("MAPPED", TRUE, TRUE, TRUE, "view", aligned % Gran, aligned,
                   IF size = 0 THEN Len(disk) - aligned ELSE size,
                   Min({sz, Len(disk)}), 0, FALSE)
        /\ live' = LiveAfterClose \cup {"file", "map", "view"}
        /\ filePtr' = 0
     \/ /\ exists /\ Len(disk) > 0 /\ ~viewOk
        /\ Members("NONE", TRUE, TRUE, FALSE, "null", 0, 0, 0,
                   Min({sz, Len(disk)}), 0, FALSE)
        /\ live' = LiveAfterClose \cup {"file", "map"}
        /\ filePtr' = 0

\* Assign(filename, memory, length, copy): copy to a malloc'd buffer the
\* handle owns (malloc may return null, and for length 0 it may or may not),
\* or borrow the caller's memory.
Assign(length, copy) ==
  /\ length <= Len(CallerBuf)
  /\ callerFreed' = CallerFreedAfterClose /\ fault' = FaultAfterClose
  /\ UNCHANGED <<exists, disk, filePtr, lastRead, mapOffset>>
  /\ \/ /\ copy
        /\ Members("MEMORY", FALSE, FALSE, FALSE, "heap", 0, 0, 0, length, 0, TRUE)
        /\ live' = LiveAfterClose \cup {"heap"}
     \/ /\ copy
        /\ Members("NONE", FALSE, FALSE, FALSE, "null", 0, 0, 0, 0, 0, TRUE)
        /\ live' = LiveAfterClose
     \/ /\ ~copy
        /\ Members("MEMORY", FALSE, FALSE, FALSE, "caller", 0, 0, 0, length, 0, FALSE)
        /\ live' = LiveAfterClose

\* A plausible slip in Read: the buffer-mode length not clamped to size.
ReadNoSizeClamp(size) ==
  /\ \/ /\ ~IsValid
        /\ lastRead' = <<>>
        /\ UNCHANGED <<filePtr, currPos>>
     \/ /\ IsValid /\ fileType \in {"OUTPUT", "INPUT"}
        /\ LET got == SubSeq(disk, filePtr + 1, Min({filePtr + size, Len(disk)}))
           IN lastRead' = got /\ filePtr' = filePtr + Len(got)
        /\ UNCHANGED currPos
     \/ /\ IsValid /\ fileType \in {"MAPPED", "MEMORY"}
        /\ LET len == IF currPos <= rawSize THEN rawSize - currPos ELSE size
           IN /\ currPos + len <= MaxPos
              /\ lastRead' = Exposed(currPos, len)
              /\ currPos' = currPos + len
        /\ UNCHANGED filePtr
  /\ UNCHANGED <<exists, disk, fileType, fileHandle, mapHandle, mappedData,
                 rawData, rawOff, viewStart, viewLen, rawSize, memOwner,
                 live, fault, callerFreed, mapOffset>>

\* Read(buffer, size): 0 when not valid; ReadFile from the file pointer in
\* a disk mode; in a buffer mode min((uint32)(m_rawSize - m_currPos), size)
\* bytes from m_rawData[m_currPos].  When m_currPos is past m_rawSize the
\* difference wraps to at least 2^32 - MaxPos, more than any size asked.
Read(size) ==
  /\ \/ /\ ~IsValid
        /\ lastRead' = <<>>
        /\ UNCHANGED <<filePtr, currPos>>
     \/ /\ IsValid /\ fileType \in {"OUTPUT", "INPUT"}
        /\ LET got == SubSeq(disk, filePtr + 1, Min({filePtr + size, Len(disk)}))
           IN lastRead' = got /\ filePtr' = filePtr + Len(got)
        /\ UNCHANGED currPos
     \/ /\ IsValid /\ fileType \in {"MAPPED", "MEMORY"}
        /\ LET len == IF currPos <= rawSize THEN Min({rawSize - currPos, size}) ELSE size
           IN /\ currPos + len <= MaxPos
              /\ lastRead' = Exposed(currPos, len)
              /\ currPos' = currPos + len
        /\ UNCHANGED filePtr
  /\ UNCHANGED <<exists, disk, fileType, fileHandle, mapHandle, mappedData,
                 rawData, rawOff, viewStart, viewLen, rawSize, memOwner,
                 live, fault, callerFreed, mapOffset>>

\* Write(buffer, size): only an OUTPUT handle; WriteFile at the file
\* pointer, a gap past the end of the file reading as zeros.
Write(size) ==
  /\ IsWriteable
  /\ \E data \in [1..size -> Bytes] :
       LET new == SubSeq(disk, 1, Min({filePtr, Len(disk)}))
                  \o [i \in 1..(filePtr - Len(disk)) |-> 0]
                  \o data \o SubSeq(disk, filePtr + size + 1, Len(disk))
       IN /\ Len(new) <= MaxSize
          /\ disk' = new
  /\ filePtr' = filePtr + size
  /\ UNCHANGED <<exists, fileType, fileHandle, mapHandle, mappedData, rawData,
                 rawOff, viewStart, viewLen, rawSize, currPos, memOwner,
                 live, fault, callerFreed, lastRead, mapOffset>>

\* SetPosition(offset, relative): SetFilePointerEx in a disk mode, the
\* unchecked cursor m_currPos in a buffer mode; nothing when not valid.
SetPosition(offset, relative) ==
  /\ IsValid
  /\ \/ /\ fileType \in {"OUTPUT", "INPUT"}
        /\ filePtr' = IF relative THEN filePtr + offset ELSE offset
        /\ filePtr' <= MaxPos
        /\ UNCHANGED currPos
     \/ /\ fileType \in {"MAPPED", "MEMORY"}
        /\ currPos' = IF relative THEN currPos + offset ELSE offset
        /\ currPos' <= MaxPos
        /\ UNCHANGED filePtr
  /\ UNCHANGED <<exists, disk, fileType, fileHandle, mapHandle, mappedData,
                 rawData, rawOff, viewStart, viewLen, rawSize, memOwner,
                 live, fault, callerFreed, lastRead, mapOffset>>

Next ==
  \/ Close
  \/ Open
  \/ \E append \in BOOLEAN : Create(append)
  \/ \E o \in Offsets, s \in Sizes : Map(o, s)
  \/ \E s \in Sizes, copy \in BOOLEAN : Assign(s, copy)
  \/ \E s \in Sizes : Read(s) \/ Write(s)
  \/ \E o \in Offsets, relative \in BOOLEAN : SetPosition(o, relative)

Spec == Init /\ [][Next]_vars

-----------------------------------------------------------------------------
TypeOK ==
  /\ exists \in BOOLEAN /\ disk \in Seq(Bytes) /\ Len(disk) <= MaxSize
  /\ fileType \in Modes
  /\ {fileHandle, mapHandle, mappedData, memOwner} \subseteq BOOLEAN
  /\ rawData \in {"null", "view", "heap", "caller"}
  /\ {rawOff, viewStart, viewLen, rawSize, currPos, filePtr} \subseteq Nat
  /\ live \subseteq Objects
  /\ lastRead \in Seq(Bytes \cup {Garbage}) /\ Len(lastRead) <= Max(Sizes)

\* Every OS object the handle acquired is alive exactly while a member
\* refers to it: Close and every opener that calls it release each object
\* once (no double CloseHandle/UnmapViewOfFile/free), and the caller's
\* memory that Assign borrowed is never freed (Close's m_memOwner test).
ResourcesTracked ==
  /\ ~fault /\ ~callerFreed
  /\ live = Held \cup {r \in {rawData} : r = "heap"}

\* After Map(file, offset, size) the data GetData() exposes starts at the
\* byte at `offset` of the file, which is what ReadRawData copies from
\* (VFSArchive.cpp:537-543) and what line 152 computes the pointer for.
MapExposesRequestedOffset ==
  fileType = "MAPPED" =>
    LET k == Min({rawSize, Len(disk) - mapOffset})
    IN Exposed(0, k) = SubSeq(disk, mapOffset + 1, mapOffset + k)
====

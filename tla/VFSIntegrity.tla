---------------------------- MODULE VFSIntegrity ----------------------------
(***************************************************************************)
(* The integrity checker, src/VFSTest/src/main.cpp: main builds test.vpf  *)
(* from the directory `test` (CreateTestArchive), loads it, and unpacks   *)
(* every enumerated entry into `test_unpacked`                             *)
(* (CheckArchivedFilesIntegrity).  The program is sequential; `pc` is     *)
(* its position.  The archive is its content as VFSStore, the promise     *)
(* VFSArchive is checked to keep (run archive_safety).                     *)
(*                                                                         *)
(* SFileInformation.filename is filled in only in a build defining        *)
(* SHOW_FILE_NAMES (VFSArchive.cpp:424); no configuration under src       *)
(* defines it, so which build runs is a nondeterministic `showNames`.    *)
(***************************************************************************)
EXTENDS Integers, FiniteSets, Functions

CONSTANTS
  Names,          \* relative paths of the files under `test`
  Nested,         \* those inside a subdirectory of `test`
  Data,           \* non-empty file contents
  Empty,          \* a zero-length file
  NameIndex,      \* GenerateNameIndex: [Names -> Nat]
  EmptyNameIndex, \* GenerateNameIndex(L""), XXH32 of the empty string
  NoData          \* no entry / nothing unpacked

ASSUME /\ Nested \subseteq Names
       /\ NameIndex \in [Names -> Nat \ {0}]
       /\ EmptyNameIndex \notin Range(NameIndex)
       /\ Empty \notin Data /\ NoData \notin Data \cup {Empty}

VARIABLES
  pc,         \* "setup", "create", "load", "check" or "done"
  showNames,  \* the build defines SHOW_FILE_NAMES
  dir,        \* the test directory: [Names -> Data \cup {Empty}]
  todo,       \* files recursive_directory_iterator has still to visit
  archive,    \* the archive's content, [index -> plaintext or NoData]
  infos,      \* EnumerateFiles' entries not yet checked
  unpacked,   \* the files written under test_unpacked: [Names -> ...]
  exitCode    \* "none", "success" or "failure"

vars == <<pc, showNames, dir, todo, archive, infos, unpacked, exitCode>>

Archive == INSTANCE VFSStore WITH Indices <- Range(NameIndex), store <- archive

\* The SFileInformation an entry carries: its index, and its name only
\* in a SHOW_FILE_NAMES build.
Info(n) == [index |-> NameIndex[n], filename |-> IF showNames THEN n ELSE ""]

\* The index Open(file.filename) looks up.
OpenIndex(f) ==
  IF f = "" THEN EmptyNameIndex ELSE NameIndex[f]

Init ==
  /\ pc = "setup"
  /\ showNames \in BOOLEAN
  /\ dir \in [Names -> Data \cup {Empty}]
  /\ todo = Names
  /\ archive = [i \in Range(NameIndex) |-> NoData]
  /\ infos = {}
  /\ unpacked = [n \in Names |-> NoData]
  /\ exitCode = "none"

\* CreateTestArchive up to its loop: DeleteFileW(test.vpf), Create the
\* file, SetArchiveKey and CVFSArchive::Create.  Create fails when the
\* file cannot be opened for writing (another process holds it); main
\* then returns EXIT_FAILURE.
CreateArchive ==
  /\ pc = "setup"
  /\ \/ pc' = "create" /\ UNCHANGED exitCode
     \/ pc' = "done" /\ exitCode' = "failure"
  /\ UNCHANGED <<showNames, dir, todo, archive, infos, unpacked>>

\* One iteration of CreateTestArchive's loop: a zero-length file is
\* skipped, any other is read and written with flags 3 and version 1
\* (the archive's Write is a put of the plaintext).
AddEntry(n) ==
  /\ pc = "create"
  /\ n \in todo
  /\ todo' = todo \ {n}
  /\ IF dir[n] = Empty
     THEN UNCHANGED archive
     ELSE Archive!Put(NameIndex[n], dir[n])
  /\ UNCHANGED <<pc, showNames, dir, infos, unpacked, exitCode>>

\* An entry file that cannot be opened or read (another process holds
\* it): CreateTestArchive returns false and main returns EXIT_FAILURE.
\* (A directory iterator that throws is not caught, and the process
\* terminates: for the exit status the same outcome.)
AddEntryFails(n) ==
  /\ pc = "create"
  /\ n \in todo
  /\ pc' = "done" /\ exitCode' = "failure"
  /\ UNCHANGED <<showNames, dir, todo, archive, infos, unpacked>>

\* The directory walk is over; the archive handle goes out of scope.
CreateDone ==
  /\ pc = "create" /\ todo = {}
  /\ pc' = "load"
  /\ UNCHANGED <<showNames, dir, todo, archive, infos, unpacked, exitCode>>

\* SetArchiveKey, LoadArchive with the key the archive was built with,
\* CreateDirectoryW(test_unpacked) and EnumerateFiles.  LoadArchive
\* returns null when the file cannot be opened or its header read, and
\* main returns EXIT_FAILURE.
LoadAndEnumerate ==
  /\ pc = "load"
  /\ \/ /\ pc' = "check"
        /\ infos' = {Info(n) : n \in {m \in Names : archive[NameIndex[m]] # NoData}}
        /\ UNCHANGED exitCode
     \/ /\ pc' = "done" /\ exitCode' = "failure"
        /\ UNCHANGED infos
  /\ UNCHANGED <<showNames, dir, todo, archive, unpacked>>

\* CheckSpecificFileIntegrity for one entry: Open by the recorded
\* filename; on success create targetdir\filename and write the bytes.
\* CreateDirectoryW made only targetdir, so a nested name fails Create.
\* Every failure is logged and the loop goes on.
CheckEntry(f) ==
  /\ pc = "check"
  /\ f \in infos
  /\ infos' = infos \ {f}
  /\ LET i == OpenIndex(f.filename)
     IN IF i \in DOMAIN archive /\ archive[i] # NoData /\ f.filename \notin Nested
        THEN unpacked' = [unpacked EXCEPT ![f.filename] = archive[i]]
        ELSE UNCHANGED unpacked
  /\ UNCHANGED <<pc, showNames, dir, todo, archive, exitCode>>

\* main after the check: FinalizeVFSPack and EXIT_SUCCESS.
CheckDone ==
  /\ pc = "check" /\ infos = {}
  /\ pc' = "done" /\ exitCode' = "success"
  /\ UNCHANGED <<showNames, dir, todo, archive, infos, unpacked>>

Next ==
  \/ CreateArchive
  \/ \E n \in Names : AddEntry(n) \/ AddEntryFails(n)
  \/ CreateDone
  \/ LoadAndEnumerate
  \/ \E f \in infos : CheckEntry(f)
  \/ CheckDone

Spec == Init /\ [][Next]_vars

-----------------------------------------------------------------------------
\* Spec 4.7: the checker unpacks every entry, and a mismatch surfaces as
\* a failure; so main's EXIT_SUCCESS means every non-empty file of the
\* test directory came back out of the archive with its bytes.
SuccessMeansVerified ==
  exitCode = "success" =>
    \A n \in Names : dir[n] # Empty => unpacked[n] = dir[n]
=============================================================================

------------------------------ MODULE VFSPack ------------------------------
(***************************************************************************)
(* The pack registry, CVFSPack (src/VFSLib/src/VFSPack.cpp): the process  *)
(* singleton that keeps the registered archive names, the archive keys    *)
(* and the ordered list of loaded archive handles that Open searches.     *)
(*                                                                         *)
(* Every method except LoadRegistiredArchives takes m_packMutex for its   *)
(* whole body and is one atomic action.  LoadRegistiredArchives runs a    *)
(* parallel_for_each over m_archiveNames: each task is one LoadArchive    *)
(* call, and the tasks take the mutex in whatever order the thread pool   *)
(* runs them, so they are separate actions (LoadTask) between a start and *)
(* an end step.                                                            *)
(*                                                                         *)
(* Names are lowercased strings as the callers pass them; GetAbsolutePath *)
(* maps each to the absolute path that CVFSFile stores as its file name.  *)
(* An archive file is abstract: whether Load succeeds on it, the key it   *)
(* was built with and the payload it holds under each name index.         *)
(***************************************************************************)
EXTENDS Integers, Sequences, SequencesExt, FiniteSets, TLC

CONSTANTS
  Names,      \* lowercased names passed to Register / LoadArchive / SetArchiveKey
  AbsPath,    \* GetAbsolutePath: [Names -> Names], identity on absolute names
  Loadable,   \* absolute names of files on which CVFSArchive::Load succeeds
  RegPaths,   \* resolution paths passed to RegisterArchive ("*" the default)
  Keys,       \* archive keys
  NoKey,      \* no entry in m_archiveKeys (LoadArchive passes nullptr)
  BuildKey,   \* [Loadable -> Keys] the key each archive was written with
  Indices,    \* name indices of the paths a reader opens
  Data,       \* plaintexts
  NoData,     \* no payload (archive Open returns null)
  Content,    \* [Loadable -> [Indices -> Data \cup {NoData}]]
  FileSystem, \* what Open returns when no archive has the file
  MaxNames,   \* bound on RegisterArchive calls (model bound)
  MaxArchives \* bound on loaded handles (model bound)

Files == Range(AbsPath)

ASSUME /\ AbsPath \in [Names -> Names]
       /\ \A n \in Names : AbsPath[AbsPath[n]] = AbsPath[n]
       /\ Loadable \subseteq Files
       /\ BuildKey \in [Loadable -> Keys]
       /\ Content \in [Loadable -> [Indices -> Data \cup {NoData}]]
       /\ NoKey \notin Keys /\ NoData \notin Data /\ FileSystem \notin Data

VARIABLES
  archiveNames, \* m_archiveNames: Seq(Names), every RegisterArchive appends
  registered,   \* m_registiredArchives: [resolution path -> name]
  archiveKeys,  \* m_archiveKeys: [name -> key]
  archives,     \* m_archives: Seq of handles [file, key]
  pending,      \* positions of m_archiveNames whose load task has not run
  loading,      \* LoadRegistiredArchives is inside parallel_for_each
  aborted,      \* a load task called abort()
  batch         \* the archiveNames positions whose task added a handle, in task order

vars == <<archiveNames, registered, archiveKeys, archives, pending, loading,
          aborted, batch>>

-----------------------------------------------------------------------------
(* Helpers translated from the source.                                     *)

\* The handles whose GetFileStream()->GetFileName() equals the given name:
\* the file name is GetAbsolutePath of the name the handle was loaded by.
Matching(g) == SelectSeq(archives, LAMBDA h : h.file = g)

\* LoadArchive(filename): return an existing handle whose file name equals
\* the name, else open GetAbsolutePath(name), look the key up under the
\* name, Load, and push_back the handle when Load succeeds.  Load fails on
\* a missing or headerless file and on a null key; it does not check the
\* key against the archive.
LoadArchive(g) ==
  LET f == AbsPath[g]
      k == IF g \in DOMAIN archiveKeys THEN archiveKeys[g] ELSE NoKey
  IN IF Matching(g) # <<>> THEN [ok |-> TRUE, added |-> FALSE, archives |-> archives]
     ELSE IF f \in Loadable /\ k # NoKey
          THEN [ok |-> TRUE, added |-> TRUE,
                archives |-> Append(archives, [file |-> f, key |-> k])]
          ELSE [ok |-> FALSE, added |-> FALSE, archives |-> archives]

\* CVFSArchive::Open(index) on a handle: the payload decodes and passes
\* the hash check only with the key the archive was written with.
ArchiveOpen(h, i) ==
  IF h.key = BuildKey[h.file] THEN Content[h.file][i] ELSE NoData

\* CVFSPack::Open(filename): the first loaded archive (in m_archives
\* order) whose Open succeeds, else the plain file system.
PackOpen(i) ==
  LET hs == SelectSeq(archives, LAMBDA h : ArchiveOpen(h, i) # NoData)
  IN IF hs = <<>> THEN FileSystem ELSE ArchiveOpen(Head(hs), i)

-----------------------------------------------------------------------------
(* Operations.                                                             *)

Init ==
  /\ archiveNames = <<>>
  /\ registered = <<>>
  /\ archiveKeys = <<>>
  /\ archives = <<>>
  /\ pending = {}
  /\ loading = FALSE
  /\ aborted = FALSE
  /\ batch = <<>>

\* RegisterArchive(name, path): emplace keeps an existing mapping of the
\* path; the name is appended to m_archiveNames regardless.  The list is
\* iterated by a running LoadRegistiredArchives without the mutex, so
\* registration happens before loading.
RegisterArchive(n, rp) ==
  /\ ~aborted /\ ~loading
  /\ Len(archiveNames) < MaxNames
  /\ registered' = IF rp \in DOMAIN registered THEN registered
                   ELSE registered @@ (rp :> n)
  /\ archiveNames' = Append(archiveNames, n)
  /\ UNCHANGED <<archiveKeys, archives, pending, loading, aborted, batch>>

\* UnregisterArchive(name): erase the first mapping (in unordered_map
\* iteration order, unspecified) whose value is the name; m_archiveNames
\* is left alone.
UnregisterArchive(n) ==
  /\ ~aborted
  /\ \/ /\ \E rp \in DOMAIN registered :
             /\ registered[rp] = n
             /\ registered' = [q \in DOMAIN registered \ {rp} |-> registered[q]]
     \/ /\ \A rp \in DOMAIN registered : registered[rp] # n
        /\ UNCHANGED registered
  /\ UNCHANGED <<archiveNames, archiveKeys, archives, pending, loading, aborted, batch>>

\* SetArchiveKey(name, key): m_archiveKeys[name] = key.
SetArchiveKey(g, k) ==
  /\ ~aborted
  /\ archiveKeys' = (g :> k) @@ archiveKeys
  /\ UNCHANGED <<archiveNames, registered, archives, pending, loading, aborted, batch>>

\* An application thread calls LoadArchive directly (the bound keeps room
\* for the loads still pending).
LoadArchiveCall(g) ==
  /\ ~aborted
  /\ Len(archives) + Cardinality(pending) < MaxArchives
  /\ archives' = LoadArchive(g).archives
  /\ UNCHANGED <<archiveNames, registered, archiveKeys, pending, loading, aborted, batch>>

\* UnloadArchive(archive): remove the handle from m_archives.
UnloadArchive(j) ==
  /\ ~aborted
  /\ archives' = RemoveAt(archives, j)
  /\ UNCHANGED <<archiveNames, registered, archiveKeys, pending, loading, aborted, batch>>

\* Mutant: the task range runs one past the list (rend included).
LoadAllStartOffByOne ==
  /\ ~aborted /\ ~loading
  /\ Len(archives) + Len(archiveNames) <= MaxArchives
  /\ loading' = TRUE
  /\ pending' = 0..Len(archiveNames)
  /\ batch' = <<>>
  /\ UNCHANGED <<archiveNames, registered, archiveKeys, archives, aborted>>

\* LoadRegistiredArchives: parallel_for_each over m_archiveNames (from
\* rbegin to rend) starts one task per element.
LoadAllStart ==
  /\ ~aborted /\ ~loading
  /\ Len(archives) + Len(archiveNames) <= MaxArchives
  /\ loading' = TRUE
  /\ pending' = DOMAIN archiveNames
  /\ batch' = <<>>
  /\ UNCHANGED <<archiveNames, registered, archiveKeys, archives, aborted>>

\* One task: LoadArchive(name) under the mutex; a null result aborts the
\* process.
LoadTask(j) ==
  LET r == LoadArchive(archiveNames[j])
  IN /\ ~aborted /\ loading
     /\ j \in pending
     /\ pending' = pending \ {j}
     /\ archives' = r.archives
     /\ aborted' = ~r.ok
     /\ batch' = IF r.added THEN Append(batch, j) ELSE batch
     /\ UNCHANGED <<archiveNames, registered, archiveKeys, loading>>

\* parallel_for_each returns once every task has run.
LoadAllEnd ==
  /\ ~aborted /\ loading
  /\ pending = {}
  /\ loading' = FALSE
  /\ UNCHANGED <<archiveNames, registered, archiveKeys, archives, pending, aborted, batch>>

\* After abort() the process is started again with an empty registry.
Restart ==
  /\ aborted
  /\ archiveNames' = <<>> /\ registered' = <<>> /\ archiveKeys' = <<>>
  /\ archives' = <<>> /\ pending' = {} /\ loading' = FALSE
  /\ aborted' = FALSE /\ batch' = <<>>

Next ==
  \/ \E n \in Names, rp \in RegPaths : RegisterArchive(n, rp)
  \/ \E n \in Names : UnregisterArchive(n)
  \/ \E g \in Names, k \in Keys : SetArchiveKey(g, k)
  \/ \E g \in Names : LoadArchiveCall(g)
  \/ \E j \in DOMAIN archives : UnloadArchive(j)
  \/ LoadAllStart
  \/ \E j \in pending : LoadTask(j)
  \/ LoadAllEnd
  \/ Restart

Spec == Init /\ [][Next]_vars

-----------------------------------------------------------------------------
(* Properties.                                                             *)

Handle == [file : Files, key : Keys \cup {NoKey}]

TypeOK ==
  /\ archiveNames \in Seq(Names) /\ Len(archiveNames) <= MaxNames
  /\ DOMAIN registered \subseteq RegPaths
  /\ \A rp \in DOMAIN registered : registered[rp] \in Names
  /\ DOMAIN archiveKeys \subseteq Names
  /\ \A g \in DOMAIN archiveKeys : archiveKeys[g] \in Keys
  /\ archives \in Seq(Handle) /\ Len(archives) <= MaxArchives
  /\ pending \subseteq DOMAIN archiveNames
  /\ loading \in BOOLEAN /\ aborted \in BOOLEAN
  /\ batch \in Seq(DOMAIN archiveNames)

\* Spec 4.5: LoadRegisteredArchives loads in reverse registration order,
\* so that the last-registered archive is searched first by Open: the
\* handles one run adds to m_archives for different archive files come
\* from later registrations first.
LastRegisteredSearchedFirst ==
  [][ (loading /\ ~loading') =>
        \A a, b \in DOMAIN batch :
          /\ a < b
          /\ AbsPath[archiveNames[batch[a]]] # AbsPath[archiveNames[batch[b]]]
          => batch[a] > batch[b] ]_vars
=============================================================================

----------------------------- MODULE VFSBuilder -----------------------------
(***************************************************************************)
(* The bulk builder, VFSArchiver (src/VFSArchiver/src/main.cpp): one job  *)
(* per config entry, run by tbb::parallel_for.  A job creates its output  *)
(* file, creates an archive on it, then walks its source directory: for   *)
(* every regular file it strips the directory prefix, applies the path    *)
(* rewrites, turns '\' into '/', skips ignored names (WildcardMatch) and  *)
(* empty files, prefixes the visual directory and calls Write.  A failed  *)
(* job calls abort().  An exception escaping a job (the directory iterator *)
(* throws filesystem_error) cancels the jobs not yet started, waits for    *)
(* the running ones and is caught in main, which returns false.  main     *)
(* reads the config before the jobs and lists the archives after them.    *)
(*                                                                         *)
(* Paths are short strings over a small alphabet, as sequences of one-    *)
(* character strings, because the rewrites, ignores and prefixes act on   *)
(* their characters.  An archive is seen through what VFSArchive is shown *)
(* to implement (VFSStore): a map from normalised name to plaintext, Write *)
(* being a put.  The output file is shared by every job that names it.    *)
(***************************************************************************)
EXTENDS Integers, Sequences, SequencesExt, FiniteSets, TLC, Wildcard

CONSTANTS
  Jobs,       \* config entries
  Outputs,    \* output archive files
  OutOf,      \* [Jobs -> Outputs]               "file"
  Dir,        \* [Jobs -> Seq(chars)]            "dir"
  Visual,     \* [Jobs -> Seq(chars)]            "visualdir"
  Patches,    \* [Jobs -> Seq([from, to])]       "patches", as declared in the file
  Ignores,    \* [Jobs -> Seq(patterns)]         "ignores"
  Sources,    \* [Jobs -> Seq([path, data])]     recursive_directory_iterator order
  Data,       \* file contents
  Empty,      \* a zero-length source file
  CharCode    \* [chars -> Nat]  the byte value of each path character

ASSUME /\ OutOf \in [Jobs -> Outputs]
       /\ Empty \notin Data

VARIABLES
  pc,         \* [Jobs -> {"idle", "walk", "done"}]
  cursor,     \* [Jobs -> Nat]  next position in Sources[j]
  visual,     \* [Jobs -> Seq(chars)]  pack->strVisualDirectory, normalised in place
  holders,    \* [Outputs -> SUBSET Jobs]  jobs holding a write handle on the file
  content,    \* [Outputs -> [names -> Data]]  what the archive in the file holds
  aborted,    \* abort() was called
  main,       \* main's position: "config", "build" or "exited"
  thrown,     \* an exception escaped a job's body
  exitCode    \* the process exit status, NotExited while it runs

vars == <<pc, cursor, visual, holders, content, aborted, main, thrown, exitCode>>

\* Exit statuses: EXIT_FAILURE, and abort() (the MSVC runtime exits with 3).
NotExited == -1
ExitFailure == 1
AbortStatus == 3

-----------------------------------------------------------------------------
(* Path processing, translated from ProcessArchiveFile.                    *)

Sep == "\\"

\* GenerateNameIndex, up to the hash: '\' becomes '/'.  The lowercasing is
\* the identity on the lowercase alphabet the model uses.
Normalise(s) == [i \in DOMAIN s |-> IF s[i] = Sep THEN "/" ELSE s[i]]

\* std::wstring::find: the position of the first occurrence of t in s,
\* 0 for npos.
RECURSIVE FindFrom(_, _, _)
FindFrom(s, t, i) ==
  IF i + Len(t) - 1 > Len(s) THEN 0
  ELSE IF SubSeq(s, i, i + Len(t) - 1) = t THEN i
  ELSE FindFrom(s, t, i + 1)

Find(s, t) == FindFrom(s, t, 1)

\* s.replace(pos, n, r): n characters at pos replaced by r.
Replace(s, pos, n, r) == SubSeq(s, 1, pos - 1) \o r \o SubSeq(s, pos + n, Len(s))

\* FindAndReplaceString: replace the first occurrence only.
FindAndReplace(s, p) ==
  IF Find(s, p.from) = 0 THEN s ELSE Replace(s, Find(s, p.from), Len(p.from), p.to)

\* find(dir + "\\") and erase it: the name without the source root.
StripRoot(j, path) ==
  LET pos == Find(path, Dir[j] \o <<Sep>>)
  IN IF pos = 0 THEN path ELSE Replace(path, pos, Len(Dir[j]) + 1, <<>>)

\* std::string's operator<: byte-wise lexicographic order.
RECURSIVE KeyLess(_, _)
KeyLess(s, t) ==
  IF t = <<>> THEN FALSE
  ELSE IF s = <<>> THEN TRUE
  ELSE IF Head(s) # Head(t) THEN CharCode[Head(s)] < CharCode[Head(t)]
  ELSE KeyLess(Tail(s), Tail(t))

\* vPatches as InitializeConfigFile builds it: nlohmann::json keeps an
\* object in a std::map, so a key declared twice keeps its last value and
\* items() yields the keys in sorted order, not as declared.
ConfigPatches(decl) ==
  LET froms == {decl[k].from : k \in DOMAIN decl}
      To(f) == decl[Max({k \in DOMAIN decl : decl[k].from = f})].to
  IN [k \in 1..Cardinality(froms) |->
        LET f == SetToSortSeq(froms, KeyLess)[k] IN [from |-> f, to |-> To(f)]]

\* Mutant: the rewrites are applied after the separators are normalised.
LogicalNamePatchLate(j, path) ==
  Normalise(FoldLeft(FindAndReplace, Normalise(StripRoot(j, path)), ConfigPatches(Patches[j])))

\* The name without path after stripping, rewriting and normalising.
LogicalName(j, path) ==
  Normalise(FoldLeft(FindAndReplace, StripRoot(j, path), ConfigPatches(Patches[j])))

\* Lines 289-298: a visual directory that does not end in a separator has
\* its '\' turned into '/'; one that does is left as it is.
NormaliseVisual(v) ==
  IF v # <<>> /\ Last(v) \notin {Sep, "/"} THEN Normalise(v) ELSE v

Ignored(j, name) == \E k \in DOMAIN Ignores[j] : WildcardMatch(name, Ignores[j][k])

\* Mutant: the zero-length check is dropped.
KeptWithEmpty(j, src, name) == ~Ignored(j, name)

\* Lines 310-340: an entry not ignored and not of size zero is written.
Kept(j, src, name) == ~Ignored(j, name) /\ src.data # Empty

\* The logical name of every source entry of every job.  It depends on
\* the job list alone, so TLC computes it once.
EntryName ==
  [j \in Jobs |-> [k \in DOMAIN Sources[j] |-> LogicalName(j, Sources[j][k].path)]]

-----------------------------------------------------------------------------
(* Steps of a job.                                                         *)

Init ==
  /\ pc = [j \in Jobs |-> "idle"]
  /\ cursor = [j \in Jobs |-> 1]
  /\ visual = Visual
  /\ holders = [o \in Outputs |-> {}]
  /\ content = [o \in Outputs |-> <<>>]
  /\ aborted = FALSE
  /\ main = "config"
  /\ thrown = FALSE
  /\ exitCode = NotExited

\* main up to the jobs: InitializeVFSPack and InitializeConfigFile; when
\* either fails (a ConfigError: malformed list, missing directory, output
\* already there) main returns EXIT_FAILURE before any job runs.
InitializeConfig ==
  /\ main = "config"
  /\ \/ main' = "build" /\ UNCHANGED exitCode
     \/ main' = "exited" /\ exitCode' = ExitFailure
  /\ UNCHANGED <<pc, cursor, visual, holders, content, aborted, thrown>>

\* CVFSFile::Create(name) opens with CREATE_ALWAYS and FILE_SHARE_READ:
\* it truncates the file, and fails while another job holds the file
\* open for writing, or on any other I/O error.  Then SetArchiveKey and
\* CVFSArchive::Create lay down a fresh, empty archive.
CreateOutput(j) ==
  LET o == OutOf[j]
  IN /\ ~aborted /\ main = "build" /\ pc[j] = "idle"
     /\ \/ /\ holders[o] = {}
           /\ holders' = [holders EXCEPT ![o] = {j}]
           /\ content' = [content EXCEPT ![o] = <<>>]
           /\ pc' = [pc EXCEPT ![j] = "walk"]
           /\ UNCHANGED <<aborted, exitCode>>
        \/ /\ aborted' = TRUE /\ exitCode' = AbortStatus
           \* CreateFileW fails: a sharing violation with the job holding
           \* the file, or any other I/O error; line 379 aborts the process.
           /\ UNCHANGED <<holders, content, pc>>
     /\ UNCHANGED <<cursor, visual, main, thrown>>

\* One iteration of the directory walk (lines 265-358): the name is worked
\* out and the visual directory normalised; an ignored or empty file is
\* skipped, anything else is written into the archive under the visual
\* directory.  Opening, reading or writing an entry that is not ignored
\* can fail, and the job then aborts the process.
ProcessEntry(j) ==
  LET src  == Sources[j][cursor[j]]
      name == EntryName[j][cursor[j]]
      v    == NormaliseVisual(visual[j])
      full == IF v = <<>> THEN name ELSE v \o name
      o    == OutOf[j]
  IN /\ ~aborted /\ pc[j] = "walk"
     /\ cursor[j] <= Len(Sources[j])
     /\ visual' = [visual EXCEPT ![j] = v]
     /\ \/ /\ content' = IF Kept(j, src, name)
                         THEN [content EXCEPT ![o] = (Normalise(full) :> src.data) @@ @]
                         ELSE content
           /\ cursor' = [cursor EXCEPT ![j] = @ + 1]
           /\ UNCHANGED <<aborted, exitCode>>
        \/ /\ ~Ignored(j, name)
           /\ aborted' = TRUE /\ exitCode' = AbortStatus
           /\ UNCHANGED <<content, cursor>>
     /\ UNCHANGED <<pc, holders, main, thrown>>

\* ProcessArchiveFile returns true; the archive and the file handle are
\* released.
FinishJob(j) ==
  /\ ~aborted /\ pc[j] = "walk"
  /\ cursor[j] > Len(Sources[j])
  /\ pc' = [pc EXCEPT ![j] = "done"]
  /\ holders' = [holders EXCEPT ![OutOf[j]] = @ \ {j}]
  /\ UNCHANGED <<cursor, visual, content, aborted, main, thrown, exitCode>>

\* The recursive_directory_iterator of line 266 throws (a subdirectory
\* that cannot be opened, the directory removed during the walk): the
\* body unwinds, releasing the file and the archive.
WalkThrows(j) ==
  /\ ~aborted /\ pc[j] = "walk"
  /\ pc' = [pc EXCEPT ![j] = "failed"]
  /\ holders' = [holders EXCEPT ![OutOf[j]] = @ \ {j}]
  /\ thrown' = TRUE
  /\ UNCHANGED <<cursor, visual, content, aborted, main, exitCode>>

\* tbb cancels the task group: a job whose body has not started is not run.
CancelJob(j) ==
  /\ ~aborted /\ thrown /\ pc[j] = "idle"
  /\ pc' = [pc EXCEPT ![j] = "cancelled"]
  /\ UNCHANGED <<cursor, visual, holders, content, aborted, main, thrown, exitCode>>

\* parallel_for rethrows once the running bodies have ended; main's catch
\* logs and returns false, which the int return type makes 0.
CatchException ==
  /\ ~aborted /\ main = "build" /\ thrown
  /\ \A j \in Jobs : pc[j] \in {"done", "failed", "cancelled"}
  /\ main' = "exited" /\ exitCode' = 0
  /\ UNCHANGED <<pc, cursor, visual, holders, content, aborted, thrown>>

\* Every job has returned true: main loads each output archive through the
\* pack, lists its entries to <file>.log, calls FinalizeVFSPack and (after
\* the console PAUSE) returns EXIT_SUCCESS.
ListAndFinalize ==
  /\ ~aborted /\ main = "build"
  /\ \A j \in Jobs : pc[j] = "done"
  /\ main' = "exited" /\ exitCode' = 0
  /\ UNCHANGED <<pc, cursor, visual, holders, content, aborted, thrown>>

Next ==
  \/ InitializeConfig
  \/ \E j \in Jobs : \/ CreateOutput(j) \/ ProcessEntry(j) \/ FinishJob(j)
                    \/ WalkThrows(j) \/ CancelJob(j)
  \/ CatchException
  \/ ListAndFinalize

Spec == Init /\ [][Next]_vars

-----------------------------------------------------------------------------
(* Reference: the job as spec section 6 states it, over the whole walk.   *)

\* Steps (a)-(c) and (f): strip the source-root prefix, apply each rewrite
\* once at its leftmost occurrence, in the order the job list gives them
\* (6.2: "ordered substring rewrites"), normalise, and put the visual
\* directory in front; (d) and the zero-length rule skip.
SpecStrip(j, path) ==
  LET r == Dir[j] \o <<Sep>>
  IN IF IsPrefix(r, path) THEN SubSeq(path, Len(r) + 1, Len(path)) ELSE path

SpecRewrite(s, p) ==
  LET w  == Len(p.from)
      at == {i \in 1..(Len(s) - w + 1) : SubSeq(s, i, i + w - 1) = p.from}
  IN IF at = {} THEN s
     ELSE SubSeq(s, 1, Min(at) - 1) \o p.to \o SubSeq(s, Min(at) + w, Len(s))

RECURSIVE SpecRewriteAll(_, _)
SpecRewriteAll(s, ps) ==
  IF ps = <<>> THEN s ELSE SpecRewriteAll(SpecRewrite(s, Head(ps)), Tail(ps))

SpecName(j, path) ==
  LET n == Normalise(SpecRewriteAll(SpecStrip(j, path), Patches[j]))
  IN [n |-> n, full |-> Normalise(Visual[j] \o n)]

\* The archive a job produces: every kept file under its full name, a
\* later file of the walk replacing an earlier one of the same name.
SpecContent(j) ==
  LET kept == {k \in DOMAIN Sources[j] :
                 /\ Sources[j][k].data # Empty
                 /\ ~\E m \in DOMAIN Ignores[j] :
                       WildcardMatch(SpecName(j, Sources[j][k].path).n, Ignores[j][m])}
      last(nm) == CHOOSE k \in kept :
                    /\ SpecName(j, Sources[j][k].path).full = nm
                    /\ \A k2 \in kept : SpecName(j, Sources[j][k2].path).full = nm => k2 <= k
      names == {SpecName(j, Sources[j][k].path).full : k \in kept}
  IN [nm \in names |-> Sources[j][last(nm)].data]

SpecArchive == [j \in Jobs |-> SpecContent(j)]

-----------------------------------------------------------------------------
(* Properties.                                                             *)

TypeOK ==
  /\ pc \in [Jobs -> {"idle", "walk", "done", "failed", "cancelled"}]
  /\ \A j \in Jobs : cursor[j] \in 1..Len(Sources[j]) + 1
  /\ \A o \in Outputs : holders[o] \subseteq Jobs /\ Cardinality(holders[o]) <= 1
  /\ \A o \in Outputs : \A nm \in DOMAIN content[o] : content[o][nm] \in Data
  /\ aborted \in BOOLEAN /\ thrown \in BOOLEAN
  /\ main \in {"config", "build", "exited"}
  /\ exitCode \in {NotExited, 0, ExitFailure, AbortStatus}

\* Spec 6: the archive of a finished job holds exactly the job's files,
\* each under the name the spec's steps give it: every rewrite, ignore,
\* visual prefix and skip of the walk agrees with the spec, and no other
\* job has replaced the file since.
FinishedOutputIsJob ==
  \A j \in Jobs : pc[j] = "done" => content[OutOf[j]] = SpecArchive[j]

\* Spec 6.3 and 7: exit status 0 means success, and any failure aborts
\* the process; so when the archiver returns 0 every job ran to its end
\* and its archive holds exactly the job's files.
SuccessMeansArchivesBuilt ==
  exitCode = 0 =>
    \A j \in Jobs : pc[j] = "done" /\ content[OutOf[j]] = SpecArchive[j]
=============================================================================

# TLA+ models of the VFS library

These modules model the virtual file system in `src/`. The library has these parts:

* **`CVFSArchive`** (`src/VFSLib/src/VFSArchive.cpp`) is the archive engine.
  * An archive is one file. It starts with a header (`magic`, `bytesPerBlock`, `firstEntry`) followed by slots.
  * Each slot starts with an `SFileEntry` record, then holds the encoded payload, and is `numBlocks` blocks long.
  * The handle keeps the loaded header, the live map `files` (name index → record), the free list `entries`, the key and the file handle `m_vfsFile`.
  * `Write` encodes the data: LZ4 (optional), then AES-256-CBC (optional). It deletes the old entry, picks the best-fitting free slot or appends a new one, and writes the record and the payload.
  * `Delete` rewrites the record in place with index 0 and puts it on the free list.
  * `Load` walks the records from `firstEntry` in `numBlocks` strides. `Open` reads a payload back, decodes it and checks its xxhash32.
  * `ReadRawData` and `WriteRawData` copy an encoded slot between archives, and `CopyArchive` is built on them.
  * Every handler except `EnumerateFiles` and `CopyArchive` takes the recursive `m_archiveMutex`.
* **The codec** is `Write`/`Open` together with `CryptHelper.cpp`.
* **`CVFSFile`** (`VFSFile.cpp`) wraps one Win32 file: output, input, memory-mapped or an in-memory buffer.
* **`CVFSPack`** (`VFSPack.cpp`) is a process-wide registry of archives.
  * It keeps the archive names and name→path registrations, the archive keys and the loaded archives.
  * `Open` searches the loaded archives in order, then falls back to the plain file system.
  * `LoadRegistiredArchives` loads every registered name in parallel.
* **VFSArchiver** (`src/VFSArchiver/src/main.cpp`) builds archives from a JSON config. It runs one job per archive in parallel (TBB), then reloads every output and lists it.
* **VFSTest** (`src/VFSTest/src/main.cpp`) checks integrity. It builds `test.vpf` from a directory, reloads it, and unpacks every enumerated entry into `test_unpacked`.
* **The property-list utility** (`VFSPropertyManager.cpp`, `src/VFSPropertyGenerator`) turns tab-delimited `.pr?` files into `PropertyList.json`, an array with one object per file. `GetPropertyObject` looks an object up by CRC in that array.
* Peripheral parts: the logger and the ClanLib exception helper.

## Modules

| Module | Models | Code |
|---|---|---|
| `VFSStore` | What an archive promises: a map from name index to the plaintext last written under it (Put, Remove) | abstract (spec §2, §4) |
| `VFSArchive` | One archive handle over one archive file: Create, Load, Unload, Write, Delete, WriteRawData, and Open as an operator | `VFSArchive.cpp` 12-185, 245-485, 514-614 |
| `MCVFSArchive` | The constants for TLC: two paths, two plaintexts, two keys | — |
| `VFSPack` | The registry: RegisterArchive, UnregisterArchive, SetArchiveKey, LoadArchive, UnloadArchive, `LoadRegistiredArchives` as a batch of parallel load tasks, and `Open` over the overlay | `VFSPack.cpp` 67-237, 247-269, 305-313 |
| `MCVFSPack` | Three names (two of them resolving to the same absolute path), two loadable files, two keys | — |
| `Wildcard` | `CVFSPack::WildcardMatch` as a RECURSIVE operator, and a reference glob matcher (`GlobMatch`) defined by cut points | `VFSPack.cpp` 339-372 |
| `PropertyList` | `SplitString`, `ReplaceString`, `GeneratePropertyList` (its per-file parser included), property-generator's delete-then-generate, `LoadPropertyList` and `GetPropertyObject` as operators. `ParseRef` states the file format declaratively. | `VFSPropertyManager.cpp` 22-100, 134-305; `main.cpp` (VFSPropertyGenerator) 51-71 |
| `MCTextOps` | One initial state per input: the glob pairs above; every text of 1-4 lines from nine line bodies | — |
| `VFSFile` | One `CVFSFile` handle: Create, Open, Close, Map, Assign, Read, Write, SetPosition over a byte-exact file and caller buffer, with the OS objects it holds | `VFSFile.cpp` 9-341 |
| `MCVFSFile` | Bytes {0,1}, allocation granularity 2, files of up to 3 bytes, a 2-byte caller buffer | — |
| `VFSBuilder` | VFSArchiver's main and its jobs running in parallel: config acceptance, output creation, the directory walk with strip/rewrite/normalise/ignore/skip/visual-prefix, entry failures and the abort, a walk exception with tbb's cancellation and main's catch, the end of a job, the final listing and exit | `main.cpp` 42-50, 184-202, 232-470 |
| `MCVFSBuilder` | Three jobs over small directories, with distinct or shared output files | — |
| `VFSIntegrity` | VFSTest's `main`: the build loop of `CreateTestArchive`, the load, `CheckSpecificFileIntegrity` for each entry, the exit code; the archive as its `VFSStore` content | `main.cpp` (VFSTest) 23-62, 72-228 |
| `MCVFSIntegrity` | A test directory of two files, one of them in a subdirectory, each empty or holding one of two contents | — |

### `VFSArchive`: state and actions

* `disk` maps each record position to its record, its payload and `intact`.
  * A payload is abstract: which plaintext, whether it is LZ4, which key encrypted it, its length.
  * `intact` becomes FALSE when a later write covers a record that used to be there.
* `eof` is the file size. `diskHdr` says whether the header has been written.
* `vfsFile`, `key`, `header`, `files` and `entries` are the handle's members. `fault` means the process died: from a division by zero, or killed inside `Write`.
* Each handler holds the archive mutex, so each one is a single action. Every state change the handler makes is in that action, in source order:
  * `Write` does the same-hash early return, the codec, `Delete(index)`, the free-list scan, the append or the reuse, the record and payload write, `entries.erase` and `files.emplace`.
  * `Load` does `Unload`, the null key check, the header read, the walk, and the first-record-wins `files.insert`.
* `Create` writes the header only when `Load` fails. `Unload` zeroes the header.
* A `Load` of an empty file fails at the header read but keeps `m_vfsFile` set (line 96 resets only the parameter).
* The byte layout is kept exactly as the code computes it:
  * `ALIGNTO` as written (line 13) gives `firstEntry` and an appended slot's `numBlocks`.
  * The scan (lines 396-404) keeps the first of equally small fitting slots.
  * `Walk` follows `offset - sizeof(SFileEntry) + numBlocks * bytesPerBlock` (line 120).
* The codec is modelled by its sizes:
  * LZ4 output size is a per-plaintext constant, and 0 means failure. The fallback test is against `LZ4_compressBound` (line 354).
  * AES output is PKCS-padded to the next whole block, strictly growing.
  * `Decode` returns the plaintext only when the payload is decoded with the stages and key it was encoded with. Anything else is garbage, which the hash check rejects.
* `RawBlocks` are the slots another archive's `ReadRawData` can hand to `WriteRawData`.
* Crashes. `Write`'s disk writes are separate system calls (lines 389, 412, 431, 432), and nothing journals them.
  * `WriteCrash` kills the process after the writes up to a crash point in `CrashPoints`.
  * `"free"` is after `Delete`'s record rewrite, and `"extend"` after the append path's block of uninitialised `malloc` bytes at end of file.
  * `"record"` is after the new `SFileEntry`, which lies over the reused slot's old payload or over those bytes. After the payload, the `Write` is complete.
  * `Restart` starts a new process with a fresh handle over the same file.
  * The uninitialised block is `Junk`, a record `Load` cannot use (`intact` FALSE), so `Load` keeps the records before it. In the code, `Load` parses the bytes as records. A zero-filled block is walked 551 bytes at a time, because `SetPosition` to the negative target fails, and the walk meets the next record only by coincidence.
* `DiskContent`, what a reload makes readable, counts an entry only when its payload `Matches` its record: same plaintext hash, size and stages. After a `"record"` crash that is not so, and `Open`'s hash check is what rejects the entry.
* `DiskContent` binds the walk's results with a set comprehension. The refinement primes `DiskContent`, and TLC re-evaluates operator arguments at every use inside a primed expression; without the binding the check is about 30 times slower.

### `VFSIntegrity`: state and actions

* `pc` is the program position: setup, create, load, check or done. `dir` is the test directory, chosen in `Init`.
* `archive` is the archive's content, changed through `VFSStore`'s `Put`. `archive_safety` shows that `VFSArchive` implements `VFSStore`.
* `infos` holds the entries `EnumerateFiles` returned and that are still to check; `unpacked` holds the files written under `test_unpacked`.
* `showNames` is the `SHOW_FILE_NAMES` build option. Nothing under `src` defines it, so the model lets either build run.
* `CreateArchive` is `CreateTestArchive` up to its loop: it deletes `test.vpf`, creates the file and the archive, and sets the key. A failed `Create` ends `main` with `EXIT_FAILURE`.
* `AddEntry` is one iteration of the directory loop: a zero-length file is skipped, any other is written. `AddEntryFails` is an entry that cannot be opened or read, which ends `main` with `EXIT_FAILURE`.
* `LoadAndEnumerate` is main's `LoadArchive` (a null handle ends with `EXIT_FAILURE`), `CreateDirectoryW` and `EnumerateFiles`.
* `CheckEntry` is `CheckSpecificFileIntegrity`:
  * it opens the entry by its recorded filename, which is empty without `SHOW_FILE_NAMES`;
  * it creates `test_unpacked\<name>`, which fails for a nested name because only the top directory exists;
  * it writes the bytes, and only logs each failure.
* `CheckDone` is `main` returning `EXIT_SUCCESS`.

### `VFSPack`: state and actions

* `archiveNames`, `registered` (name → path), `archiveKeys` (absolute path → key) and `archives` (the sequence of loaded handles, each a file and its key) are the pack's members.
* `AbsPath` is `GetAbsolutePath`: two names can resolve to one file.
* `LoadArchive(g)` is the whole handler: the same-name check compares the stored absolute path with the *given* name, then it creates a handle, loads it with the key registered for the path, and appends it.
* `LoadRegistiredArchives` is split: `LoadAllStart` takes the snapshot of `m_archiveNames` and `m_registeredArchives` that `concurrency::parallel_for` iterates; each `LoadTask(j)` is one task's `LoadArchive` under the pack mutex, in any order; `LoadAllEnd` returns when no task is left. A failed load throws out of the batch (`aborted`), and `Restart` is a new process.
* `batch` records the order the tasks appended archives in, so the overlay order can be stated.

### `VFSFile`: state and actions

* `exists` and `disk` are the file. `fileType`, `fileHandle`, `mapHandle`, `mappedData`, `rawData` (null, the view, the heap copy or the caller's memory), `rawOff`, `rawSize`, `currPos` and `memOwner` are the members. `viewStart`/`viewLen` say which bytes of the file the view holds. `filePtr` is the OS file pointer.
* `live` is the set of OS objects alive (file handle, mapping, view, heap buffer). `Freed` is what `Close` releases, so a release of an object not alive sets `fault`, and a free of borrowed memory sets `callerFreed`.
* Every opener starts with `Close()`, so its primed state is computed from `LiveAfterClose` and the other after-close values.
* `Read` in a buffer mode copies `min((uint32)(m_rawSize - m_currPos), size)` bytes from `m_rawData[m_currPos]`. A byte outside the backing bytes is `Garbage`.
* `CreateFileW` may fail (sharing violations with other handles of the process). `CreateFileMapping` fails on an empty file, `MapViewOfFile` past the end of the file, and `malloc` may return null.

### `PropertyList`: the functions

* A text is a sequence of one-character strings. `Tab`, `LF`, `CR` and `Quote` name the characters the parser tests.
* `FindFrom` is `std::wstring::find`. `SplitFrom` and `ReplaceFrom` are the loops of `SplitString` and `ReplaceString`, and `Emplace` is `std::map::emplace` (the first key wins).
* `ParseLines` is the loop of lines 230-262. Empty lines are skipped first, and the line number still counts them. Line 0 is the magic and line 1 the CRC. Every later line must split on TAB TAB into exactly two fields.
* `GeneratePropertyList` picks files by extension. Any unreadable, empty or unparsable file gives `NoDoc`: nothing is written, and main has already deleted the old list. The objects come in path order, because `propertyFiles` is a `std::map`.
* `GetPropertyObject` compares `parsed["crc"]` with `std::to_string(crc)` (`ToDecimal`), so an object without `crc` has the empty string.
* `GeneratePropertyList`, `LoadPropertyList` and `GetPropertyObject` are modelled but not checked by a run. A lookup-versus-reference check would restate the `std::map` order in the code, so it was dropped.
* The reference `ParseRef` cuts the text at every LF and reads the second line as `crc` and every later non-empty line as key TAB TAB value, with the first definition of a key winning. It is written with sets and `Min`, not loops.

### `VFSBuilder`: state and actions

* `pc[j]` is where job `j` is: `idle`, `walk` (output open, iterating `cursor[j]` over the directory), `done`, `failed` (an exception left its body) or `cancelled` (tbb skipped it after a throw).
* `main` is main's position (`config`, `build`, `exited`); `thrown` says an exception escaped a job; `exitCode` is the status the process ends with (-1 while running, `EXIT_FAILURE` 1, 3 for `abort()`, 0 for `EXIT_SUCCESS` and for `return false`).
* `InitializeConfig` accepts the job list or returns `EXIT_FAILURE`; the field-by-field JSON validation is not modelled, only its two outcomes.
* `WalkThrows(j)` is `recursive_directory_iterator` throwing (line 266). `CancelJob(j)` is tbb not running a job whose body had not started. `CatchException` is main's `catch` (lines 429-438), enabled once no job is still walking. `ListAndFinalize` is the listing loop, `FinalizeVFSPack` and `return EXIT_SUCCESS` (lines 440-470).
* `holders` is the set of jobs holding an output file open for writing; `content[o]` is the archive content of output file `o` as a map from logical name to data (what `VFSStore` says an archive holds).
* `CreateOutput(j)` is `CreateFile(CREATE_ALWAYS, FILE_SHARE_READ)`: it truncates the file when no other job holds it. It can fail, always while another job holds it and otherwise on any I/O error, and the failure aborts the process (line 379).
* `ProcessEntry(j)` is one iteration of the recursive directory walk: strip the root, apply the rewrites, normalise, ignore or skip empty files (`Kept`), prefix the visual directory, `Write`. Opening, reading or writing an entry that is not ignored may fail instead, and the job aborts. `EntryName` tabulates `LogicalName` for every source entry, because it depends only on the job list.
* `LogicalName` folds the rewrites with `FindAndReplace` (first occurrence only, as `FindAndReplaceString` does). The rewrites are `ConfigPatches` of the declared object: sorted by `KeyLess` (byte order of the key), with the last of duplicate keys.
* The reference `SpecArchive` computes each job's archive from the spec's words (prefix strip, rewrite at the leftmost occurrence, last write of a name wins).

## Runs

| Run | cfg | Expect | Shows |
|---|---|---|---|
| `archive_safety` | `MCVFSArchive.cfg` | pass | Every sequence of the handlers, and of crashes inside `Write` after `Delete`'s rewrite or after the new record followed by a restart, keeps the file walkable (`LayoutWalkable`). Memory always equals what a fresh `Load` would read (`MemoryMatchesDisk`). `Open` returns exactly what a reload can read, and nothing for a record left over another payload (`OpenReturnsStored`). The scan is best-fit with first-wins ties (`ScanIsBestFit`). The file grows only when no free slot fits (`SpaceReuse`). The archive implements `VFSStore` (`StoreSpec`, a refinement via `INSTANCE ... WITH store <- DiskContent`). |
| `archive_failed_load_write` | `MCVFSArchive_fault.cfg` | violation | `Load` of an empty writeable file fails but keeps `m_vfsFile`. A following `Write` then divides by `bytesPerBlock = 0`. This contradicts spec §4.4. |
| `pack_registry` | `MCVFSPack.cfg` | pass | Every interleaving of the registry calls, `LoadRegistiredArchives` and its parallel load tasks (the abort on a failed load included) keeps the registry well-typed (`TypeOK`). The run exercises every action that `pack_overlay_order` relies on. |
| `pack_overlay_order` | `MCVFSPack_LastRegisteredSearchedFirst.cfg` | violation | The parallel loads append in any order, so the file `Open` finds first is not the last registered one (spec §5). |
| `file_resources` | `MCVFSFile.cfg` | pass | Every OS object a handle acquires is released exactly once, and a borrowed `Assign` buffer is never freed (`ResourcesTracked`); no Read returns more than asked (`TypeOK`). |
| `file_map_offset` | `MCVFSFile_map.cfg` | violation | `Map` at an unaligned offset exposes the file from the rounded-down offset (lines 140, 152). `ReadRawData` maps at the payload offset, so it copies the wrong bytes and `CopyArchive` writes corrupt slots. |
| `builder_jobs` | `MCVFSBuilder.cfg` | pass | With distinct outputs, every interleaving of three jobs leaves each finished output equal to `SpecArchive` (`FinishedOutputIsJob`). This holds with config rejection, entry I/O failures and a walk exception in the run. |
| `builder_shared_output` | `MCVFSBuilder_shared.cfg` | violation | Two jobs with one output file: after the first finishes, the second's `CREATE_ALWAYS` truncates it and its files are gone. The config check (line 144) only rejects files that already exist. |
| `builder_exit_status` | `MCVFSBuilder_exit.cfg` | violation | A job's directory walk throws. tbb cancels the jobs not started, and main's `catch` does `return false` (line 432), which is exit status 0. So the archiver reports success with a truncated archive and two unwritten ones, and skips `FinalizeVFSPack` (`SuccessMeansArchivesBuilt`, spec §6.3 and §7). |
| `builder_patch_order` | `MCVFSBuilder_patches.cfg` | violation | Spec §5 (b) applies rewrites "in declaration order" (§6.2: "ordered substring rewrites"). `InitializeConfigFile` reads them from an `nlohmann::json` object, a `std::map`, so they run in key order. With `b→a` declared before `a→b`, job `j2` stores both files under `aa` instead of `ab` (`FinishedOutputIsJob`). |
| `text_algorithms` | `MCTextOps.cfg` | pass | `WildcardMatch` equals the glob reference on all inputs of length ≤ 4 (`MatchesGlob`). The property-file parser accepts exactly the files of the format and yields their properties (`ParseMatchesFormat`). |
| `integrity_success` | `MCVFSIntegrity.cfg` | violation | The checker returns `EXIT_SUCCESS` having unpacked nothing: without `SHOW_FILE_NAMES` every `Open` looks up the empty name, and with it a file in a subdirectory cannot be created (`SuccessMeansVerified`, spec §4.7). |

Every property of a pass run has a mutant: a plausible bug in the code it covers, which TLC then finds. They are listed in `PROJECT.json`.

## Bounds

* Two paths with indices 1 and 2, two plaintexts of sizes 1 and 3, and two keys.
* Flags are all four LZ4/AES combinations, and there is one version.
* Page size 4, header size 3 (so `firstEntry` = 4), record size 1, AES block 2, and the file is at most 16 bytes.
* `CrashPoints` is {free, record} in `archive_safety`. With extend in the pass run, `LayoutWalkable` and `OpenReturnsStored` fail at once. The fault run has no crashes, so its violation is the division by zero alone.
* These are enough for:
  * a reused slot, a too-small free slot and an appended slot;
  * a payload that exactly fills a block (size 3 + record 1 = 4);
  * AES padding, both key outcomes, and `Load`/`Create` on empty and on written files;
  * a record left over an old payload of the same size and stages (`d1` and `d2` both LZ4 to 2 bytes), which only the hash check rejects.
* Pack: three names, two files, `MaxNames` 2 registrations and `MaxArchives` 3 handles: enough for a name and its alias registered together, both orders of two parallel loads, a wrong-key failure and a reload.
* File: granularity 2 with offsets 0, 1 and 3 gives aligned and unaligned maps, a view shorter than the file and one past the first granule. Sizes 0..2 include `Map(…, 0)` and an empty `Assign`, and `MaxPos` 4 lets a cursor go past a 3-byte file.
* Builder: three jobs, the third with an empty source file and an ignore of `?`; the first with two rewrites declared in key order and an ignore of `*a`; directories `a` and `b`, visual directories with and without a trailing separator and empty. A shared-output cfg maps two jobs to one file, and the patch-order cfg gives `j2` two rewrites declared out of key order. With three jobs, a throw happens while each other job is idle (so it is cancelled or still started), walking or done.
* Integrity: two files, one nested, with every mix of empty and non-empty contents and both builds.
* Wildcard: strings of length ≤ 4 cover `*` at the start, middle and end, `**`, and `?` at the end of the string.
* Property list: the line bodies are empty, the magic, a CRC with and without a trailing CR, and entries. The entries are well formed, quoted, with three tabs, with one tab, with a second TAB TAB, and a `crc` key. Up to four of them make every position an empty or bad line can take, relative to the magic and CRC lines.
* TLC integers are 31-bit, so the `0xffffffff` scan sentinel is `2147483647`. Every sum the model forms stays far below it.

## Fairness

No module assumes fairness, and only safety is checked.

* The archive's handlers and the integrity checker's steps are called by a single thread of the application, and a crash is never obliged to happen.
* `MCTextOps` checks pure functions, so it has no steps to be fair to.
* In `VFSPack` and `VFSBuilder` no step waits for another: the models have no lock that a holder keeps, and a failed `CreateFile` aborts instead of waiting. Under weak fairness of the load tasks or of the jobs, that a batch ends or that the archiver exits would hold by the shape of the model, so it is not checked.

## Not modelled, and why

* LZ4 and AES byte transforms, xxhash and name normalisation. They are black boxes, represented by constant maps.
* Win32 file sharing (`Open` reopens the archive by name, line 260) and the exception helper.
* Logging. Its one lifecycle rule is that a second `Initialize` aborts in `spdlog::register_logger`, and nothing under src initializes twice. No property depends on what is logged.
* `LoadPropertyFile` only reads a file into a string. The wide-to-narrow string copies are the identity on the ASCII text the property-list model uses.
* `EnumerateFiles` (a read without the mutex) and `Exists` (a lookup) are not modelled yet.
* VFSArchiver's `InitializeConfigFile` JSON validation field by field: the model keeps its two outcomes (accept, or `EXIT_FAILURE`). The final listing only writes a log and is part of `ListAndFinalize`.

## Plan

Done: `VFSPack`, `VFSFile`, `VFSBuilder`, `Wildcard`, `PropertyList`, the crash model in `VFSArchive`, and `VFSIntegrity`. Next, in order of importance:

1. **`VFSCopy`**: two archive instances with `ReadRawData`, including `Map`'s offset rounding (VFSFile.cpp:140-152), and `CopyArchive` (it enumerates the destination after clearing it).
2. `EnumerateFiles` racing a `Write` (it reads `files` without the mutex).
3. A nondeterministic failing `Encrypt` (CryptHelper.cpp:52 returns an empty buffer, which `Write` stores).

----------------------------- MODULE DirectBuild -----------------------------
(***************************************************************************)
(* The file-backed builders write_qwt256_u32_direct (bytes/direct.rs) and  *)
(* write_hqwt256_u32_direct (bytes/direct_huff.rs) at the level of the     *)
(* files they touch.  Several threads (Builders) of several processes      *)
(* (Procs) build containers concurrently on one file system.  A build      *)
(*                                                                         *)
(*   - checks its input, takes an id from the process-wide counter         *)
(*     DIRECT_BUILD_ID and creates the workspace directory                 *)
(*     <scratch>/qwt-direct-<pid>-<id>, taking another id while that name  *)
(*     is in use;                                                          *)
(*   - creates <output>.<kind>-direct-<pid>-<id>.tmp with create_new;      *)
(*   - per level, writes level files and buckets in the workspace, appends *)
(*     the level files to the tmp file and removes them;                   *)
(*   - writes the header, syncs, renames the tmp file to the output;       *)
(*   - on every return path drops OutputGuard (removes the tmp file unless *)
(*     keep) and then DirectWorkspace (removes the directory).             *)
(*                                                                         *)
(* Any fallible step may fail, a process may be killed, the machine may    *)
(* lose power, and the source file may be rewritten by somebody else.      *)
(* A file is abstracted to what it holds: which levels have been appended, *)
(* how many rows they encode, whether the header is in and whether it has  *)
(* been synced since the last write.  An inode is named by the serial      *)
(* number of the build that created it, 0 stands for "no such file".       *)
(***************************************************************************)
EXTENDS Integers, FiniteSets

CONSTANTS
  Builders,        \* threads that call a direct builder
  Procs,           \* processes
  ProcOf,          \* [Builders -> Procs]: the process a thread belongs to
  Pids,            \* process ids as the operating system reports them
  PidOf,           \* [Procs -> Pids]: std::process::id()
  Outputs,         \* output paths
  Scratches,       \* scratch parents
  SourceRows,      \* row counts the source file may have
  Jobs,            \* the calls the threads make: kind, paths, rows, levels
  MaxLevels,       \* bound: most levels of a container
  MaxBuilds,       \* bound: builds started in a behaviour
  MaxId,           \* bound: largest value of DIRECT_BUILD_ID handed out
  MaxFaults,       \* bound: process kills and power losses in a behaviour
  MaxSourceWrites  \* bound: times the source file is rewritten

\* The two builders; the kind is part of the tmp file's name.
Kinds == {"qwt", "hqwt"}

ASSUME ConstantsAssumption ==
  /\ ProcOf \in [Builders -> Procs]
  /\ PidOf \in [Procs -> Pids]
  /\ SourceRows \subseteq Nat
  /\ MaxLevels \in Nat
  /\ MaxBuilds \in Nat \ {0}
  /\ MaxId \in Nat
  /\ Jobs # {}
  /\ Jobs \subseteq [kind: Kinds, output: Outputs, scratch: Scratches,
                     rows: SourceRows, levels: 0..MaxLevels]
  /\ \A j \in Jobs : (j.rows = 0) <=> (j.levels = 0)
  /\ MaxFaults \in Nat
  /\ MaxSourceWrites \in Nat

Ids == 0..MaxId
Serials == 1..MaxBuilds

Dirs == Scratches \X Pids \X Ids
TmpNames == Outputs \X Kinds \X Pids \X Ids

\* A scratch file is one of the six level files (taken together) or the
\* bucket files (taken together) of a level.
ScratchFiles == Dirs \X {"level", "bucket"} \X (0..MaxLevels)

\* A container file: the job it is for, the levels appended so far, the rows
\* those levels encode, and whether the header has been written and the file
\* synced after its last write.
Files == [job: Jobs, levels: 0..MaxLevels, rows: SourceRows,
          header: BOOLEAN, synced: BOOLEAN]

VARIABLES
  pc,        \* [Builders -> where the thread is in the call]
  job,       \* [Builders -> the call's arguments]
  level,     \* [Builders -> the loop variable `level`]
  serial,    \* [Builders -> the build's serial number, names its inode]
  build_id,  \* [Builders -> the id taken from DIRECT_BUILD_ID]
  keep,      \* [Builders -> OutputGuard.keep]
  seen,      \* [Builders -> rows read from the source set of this level]
  next_id,   \* [Procs -> DIRECT_BUILD_ID of the process]
  started,   \* number of builds started so far
  source,    \* rows in the source file now
  writes,    \* times the source file has been rewritten
  dirs,      \* workspace directories that exist
  files,     \* scratch files that exist
  tmps,      \* [TmpNames -> inode or 0]
  outs,      \* [Outputs -> inode or 0]
  inode,     \* [Serials -> content of the container file]
  orphans,   \* history: paths whose build died without returning
  faults     \* process kills and power losses so far

callVars == <<pc, job, level, serial, build_id, keep, seen>>
fsVars == <<dirs, files, tmps, outs, inode>>
envVars == <<source, writes, orphans, faults>>
vars == <<callVars, next_id, started, source, writes, dirs, files, tmps, outs,
          inode, orphans, faults>>

\* Where a call can be.  "idle" is outside the builder; the others are named
\* for the step that comes next.
Steps == {"idle", "frequencies", "fetch_id", "create_dir", "open_tmp",
          "encoder_new", "partition", "append", "remove_level",
          "header", "sync_all", "rename", "drop_guard", "drop_workspace"}

\* The steps between create_dir's success and the end of the call: the build
\* owns a workspace directory.
InWorkspace == Steps \ {"idle", "frequencies", "fetch_id", "create_dir"}

\* The steps at which the build has a handle on a tmp file it created.
Writing == {"encoder_new", "partition", "append", "remove_level",
            "header", "sync_all", "rename"}

pid(b) == PidOf[ProcOf[b]]
workspace(b) == <<job[b].scratch, pid(b), build_id[b]>>
\* Mutant: the build id is not part of the name.
tmp_path_mutant(b) == <<job[b].output, job[b].kind, pid(b), 0>>
tmp_path(b) == <<job[b].output, job[b].kind, pid(b), build_id[b]>>

\* Mutant: the loop goes round once too often.
needs_partition_mutant(b) == level[b] < job[b].levels
needs_partition(b) == level[b] + 1 < job[b].levels

\* The source set of this level: the caller's file at level 0 (not owned),
\* the buckets of the level before otherwise (owned).
remove_owned(b) ==
  IF level[b] = 0 THEN {} ELSE {<<workspace(b), "bucket", level[b] - 1>>}

\* Mutant: the level files stay.
remove_level_files_mutant(b) == {}
remove_level_files(b) == {<<workspace(b), "level", level[b]>>}

FilesOf(d) == {f \in files : f[1] = d}

\* Sizes in bytes.  scratch_upper_bound is what Begin compares with
\* budget.scratch_bytes; aux_upper_bound is its share for the level files.
div_ceil(n, d) == (n + d - 1) \div d
aux_upper_bound(rows) ==
  64 * div_ceil(rows, 256) + 64 * ((rows + 2048) \div 2048)
    + 4 * (div_ceil(rows, 8192) + 8)
scratch_upper_bound(rows, levels) ==
  IF levels = 0 THEN 0
  ELSE 4 * rows + (IF levels > 1 THEN 4 * rows ELSE 0) + aux_upper_bound(rows)

EmptyFile(j) ==
  [job |-> j, levels |-> 0, rows |-> j.rows, header |-> FALSE, synced |-> FALSE]

\* A file a reader can open: header in, all levels in, and the levels encode
\* the number of rows the header declares.
Complete(f) == f.header /\ f.levels = f.job.levels /\ f.rows = f.job.rows

Goto(b, step) == pc' = [pc EXCEPT ![b] = step]

\* The locals of a call that is not running.
NoJob == CHOOSE j \in Jobs : TRUE
NoRows == CHOOSE n \in SourceRows : TRUE

\* The calls of the builders in B end and their locals are gone.
End(B) ==
  /\ pc' = [b \in Builders |-> IF b \in B THEN "idle" ELSE pc[b]]
  /\ job' = [b \in Builders |-> IF b \in B THEN NoJob ELSE job[b]]
  /\ level' = [b \in Builders |-> IF b \in B THEN 0 ELSE level[b]]
  /\ serial' = [b \in Builders |-> IF b \in B THEN 1 ELSE serial[b]]
  /\ build_id' = [b \in Builders |-> IF b \in B THEN 0 ELSE build_id[b]]
  /\ keep' = [b \in Builders |-> IF b \in B THEN FALSE ELSE keep[b]]
  /\ seen' = [b \in Builders |-> IF b \in B THEN NoRows ELSE seen[b]]

------------------------------------------------------------------------------
(* The call, one action per step that touches shared state.                *)

\* The checks before the workspace exists: the source holds exactly `rows`
\* rows (an early return otherwise, which changes nothing), the buffers fit.
Begin(b) ==
  /\ pc[b] = "idle"
  /\ started < MaxBuilds
  /\ \E j \in Jobs :
       /\ source = j.rows
       /\ job' = [job EXCEPT ![b] = j]
       /\ Goto(b, IF j.kind = "hqwt" THEN "frequencies" ELSE "fetch_id")
  /\ started' = started + 1
  /\ serial' = [serial EXCEPT ![b] = started + 1]
  /\ level' = [level EXCEPT ![b] = 0]
  /\ keep' = [keep EXCEPT ![b] = FALSE]
  /\ UNCHANGED <<build_id, seen, next_id, fsVars, envVars>>

\* direct_huff only: the frequency pass reads `rows` rows and then looks for a
\* trailing one.  Both failures return before anything has been created.
FrequencyPass(b) ==
  /\ pc[b] = "frequencies"
  /\ IF job[b].rows = 0 \/ source = job[b].rows
       THEN Goto(b, "fetch_id")
            /\ UNCHANGED <<job, level, serial, build_id, keep, seen>>
       ELSE End({b})
  /\ UNCHANGED <<next_id, started, fsVars, envVars>>

\* DIRECT_BUILD_ID.fetch_add(1).
FetchBuildId(b) ==
  /\ pc[b] = "fetch_id"
  /\ next_id[ProcOf[b]] <= MaxId
  /\ build_id' = [build_id EXCEPT ![b] = next_id[ProcOf[b]]]
  /\ next_id' = [next_id EXCEPT ![ProcOf[b]] = @ + 1]
  /\ Goto(b, "create_dir")
  /\ UNCHANGED <<job, level, serial, keep, seen, started, fsVars, envVars>>

\* Where AlreadyExists sends the loop.  Mutant: the same name is tried again.
retry_mutant == "create_dir"
retry == "fetch_id"

\* create_dir: AlreadyExists goes round the loop for another id.
CreateDir(b) ==
  /\ pc[b] = "create_dir"
  /\ IF workspace(b) \in dirs
       THEN Goto(b, retry) /\ UNCHANGED dirs
       ELSE dirs' = dirs \cup {workspace(b)} /\ Goto(b, "open_tmp")
  /\ UNCHANGED <<job, level, serial, build_id, keep, seen, next_id, started,
                 files, tmps, outs, inode, envVars>>

\* create_new refuses a name that is taken.
name_taken(b) == tmps[tmp_path(b)] # 0

\* OutputGuard is armed, then the tmp file is opened with create_new: if the
\* name is taken the call returns through the guard.  set_len and, for HQWB,
\* write_code_tables follow on the fresh file.
OpenTmp(b) ==
  /\ pc[b] = "open_tmp"
  /\ IF name_taken(b)
       THEN Goto(b, "drop_guard") /\ UNCHANGED <<tmps, inode>>
       ELSE /\ tmps' = [tmps EXCEPT ![tmp_path(b)] = serial[b]]
            /\ inode' = [inode EXCEPT ![serial[b]] = EmptyFile(job[b])]
            /\ Goto(b, IF job[b].levels = 0 THEN "header" ELSE "encoder_new")
  /\ UNCHANGED <<job, level, serial, build_id, keep, seen, next_id, started,
                 dirs, files, outs, envVars>>

\* LevelEncoder::new creates the level files, the partition its buckets.
EncoderNew(b) ==
  /\ pc[b] = "encoder_new"
  /\ files' = files \cup {<<workspace(b), "level", level[b]>>}
        \cup (IF needs_partition(b) THEN {<<workspace(b), "bucket", level[b]>>} ELSE {})
  /\ Goto(b, "partition")
  /\ UNCHANGED <<job, level, serial, build_id, keep, seen, next_id, started,
                 dirs, tmps, outs, inode, envVars>>

\* `seen != rows` rejects the input.  Mutant: the count is not compared.
rows_agree_mutant(b, n) == TRUE
rows_agree(b, n) == n = job[b].rows

\* Every file of the source set is opened, its length taken and its rows read,
\* pushed to the encoder and written to the buckets; `seen` counts them.  At
\* level 0 that is the caller's file as it is now.
Partition(b) ==
  /\ pc[b] = "partition"
  /\ seen' = [seen EXCEPT ![b] = IF level[b] = 0 THEN source ELSE @]
  /\ Goto(b, IF rows_agree(b, seen'[b]) THEN "append" ELSE "drop_guard")
  /\ UNCHANGED <<job, level, serial, build_id, keep, next_id, started, fsVars,
                 envVars>>

\* What append_file and write_header_and_directory make of a container file.
append_file(f, n, rows) == [f EXCEPT !.levels = n, !.rows = rows, !.synced = FALSE]
write_header(f) == [f EXCEPT !.header = TRUE, !.synced = FALSE]

\* encoder.finish flushes the level files, whose size is within the bound
\* checked at the start, so the second budget check passes; then append_file
\* copies the data, superblock and select files.
AppendLevel(b) ==
  /\ pc[b] = "append"
  /\ inode' = [inode EXCEPT ![serial[b]] = append_file(@, level[b] + 1, seen[b])]
  /\ Goto(b, "remove_level")
  /\ UNCHANGED <<job, level, serial, build_id, keep, seen, next_id, started,
                 dirs, files, tmps, outs, envVars>>

\* current.remove_owned(), remove_level_files, and the loop to the next level.
RemoveLevel(b) ==
  /\ pc[b] = "remove_level"
  /\ files' = files \ (remove_owned(b) \cup remove_level_files(b))
  /\ level' = [level EXCEPT ![b] = @ + 1]
  /\ Goto(b, IF needs_partition(b) THEN "encoder_new" ELSE "header")
  /\ UNCHANGED <<job, serial, build_id, keep, seen, next_id, started, dirs, tmps,
                 outs, inode, envVars>>

WriteHeaderAndDirectory(b) ==
  /\ pc[b] = "header"
  /\ inode' = [inode EXCEPT ![serial[b]] = write_header(@)]
  /\ Goto(b, "sync_all")
  /\ UNCHANGED <<job, level, serial, build_id, keep, seen, next_id, started,
                 dirs, files, tmps, outs, envVars>>

\* What sync_all makes of a file.  Mutant: no sync.
sync_all_mutant(f) == f
sync_all(f) == [f EXCEPT !.synced = TRUE]

\* set_len and sync_all, then the handle is closed.
SyncAll(b) ==
  /\ pc[b] = "sync_all"
  /\ inode' = [inode EXCEPT ![serial[b]] = sync_all(@)]
  /\ Goto(b, "rename")
  /\ UNCHANGED <<job, level, serial, build_id, keep, seen, next_id, started,
                 dirs, files, tmps, outs, envVars>>

\* rename(tmp, output) and keep = true; a missing tmp file is an error.
Rename(b) ==
  /\ pc[b] = "rename"
  /\ IF tmps[tmp_path(b)] = 0
       THEN UNCHANGED <<tmps, outs, keep>>
       ELSE /\ outs' = [outs EXCEPT ![job[b].output] = tmps[tmp_path(b)]]
            /\ tmps' = [tmps EXCEPT ![tmp_path(b)] = 0]
            /\ keep' = [keep EXCEPT ![b] = TRUE]
  /\ Goto(b, "drop_guard")
  /\ UNCHANGED <<job, level, serial, build_id, seen, next_id, started, dirs,
                 files, inode, envVars>>

\* OutputGuard::drop removes the tmp file unless the build succeeded.  Mutant:
\* it never does.
guard_removes_mutant(b) == FALSE
guard_removes(b) == ~keep[b]

DropGuard(b) ==
  /\ pc[b] = "drop_guard"
  /\ IF guard_removes(b) THEN tmps' = [tmps EXCEPT ![tmp_path(b)] = 0]
                         ELSE UNCHANGED tmps
  /\ Goto(b, "drop_workspace")
  /\ UNCHANGED <<job, level, serial, build_id, keep, seen, next_id, started,
                 dirs, files, outs, inode, envVars>>

\* DirectWorkspace::drop, then the call returns.
DropWorkspace(b) ==
  /\ pc[b] = "drop_workspace"
  /\ dirs' = dirs \ {workspace(b)}
  /\ files' = files \ FilesOf(workspace(b))
  /\ End({b})
  /\ UNCHANGED <<next_id, started, tmps, outs, inode, envVars>>

\* An I/O error or a rejected input at a fallible step: `?` returns, and the
\* guards that exist by then are dropped.  Removals cannot fail the call.
FailEarly(b) ==
  /\ pc[b] \in {"frequencies", "create_dir"}
  /\ End({b})
  /\ UNCHANGED <<next_id, started, fsVars, envVars>>

FailLate(b) ==
  /\ pc[b] \in (Writing \ {"remove_level"}) \cup {"open_tmp"}
  /\ Goto(b, "drop_guard")
  /\ UNCHANGED <<job, level, serial, build_id, keep, seen, next_id, started,
                 fsVars, envVars>>

------------------------------------------------------------------------------
(* The environment.                                                        *)

\* The paths a set of builds would have cleaned up.
Abandoned(B) ==
  {workspace(b) : b \in {c \in B : pc[c] \in InWorkspace}} \cup
  {tmp_path(b) : b \in {c \in B : pc[c] \in InWorkspace}}

\* Process p is killed: no destructor runs, its counter restarts from zero
\* when it comes back, and it may come back under the same pid.
Kill(p) ==
  /\ faults < MaxFaults
  /\ faults' = faults + 1
  /\ orphans' = orphans \cup Abandoned({b \in Builders : ProcOf[b] = p})
  /\ End({b \in Builders : ProcOf[b] = p})
  /\ next_id' = [next_id EXCEPT ![p] = 0]
  /\ UNCHANGED <<started, source, writes, fsVars>>

\* Power fails: every process dies, and a file that has not been synced since
\* its last write may come back without its data.
PowerLoss ==
  /\ faults < MaxFaults
  /\ faults' = faults + 1
  /\ orphans' = orphans \cup Abandoned(Builders)
  /\ End(Builders)
  /\ next_id' = [p \in Procs |-> 0]
  /\ \E torn \in SUBSET {s \in Serials : ~inode[s].synced} :
       inode' = [s \in Serials |->
                   IF s \in torn THEN EmptyFile(inode[s].job) ELSE inode[s]]
  /\ UNCHANGED <<started, source, writes, dirs, files, tmps, outs>>

\* Somebody rewrites the source file with another number of rows.
SourceRewritten ==
  /\ writes < MaxSourceWrites
  /\ writes' = writes + 1
  /\ source' \in SourceRows \ {source}
  /\ UNCHANGED <<callVars, next_id, started, fsVars, orphans, faults>>

------------------------------------------------------------------------------
Init ==
  /\ pc = [b \in Builders |-> "idle"]
  /\ job = [b \in Builders |-> NoJob]
  /\ level = [b \in Builders |-> 0]
  /\ serial = [b \in Builders |-> 1]
  /\ build_id = [b \in Builders |-> 0]
  /\ keep = [b \in Builders |-> FALSE]
  /\ source \in SourceRows
  /\ seen = [b \in Builders |-> NoRows]
  /\ next_id = [p \in Procs |-> 0]
  /\ started = 0
  /\ writes = 0
  /\ dirs = {}
  /\ files = {}
  /\ tmps = [n \in TmpNames |-> 0]
  /\ outs = [o \in Outputs |-> 0]
  /\ inode = [s \in Serials |-> EmptyFile(NoJob)]
  /\ orphans = {}
  /\ faults = 0

Build(b) ==
  \/ FrequencyPass(b)
  \/ FetchBuildId(b)
  \/ CreateDir(b)
  \/ OpenTmp(b)
  \/ EncoderNew(b)
  \/ Partition(b)
  \/ AppendLevel(b)
  \/ RemoveLevel(b)
  \/ WriteHeaderAndDirectory(b)
  \/ SyncAll(b)
  \/ Rename(b)
  \/ DropGuard(b)
  \/ DropWorkspace(b)

Fail(b) == FailEarly(b) \/ FailLate(b)

Next ==
  \/ \E b \in Builders : Begin(b)
  \/ \E b \in Builders : Build(b)
  \/ \E b \in Builders : Fail(b)
  \/ \E p \in Procs : Kill(p)
  \/ PowerLoss
  \/ SourceRewritten

\* A thread inside the call keeps being scheduled; nobody has to call, to
\* fail or to crash.
Fairness == \A b \in Builders : WF_vars(Build(b))

Spec == Init /\ [][Next]_vars /\ Fairness

------------------------------------------------------------------------------
(* Properties.                                                             *)

\* Every call, file and counter has its type: the level loop stays within the
\* container's levels and ids within what DIRECT_BUILD_ID has handed out.
TypeOK ==
  /\ pc \in [Builders -> Steps]
  /\ job \in [Builders -> Jobs]
  /\ level \in [Builders -> 0..MaxLevels]
  /\ serial \in [Builders -> Serials]
  /\ build_id \in [Builders -> Ids]
  /\ keep \in [Builders -> BOOLEAN]
  /\ seen \in [Builders -> SourceRows]
  /\ next_id \in [Procs -> 0..(MaxId + 1)]
  /\ started \in 0..MaxBuilds
  /\ source \in SourceRows
  /\ writes \in 0..MaxSourceWrites
  /\ dirs \subseteq Dirs
  /\ files \subseteq ScratchFiles
  /\ tmps \in [TmpNames -> 0..MaxBuilds]
  /\ outs \in [Outputs -> 0..MaxBuilds]
  /\ inode \in [Serials -> Files]
  /\ orphans \subseteq Dirs \cup TmpNames
  /\ faults \in 0..MaxFaults

\* The inductive strengthening behind the properties below.  The loop variable
\* is zero before the level loop and below the number of levels inside it.
BeforeLoop == {"frequencies", "fetch_id", "create_dir", "open_tmp"}
InLevel == {"encoder_new", "partition", "append", "remove_level"}
InLoop ==
  \A b \in Builders :
    /\ pc[b] \in BeforeLoop => level[b] = 0
    /\ pc[b] \in InLevel => level[b] < job[b].levels

\* What a build has written so far is what its position in the call says.
ProgressOf(b) ==
  /\ pc[b] = "append" => seen[b] = job[b].rows
  /\ pc[b] \in Writing =>
       /\ tmps[tmp_path(b)] = serial[b]
       /\ inode[serial[b]].job = job[b]
       /\ inode[serial[b]].rows = job[b].rows
  /\ pc[b] = "remove_level" => inode[serial[b]].levels = level[b] + 1
  /\ pc[b] \in {"header", "sync_all", "rename"} =>
       inode[serial[b]].levels = job[b].levels
  /\ pc[b] \in {"sync_all", "rename"} => inode[serial[b]].header
  /\ pc[b] = "rename" => inode[serial[b]].synced
Progress == \A b \in Builders : ProgressOf(b)

\* Running builds have inodes of their own, and ids that their process has
\* handed out once.
HasId == InWorkspace \cup {"create_dir"}
Distinct ==
  /\ \A b \in Builders :
       /\ pc[b] # "idle" => serial[b] <= started
       /\ pc[b] \in HasId => build_id[b] < next_id[ProcOf[b]]
  /\ \A b, c \in Builders : b # c =>
       /\ pc[b] # "idle" /\ pc[c] # "idle" => serial[b] # serial[c]
       /\ pc[b] \in HasId /\ pc[c] \in HasId /\ ProcOf[b] = ProcOf[c]
            => build_id[b] # build_id[c]

\* An installed inode is whole, and no running build will write to it again.
Frozen ==
  \A o \in Outputs : outs[o] # 0 =>
    /\ outs[o] <= started
    /\ Complete(inode[outs[o]]) /\ inode[outs[o]].synced
    /\ \A b \in Builders :
         pc[b] \notin {"idle", "drop_guard", "drop_workspace"} => serial[b] # outs[o]

IInv == TypeOK /\ InLoop /\ Progress /\ Distinct /\ Frozen

\* The operating system gives processes that share a file system different
\* ids, which is what makes tmp names unique.
PidsDistinct == \A p, q \in Procs : PidOf[p] = PidOf[q] => p = q

\* "The output is installed only after it is synced completely" (direct.rs,
\* write_qwt256_u32_direct): whatever runs, fails or crashes, and whoever
\* rewrites the source meanwhile, a file under an output name is whole,
\* encodes the declared number of rows and has been synced.
OutputComplete ==
  \A o \in Outputs : outs[o] # 0 =>
    Complete(inode[outs[o]]) /\ inode[outs[o]].synced

\* From create_new to rename the tmp name leads to the file the build is
\* writing: no retry, no OutputGuard of a failing build and no left-over of a
\* killed process takes it away or puts another file there.
TmpIsMine ==
  \A b \in Builders : pc[b] \in Writing => tmps[tmp_path(b)] = serial[b]

\* "all intermediate files are removed on success and failure": a workspace
\* directory or tmp file that exists belongs to a call that is still running
\* or was running in a process that died, and no scratch file outlives its
\* directory.
NoLeftovers ==
  /\ \A d \in dirs \ orphans :
       \E b \in Builders : pc[b] \in InWorkspace /\ workspace(b) = d
  /\ \A n \in TmpNames \ orphans : tmps[n] # 0 =>
       \E b \in Builders : pc[b] \in InWorkspace /\ tmp_path(b) = n
  /\ \A f \in files : f[1] \in dirs

\* Bytes a build occupies in its workspace, every level file as large as the
\* bound allows.
WorkspaceBytes(b) ==
  Cardinality({f \in FilesOf(workspace(b)) : f[2] = "bucket"}) * 4 * job[b].rows
  + Cardinality({f \in FilesOf(workspace(b)) : f[2] = "level"})
      * aux_upper_bound(job[b].rows)

\* The bound checked before the build starts covers what the build ever has
\* in its workspace at one time, so that a build with exactly that budget
\* cannot outgrow it half-way.
WorkspaceWithinBudget ==
  \A b \in Builders : pc[b] \in InWorkspace =>
    WorkspaceBytes(b) <= scratch_upper_bound(job[b].rows, job[b].levels)

\* Every call returns (or its process dies): in particular the search for an
\* unused workspace name ends.
EveryCallReturns == \A b \in Builders : (pc[b] # "idle") ~> (pc[b] = "idle")

\* The builders implement AtomicInstall: an output name goes from absent or
\* whole to whole in one step and is never emptied, torn or removed.
Containers == {j \in [kind: Kinds, rows: SourceRows, levels: 0..MaxLevels] :
                 (j.rows = 0) <=> (j.levels = 0)}
Absent == [kind |-> "absent", rows |-> 0, levels |-> 0]
Partial == [kind |-> "partial", rows |-> 0, levels |-> 0]
View(f) == IF Complete(f)
             THEN [kind |-> f.job.kind, rows |-> f.rows, levels |-> f.levels]
             ELSE Partial
installed == [o \in Outputs |-> IF outs[o] = 0 THEN Absent ELSE View(inode[outs[o]])]
Atomic == INSTANCE AtomicInstall
            WITH Outputs <- Outputs, Containers <- Containers, Absent <- Absent,
                 installed <- installed
AtomicSpec == Atomic!Spec

==============================================================================

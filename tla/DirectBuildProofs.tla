-------------------------- MODULE DirectBuildProofs --------------------------
(***************************************************************************)
(* Proofs about DirectBuild, for any number of threads, processes,         *)
(* outputs, levels, builds and faults.                                     *)
(***************************************************************************)
EXTENDS DirectBuild, FiniteSetTheorems, TLAPS

\* The locals of a call that is not running are of the right type.
LEMMA DefaultsType == NoJob \in Jobs /\ NoRows \in SourceRows
<1>1. NoJob \in Jobs
  BY ConstantsAssumption DEF NoJob
<1>2. SourceRows # {}
  BY <1>1, ConstantsAssumption
<1>3. QED
  BY <1>1, <1>2 DEF NoRows

\* The fields of a call's arguments.
LEMMA JobFields ==
  ASSUME NEW j \in Jobs
  PROVE  /\ j.kind \in Kinds /\ j.output \in Outputs /\ j.scratch \in Scratches
         /\ j.rows \in SourceRows /\ j.levels \in 0..MaxLevels
         /\ EmptyFile(j) \in Files
BY ConstantsAssumption DEF EmptyFile, Files

\* What the three writes do to a container file.
LEMMA FileWrites ==
  ASSUME NEW f \in Files
  PROVE  /\ \A n \in 0..MaxLevels, rows \in SourceRows :
              LET g == append_file(f, n, rows) IN
              /\ g \in Files /\ g.job = f.job /\ g.levels = n /\ g.rows = rows
              /\ g.header = f.header
         /\ LET g == write_header(f) IN
              /\ g \in Files /\ g.job = f.job /\ g.levels = f.levels
              /\ g.rows = f.rows /\ g.header
         /\ LET g == sync_all(f) IN
              /\ g \in Files /\ g.job = f.job /\ g.levels = f.levels
              /\ g.rows = f.rows /\ g.header = f.header /\ g.synced
BY DEF Files, append_file, write_header, sync_all

\* Names of a thread's files are names.
LEMMA NamesType ==
  ASSUME TypeOK, NEW b \in Builders
  PROVE  workspace(b) \in Dirs /\ tmp_path(b) \in TmpNames /\ ProcOf[b] \in Procs
BY ConstantsAssumption, JobFields DEF TypeOK, workspace, tmp_path, Dirs, TmpNames, pid

\* Ending calls leaves their variables well typed.
LEMMA EndType ==
  ASSUME TypeOK, NEW B, End(B)
  PROVE  /\ pc' \in [Builders -> Steps]
         /\ job' \in [Builders -> Jobs]
         /\ level' \in [Builders -> 0..MaxLevels]
         /\ serial' \in [Builders -> Serials]
         /\ build_id' \in [Builders -> Ids]
         /\ keep' \in [Builders -> BOOLEAN]
         /\ seen' \in [Builders -> SourceRows]
<1> USE DefaultsType, ConstantsAssumption DEF TypeOK, End
<1>1. pc' \in [Builders -> Steps]
  BY DEF Steps
<1>2. job' \in [Builders -> Jobs]
  OBVIOUS
<1>3. level' \in [Builders -> 0..MaxLevels]
  OBVIOUS
<1>4. serial' \in [Builders -> Serials]
  BY DEF Serials
<1>5. build_id' \in [Builders -> Ids]
  BY DEF Ids
<1>6. keep' \in [Builders -> BOOLEAN]
  OBVIOUS
<1>7. seen' \in [Builders -> SourceRows]
  OBVIOUS
<1>8. QED
  BY <1>1, <1>2, <1>3, <1>4, <1>5, <1>6, <1>7

\* The type invariant and the loop bounds hold initially.
LEMMA TypeInit == Init => TypeOK /\ InLoop
<1> SUFFICES ASSUME Init PROVE TypeOK /\ InLoop
  OBVIOUS
<1> USE DefaultsType, ConstantsAssumption DEF Init
<1>1. pc \in [Builders -> Steps] /\ InLoop
  BY DEF Steps, InLoop, BeforeLoop, InLevel
<1>2. /\ job \in [Builders -> Jobs] /\ level \in [Builders -> 0..MaxLevels]
      /\ keep \in [Builders -> BOOLEAN] /\ seen \in [Builders -> SourceRows]
  OBVIOUS
<1>3. serial \in [Builders -> Serials] /\ build_id \in [Builders -> Ids]
  BY DEF Serials, Ids
<1>4. inode \in [Serials -> Files]
  BY JobFields
<1>5. next_id \in [Procs -> 0..(MaxId + 1)]
  OBVIOUS
<1>6. tmps \in [TmpNames -> 0..MaxBuilds] /\ outs \in [Outputs -> 0..MaxBuilds]
  OBVIOUS
<1>7. QED
  BY <1>1, <1>2, <1>3, <1>4, <1>5, <1>6 DEF TypeOK

\* A step of one build keeps the types and the loop bounds.
LEMMA BuildType ==
  ASSUME TypeOK, InLoop, NEW b \in Builders, Build(b)
  PROVE  TypeOK' /\ InLoop'
<1> USE ConstantsAssumption DEF TypeOK, fsVars, envVars
<1>n. workspace(b) \in Dirs /\ tmp_path(b) \in TmpNames /\ ProcOf[b] \in Procs
  BY NamesType
<1>j. /\ job[b] \in Jobs /\ job[b].levels \in 0..MaxLevels
      /\ job[b].output \in Outputs /\ EmptyFile(job[b]) \in Files
  BY JobFields
<1>l. /\ level[b] \in Nat
      /\ pc[b] \in BeforeLoop => level[b] = 0
      /\ pc[b] \in InLevel => level[b] < job[b].levels
  BY DEF InLoop
<1>1. CASE FrequencyPass(b)
  <2>1. CASE End({b})
    <3>1. UNCHANGED <<next_id, started, fsVars, envVars>>
      BY <1>1 DEF FrequencyPass
    <3>2. TypeOK'
      BY <3>1, <2>1, EndType
    <3>3. InLoop'
      BY <2>1 DEF End, InLoop, BeforeLoop, InLevel
    <3>4. QED
      BY <3>2, <3>3
  <2>2. CASE Goto(b, "fetch_id") /\ UNCHANGED <<job, level, serial, build_id, keep, seen>>
    BY <1>1, <2>2, <1>l DEF FrequencyPass, Goto, Steps, InLoop, BeforeLoop, InLevel
  <2>3. QED
    BY <1>1, <2>1, <2>2 DEF FrequencyPass
<1>2. CASE FetchBuildId(b)
  <2>1. TypeOK'
    BY <1>2, <1>n DEF FetchBuildId, Goto, Steps, Ids
  <2>2. InLoop'
    BY <1>2, <1>l DEF FetchBuildId, Goto, InLoop, BeforeLoop, InLevel
  <2>3. QED
    BY <2>1, <2>2
<1>3. CASE CreateDir(b)
  <2>1. TypeOK'
    BY <1>3, <1>n DEF CreateDir, Goto, Steps, retry
  <2>2. InLoop'
    BY <1>3, <1>l DEF CreateDir, Goto, InLoop, BeforeLoop, InLevel, retry
  <2>3. QED
    BY <2>1, <2>2
<1>4. CASE OpenTmp(b)
  <2>0. serial[b] \in 0..MaxBuilds
    BY DEF Serials
  <2>1. tmps' \in [TmpNames -> 0..MaxBuilds]
    BY <2>0, <1>4, <1>n DEF OpenTmp
  <2>2. inode' \in [Serials -> Files]
    BY <1>4, <1>j DEF OpenTmp
  <2>3. pc' \in [Builders -> Steps] /\ UNCHANGED <<job, level, serial, build_id,
          keep, seen, next_id, started, dirs, files, outs, envVars>>
    BY <1>4 DEF OpenTmp, Goto, Steps
  <2>4. TypeOK'
    BY <2>1, <2>2, <2>3
  <2>5. InLoop'
    BY <1>4, <1>l, <1>j DEF OpenTmp, Goto, InLoop, BeforeLoop, InLevel
  <2>6. QED
    BY <2>4, <2>5
<1>5. CASE EncoderNew(b)
  <2>1. TypeOK'
    BY <1>5, <1>n DEF EncoderNew, Goto, Steps, ScratchFiles
  <2>2. InLoop'
    BY <1>5, <1>l DEF EncoderNew, Goto, InLoop, BeforeLoop, InLevel
  <2>3. QED
    BY <2>1, <2>2
<1>6. CASE Partition(b)
  <2>1. TypeOK'
    BY <1>6 DEF Partition, Goto, Steps
  <2>2. InLoop'
    BY <1>6, <1>l DEF Partition, Goto, InLoop, BeforeLoop, InLevel
  <2>3. QED
    BY <2>1, <2>2
<1>7. CASE AppendLevel(b)
  <2>1. level[b] + 1 \in 0..MaxLevels
    BY <1>7, <1>l, <1>j DEF AppendLevel, InLevel
  <2>2. inode' \in [Serials -> Files]
    BY <1>7, <2>1, FileWrites DEF AppendLevel
  <2>3. pc' \in [Builders -> Steps] /\ UNCHANGED <<job, level, serial, build_id,
          keep, seen, next_id, started, dirs, files, tmps, outs, envVars>>
    BY <1>7 DEF AppendLevel, Goto, Steps
  <2>4. InLoop'
    BY <1>7, <1>l DEF AppendLevel, Goto, InLoop, BeforeLoop, InLevel
  <2>5. QED
    BY <2>2, <2>3, <2>4
<1>8. CASE RemoveLevel(b)
  <2>1. level[b] + 1 \in 0..MaxLevels
    BY <1>8, <1>l, <1>j DEF RemoveLevel, InLevel
  <2>2. level' \in [Builders -> 0..MaxLevels] /\ files' \subseteq files
    BY <1>8, <2>1 DEF RemoveLevel
  <2>3. pc' \in [Builders -> Steps] /\ UNCHANGED <<job, serial, build_id, keep,
          seen, next_id, started, dirs, tmps, outs, inode, envVars>>
    BY <1>8 DEF RemoveLevel, Goto, Steps
  <2>4. TypeOK'
    BY <2>2, <2>3
  <2>5. InLoop'
    BY <1>8, <1>l, <1>j DEF RemoveLevel, Goto, InLoop, BeforeLoop, InLevel, needs_partition
  <2>6. QED
    BY <2>4, <2>5
<1>9. CASE WriteHeaderAndDirectory(b)
  <2>1. TypeOK'
    BY <1>9, FileWrites DEF WriteHeaderAndDirectory, Goto, Steps
  <2>2. InLoop'
    BY <1>9, <1>l DEF WriteHeaderAndDirectory, Goto, InLoop, BeforeLoop, InLevel
  <2>3. QED
    BY <2>1, <2>2
<1>10. CASE SyncAll(b)
  <2>1. TypeOK'
    BY <1>10, FileWrites DEF SyncAll, Goto, Steps
  <2>2. InLoop'
    BY <1>10, <1>l DEF SyncAll, Goto, InLoop, BeforeLoop, InLevel
  <2>3. QED
    BY <2>1, <2>2
<1>11. CASE Rename(b)
  <2>1. tmps[tmp_path(b)] \in 0..MaxBuilds
    BY <1>n
  <2>2. outs' \in [Outputs -> 0..MaxBuilds]
    BY <1>11, <2>1, <1>j DEF Rename
  <2>3. tmps' \in [TmpNames -> 0..MaxBuilds]
    BY <1>11, <1>n DEF Rename
  <2>4. keep' \in [Builders -> BOOLEAN]
    BY <1>11 DEF Rename
  <2>5. pc' \in [Builders -> Steps] /\ UNCHANGED <<job, level, serial, build_id,
          seen, next_id, started, dirs, files, inode, envVars>>
    BY <1>11 DEF Rename, Goto, Steps
  <2>6. InLoop'
    BY <1>11, <1>l DEF Rename, Goto, InLoop, BeforeLoop, InLevel
  <2>7. QED
    BY <2>2, <2>3, <2>4, <2>5, <2>6
<1>12. CASE DropGuard(b)
  <2>1. TypeOK'
    BY <1>12, <1>n DEF DropGuard, Goto, Steps
  <2>2. InLoop'
    BY <1>12, <1>l DEF DropGuard, Goto, InLoop, BeforeLoop, InLevel
  <2>3. QED
    BY <2>1, <2>2
<1>13. CASE DropWorkspace(b)
  <2>1. End({b}) /\ dirs' \subseteq dirs /\ files' \subseteq files
        /\ UNCHANGED <<next_id, started, tmps, outs, inode, envVars>>
    BY <1>13 DEF DropWorkspace
  <2>2. TypeOK'
    BY <2>1, EndType
  <2>3. InLoop'
    BY <2>1 DEF End, InLoop, BeforeLoop, InLevel
  <2>4. QED
    BY <2>2, <2>3
<1>14. QED
  BY <1>1, <1>2, <1>3, <1>4, <1>5, <1>6, <1>7, <1>8, <1>9, <1>10, <1>11, <1>12,
     <1>13 DEF Build

\* So does every other step.
LEMMA TypeStep == TypeOK /\ InLoop /\ [Next]_vars => TypeOK' /\ InLoop'
<1> SUFFICES ASSUME TypeOK, InLoop, [Next]_vars PROVE TypeOK' /\ InLoop'
  OBVIOUS
<1> USE DEF TypeOK
<1>1. ASSUME NEW b \in Builders, Begin(b) PROVE TypeOK' /\ InLoop'
  <2>1. PICK j \in Jobs : job' = [job EXCEPT ![b] = j]
    BY <1>1 DEF Begin
  <2>0. started < MaxBuilds /\ started' = started + 1
    BY <1>1 DEF Begin
  <2>2. started + 1 \in Serials /\ started' \in 0..MaxBuilds
    BY <2>0, ConstantsAssumption DEF Serials
  <2>3. pc' = [pc EXCEPT ![b] = "frequencies"] \/ pc' = [pc EXCEPT ![b] = "fetch_id"]
    BY <1>1 DEF Begin, Goto
  <2>4. /\ serial' = [serial EXCEPT ![b] = started + 1]
        /\ level' = [level EXCEPT ![b] = 0]
        /\ keep' = [keep EXCEPT ![b] = FALSE]
        /\ UNCHANGED <<build_id, seen, next_id, fsVars, envVars>>
    BY <1>1 DEF Begin
  <2>5. pc' \in [Builders -> Steps] /\ job' \in [Builders -> Jobs]
    BY <2>1, <2>3 DEF Steps
  <2>6. serial' \in [Builders -> Serials] /\ keep' \in [Builders -> BOOLEAN]
    BY <2>2, <2>4
  <2>7. level' \in [Builders -> 0..MaxLevels]
    BY <2>4, ConstantsAssumption
  <2>8. InLoop'
    BY <2>1, <2>3, <2>4 DEF InLoop, BeforeLoop, InLevel
  <2>9. QED
    BY <2>2, <2>4, <2>5, <2>6, <2>7, <2>8 DEF fsVars, envVars
<1>2. ASSUME NEW b \in Builders, Build(b) PROVE TypeOK' /\ InLoop'
  BY <1>2, BuildType
<1>3. ASSUME NEW b \in Builders, Fail(b) PROVE TypeOK' /\ InLoop'
  <2>1. CASE FailEarly(b)
    <3>1. End({b}) /\ UNCHANGED <<next_id, started, fsVars, envVars>>
      BY <2>1 DEF FailEarly
    <3>2. TypeOK'
      BY <3>1, EndType DEF fsVars, envVars
    <3>3. InLoop'
      BY <3>1 DEF End, InLoop, BeforeLoop, InLevel
    <3>4. QED
      BY <3>2, <3>3
  <2>2. CASE FailLate(b)
    BY <2>2 DEF FailLate, Goto, Steps, fsVars, envVars, InLoop, BeforeLoop, InLevel
  <2>3. QED
    BY <1>3, <2>1, <2>2 DEF Fail
<1>4. ASSUME NEW B \in SUBSET Builders PROVE Abandoned(B) \subseteq Dirs \cup TmpNames
  BY NamesType DEF Abandoned
<1>5. ASSUME NEW p \in Procs, Kill(p) PROVE TypeOK' /\ InLoop'
  <2>1. End({b \in Builders : ProcOf[b] = p})
    BY <1>5 DEF Kill
  <2>2. orphans' \subseteq Dirs \cup TmpNames
    BY <1>5, <1>4 DEF Kill
  <2>3. faults' \in 0..MaxFaults /\ next_id' \in [Procs -> 0..(MaxId + 1)]
        /\ UNCHANGED <<started, source, writes, fsVars>>
    BY <1>5, ConstantsAssumption DEF Kill
  <2>4. TypeOK'
    BY <2>1, <2>2, <2>3, EndType DEF fsVars
  <2>5. InLoop'
    BY <2>1 DEF End, InLoop, BeforeLoop, InLevel
  <2>6. QED
    BY <2>4, <2>5
<1>6. CASE PowerLoss
  <2>1. End(Builders)
    BY <1>6 DEF PowerLoss
  <2>2. orphans' \subseteq Dirs \cup TmpNames
    BY <1>6, <1>4 DEF PowerLoss
  <2>3. faults' \in 0..MaxFaults /\ next_id' \in [Procs -> 0..(MaxId + 1)]
        /\ UNCHANGED <<started, source, writes, dirs, files, tmps, outs>>
    BY <1>6, ConstantsAssumption DEF PowerLoss
  <2>4. \A s \in Serials : inode[s].job \in Jobs
    BY DEF Files
  <2>5. \A s \in Serials : EmptyFile(inode[s].job) \in Files
    BY <2>4, JobFields
  <2>6. inode' \in [Serials -> Files]
    BY <1>6, <2>5 DEF PowerLoss
  <2>7. TypeOK'
    BY <2>1, <2>2, <2>3, <2>6, EndType
  <2>8. InLoop'
    BY <2>1 DEF End, InLoop, BeforeLoop, InLevel
  <2>9. QED
    BY <2>7, <2>8
<1>7. CASE SourceRewritten
  BY <1>7, ConstantsAssumption DEF SourceRewritten, callVars, fsVars, InLoop
<1>8. CASE UNCHANGED vars
  BY <1>8 DEF vars, callVars, InLoop
<1>9. QED
  BY <1>1, <1>2, <1>3, <1>5, <1>6, <1>7, <1>8 DEF Next

\* The type invariant of DirectBuild: every variable keeps its type through
\* every step of every build, every failure and every fault; in particular
\* the loop variable of write_qwt256_u32_direct never passes the level count.
THEOREM TypeCorrect == Spec => []TypeOK
<1>1. TypeOK /\ InLoop => TypeOK
  OBVIOUS
<1>2. QED
  BY <1>1, TypeInit, TypeStep, PTL DEF Spec

------------------------------------------------------------------------------
\* Two running builds never share a tmp name: the pid tells processes apart and
\* DIRECT_BUILD_ID the builds of one process.
LEMMA TmpNamesDistinct ==
  ASSUME PidsDistinct, TypeOK, Distinct, NEW b \in Builders, NEW c \in Builders, b # c,
         pc[b] \in HasId, pc[c] \in HasId
  PROVE  tmp_path(b) # tmp_path(c)
<1>1. ProcOf[b] \in Procs /\ ProcOf[c] \in Procs
  BY ConstantsAssumption
<1>2. CASE ProcOf[b] = ProcOf[c]
  BY <1>2 DEF Distinct, tmp_path
<1>3. CASE ProcOf[b] # ProcOf[c]
  BY <1>1, <1>3 DEF PidsDistinct, tmp_path, pid
<1>4. QED
  BY <1>2, <1>3

\* A build whose locals, tmp name and file a step leaves alone makes no
\* progress and loses none.
LEMMA Undisturbed ==
  ASSUME NEW c \in Builders, ProgressOf(c),
         pc'[c] = pc[c], job'[c] = job[c], level'[c] = level[c],
         serial'[c] = serial[c], build_id'[c] = build_id[c], seen'[c] = seen[c],
         pc[c] \in Writing => /\ tmps'[tmp_path(c)] = tmps[tmp_path(c)]
                              /\ inode'[serial[c]] = inode[serial[c]]
  PROVE  ProgressOf(c)'
<1>1. tmp_path(c)' = tmp_path(c)
  BY DEF tmp_path, pid
<1>2. QED
  BY <1>1 DEF ProgressOf, Writing

\* A build that has just begun, or is about to drop its guards, has nothing to
\* show.
LEMMA NothingWritten ==
  ASSUME NEW c \in Builders, pc'[c] \notin Writing
  PROVE  ProgressOf(c)'
BY DEF ProgressOf, Writing

\* Ending calls disturbs none of the others.
LEMMA EndProgress ==
  ASSUME TypeOK, Progress, NEW B, End(B), tmps' = tmps,
         \A c \in Builders : pc[c] \in Writing /\ c \notin B =>
            inode'[serial[c]] = inode[serial[c]]
  PROVE  Progress'
<1> SUFFICES ASSUME NEW c \in Builders PROVE ProgressOf(c)'
  BY DEF Progress
<1>1. CASE c \in B
  BY <1>1, NothingWritten DEF End, Writing
<1>2. CASE c \notin B
  <2>1. /\ pc'[c] = pc[c] /\ job'[c] = job[c] /\ level'[c] = level[c]
        /\ serial'[c] = serial[c] /\ build_id'[c] = build_id[c] /\ seen'[c] = seen[c]
    BY <1>2 DEF End
  <2>2. ProgressOf(c)
    BY DEF Progress
  <2>3. QED
    BY <1>2, <2>1, <2>2, Undisturbed
<1>3. QED
  BY <1>1, <1>2

\* A step of one build advances its own file and leaves the other builds' tmp
\* names and files alone.
LEMMA BuildProgress ==
  ASSUME PidsDistinct, IInv, NEW b \in Builders, Build(b)
  PROVE  Progress'
<1> USE DEF IInv
<1>n. tmp_path(b) \in TmpNames /\ serial[b] \in Serials /\ inode[serial[b]] \in Files
  BY NamesType DEF TypeOK
<1>j. job[b] \in Jobs /\ job[b].levels \in 0..MaxLevels /\ job[b].rows \in SourceRows
      /\ seen[b] \in SourceRows /\ level[b] \in 0..MaxLevels
  BY JobFields DEF TypeOK
<1>l. pc[b] \in InLevel => level[b] < job[b].levels /\ level[b] + 1 \in 0..MaxLevels
  BY <1>j, ConstantsAssumption DEF InLoop
<1>l0. pc[b] \in BeforeLoop => level[b] = 0
  BY DEF InLoop
<1>p. ProgressOf(b)
  BY DEF Progress
<1>t. ASSUME NEW c \in Builders, c # b, pc[b] \in HasId, pc[c] \in Writing
      PROVE  tmp_path(c) # tmp_path(b) /\ tmp_path(c) \in TmpNames
  BY <1>t, TmpNamesDistinct, NamesType DEF HasId, Writing, InWorkspace, Steps
<1>s. ASSUME NEW c \in Builders, c # b, pc[b] # "idle", pc[c] \in Writing
      PROVE  serial[c] # serial[b] /\ serial[c] \in Serials
  BY <1>s DEF Distinct, TypeOK, Writing
\* The locals of the others are theirs.
<1>o. ASSUME NEW c \in Builders, c # b,
             pc[c] \in Writing => /\ tmps'[tmp_path(c)] = tmps[tmp_path(c)]
                                  /\ inode'[serial[c]] = inode[serial[c]]
      PROVE  ProgressOf(c)'
  <2>1. ProgressOf(c)
    BY DEF Progress
  <2>2. /\ pc'[c] = pc[c] /\ job'[c] = job[c] /\ level'[c] = level[c]
        /\ serial'[c] = serial[c] /\ build_id'[c] = build_id[c] /\ seen'[c] = seen[c]
    <3> USE <1>o DEF TypeOK, Goto, End
    <3>1. CASE FrequencyPass(b)
      BY <3>1 DEF FrequencyPass
    <3>2. CASE FetchBuildId(b)
      BY <3>2 DEF FetchBuildId
    <3>3. CASE CreateDir(b)
      BY <3>3 DEF CreateDir
    <3>4. CASE OpenTmp(b)
      BY <3>4 DEF OpenTmp
    <3>5. CASE EncoderNew(b)
      BY <3>5 DEF EncoderNew
    <3>6. CASE Partition(b)
      BY <3>6 DEF Partition
    <3>7. CASE AppendLevel(b)
      BY <3>7 DEF AppendLevel
    <3>8. CASE RemoveLevel(b)
      BY <3>8 DEF RemoveLevel
    <3>9. CASE WriteHeaderAndDirectory(b)
      BY <3>9 DEF WriteHeaderAndDirectory
    <3>10. CASE SyncAll(b)
      BY <3>10 DEF SyncAll
    <3>11. CASE Rename(b)
      BY <3>11 DEF Rename
    <3>12. CASE DropGuard(b)
      BY <3>12 DEF DropGuard
    <3>13. CASE DropWorkspace(b)
      BY <3>13 DEF DropWorkspace
    <3>14. QED
      BY <3>1, <3>2, <3>3, <3>4, <3>5, <3>6, <3>7, <3>8, <3>9, <3>10, <3>11, <3>12,
         <3>13 DEF Build
  <2>3. QED
    BY <1>o, <2>1, <2>2, Undisturbed
\* It suffices to look at the others' tmp names and files, and at b itself.
<1>q. ASSUME ProgressOf(b)',
             \A c \in Builders \ {b} : pc[c] \in Writing =>
                /\ tmps'[tmp_path(c)] = tmps[tmp_path(c)]
                /\ inode'[serial[c]] = inode[serial[c]]
      PROVE  Progress'
  BY <1>q, <1>o DEF Progress
<1>1. CASE FrequencyPass(b) \/ FetchBuildId(b) \/ CreateDir(b) \/ DropWorkspace(b)
  <2>1. tmps' = tmps /\ inode' = inode
    BY <1>1 DEF FrequencyPass, FetchBuildId, CreateDir, DropWorkspace, fsVars
  <2>2. pc'[b] \notin Writing
    BY <1>1 DEF FrequencyPass, FetchBuildId, CreateDir, DropWorkspace, Goto, End,
       Writing, retry, TypeOK
  <2>3. QED
    BY <2>1, <2>2, NothingWritten, <1>q
<1>2. CASE OpenTmp(b)
  <2>0. pc[b] = "open_tmp" /\ pc[b] \in HasId /\ level[b] = 0
    BY <1>2, <1>l0 DEF OpenTmp, HasId, InWorkspace, Steps, BeforeLoop
  <2>1. CASE name_taken(b)
    <3>1. tmps' = tmps /\ inode' = inode /\ pc'[b] \notin Writing
      BY <1>2, <2>1 DEF OpenTmp, Goto, Writing, TypeOK
    <3>2. QED
      BY <3>1, NothingWritten, <1>q
  <2>2. CASE ~name_taken(b)
    <3>1. /\ tmps' = [tmps EXCEPT ![tmp_path(b)] = serial[b]]
          /\ inode' = [inode EXCEPT ![serial[b]] = EmptyFile(job[b])]
          /\ UNCHANGED <<job, level, serial, build_id, seen>>
          /\ pc'[b] = IF job[b].levels = 0 THEN "header" ELSE "encoder_new"
      BY <1>2, <2>2 DEF OpenTmp, Goto, TypeOK
    <3>2. tmp_path(b)' = tmp_path(b)
      BY <3>1 DEF tmp_path, pid
    <3>3. tmps'[tmp_path(b)] = serial[b] /\ inode'[serial[b]] = EmptyFile(job[b])
      BY <3>1, <1>n DEF TypeOK
    <3>4. ProgressOf(b)'
      BY <3>1, <3>2, <3>3 DEF ProgressOf, EmptyFile, Writing
    <3>5. QED
      BY <3>1, <3>4, <2>0, <1>t, <1>s, <1>q, <1>n DEF TypeOK
  <2>3. QED
    BY <2>1, <2>2
<1>3. CASE EncoderNew(b) \/ Partition(b)
  <2>1. tmps' = tmps /\ inode' = inode /\ UNCHANGED <<job, level, serial, build_id>>
    BY <1>3 DEF EncoderNew, Partition, fsVars
  <2>2. tmp_path(b)' = tmp_path(b)
    BY <2>1 DEF tmp_path, pid
  <2>3. /\ pc[b] \in Writing
        /\ pc'[b] \in {"partition", "append", "drop_guard"}
        /\ pc'[b] = "append" => seen'[b] = job[b].rows
    <3>1. CASE EncoderNew(b)
      <4>1. pc[b] = "encoder_new" /\ Goto(b, "partition")
        BY <3>1 DEF EncoderNew
      <4>2. pc[b] \in Writing /\ pc'[b] = "partition"
        BY <4>1 DEF Goto, Writing, TypeOK
      <4>3. QED
        BY <4>2
    <3>2. CASE Partition(b)
      <4>1. pc[b] = "partition" /\ Goto(b, IF rows_agree(b, seen'[b]) THEN "append" ELSE "drop_guard")
        BY <3>2 DEF Partition
      <4>2. pc[b] \in Writing
        BY <4>1 DEF Writing
      <4>3. pc'[b] = IF rows_agree(b, seen'[b]) THEN "append" ELSE "drop_guard"
        BY <4>1 DEF Goto, TypeOK
      <4>4. QED
        BY <4>2, <4>3 DEF rows_agree
    <3>3. QED
      BY <1>3, <3>1, <3>2
  <2>4. ProgressOf(b)'
    BY <2>1, <2>2, <2>3, <1>p DEF ProgressOf, Writing
  <2>5. QED
    BY <2>1, <2>4, <1>q
<1>4. CASE AppendLevel(b)
  <2>1. /\ pc[b] = "append" /\ pc'[b] = "remove_level"
        /\ inode' = [inode EXCEPT ![serial[b]]
             = append_file(inode[serial[b]], level[b] + 1, seen[b])]
        /\ UNCHANGED <<tmps, job, level, serial, build_id, seen>>
    BY <1>4 DEF AppendLevel, Goto, TypeOK
  <2>2. tmp_path(b)' = tmp_path(b)
    BY <2>1 DEF tmp_path, pid
  <2>3. LET g == inode'[serial[b]] IN
          g.job = inode[serial[b]].job /\ g.levels = level[b] + 1 /\ g.rows = seen[b]
    <3>1. level[b] + 1 \in 0..MaxLevels
      BY <2>1, <1>l DEF InLevel
    <3>2. inode'[serial[b]] = append_file(inode[serial[b]], level[b] + 1, seen[b])
      BY <2>1, <1>n DEF TypeOK
    <3>3. \A n \in 0..MaxLevels, rows \in SourceRows :
            LET g == append_file(inode[serial[b]], n, rows) IN
            g.job = inode[serial[b]].job /\ g.levels = n /\ g.rows = rows
      BY <1>n, FileWrites
    <3>4. QED
      BY <3>1, <3>2, <3>3, <1>j
  <2>4. ProgressOf(b)'
    BY <2>1, <2>2, <2>3, <1>p DEF ProgressOf, Writing
  <2>5. QED
    BY <2>1, <2>4, <1>s, <1>q, <1>n DEF TypeOK
<1>5. CASE RemoveLevel(b)
  <2>1. /\ pc[b] = "remove_level" /\ level'[b] = level[b] + 1
        /\ pc'[b] = IF needs_partition(b) THEN "encoder_new" ELSE "header"
        /\ UNCHANGED <<tmps, inode, job, serial, build_id, seen>>
    BY <1>5 DEF RemoveLevel, Goto, TypeOK
  <2>2. tmp_path(b)' = tmp_path(b)
    BY <2>1 DEF tmp_path, pid
  <2>3. pc'[b] = "header" => level[b] + 1 = job[b].levels
    BY <2>1, <1>l, <1>j DEF needs_partition, InLevel
  <2>4. ProgressOf(b)'
    BY <2>1, <2>2, <2>3, <1>p DEF ProgressOf, Writing
  <2>5. QED
    BY <2>1, <2>4, <1>q
<1>6. CASE WriteHeaderAndDirectory(b) \/ SyncAll(b)
  <2>1. /\ \/ /\ pc[b] = "header" /\ pc'[b] = "sync_all"
              /\ inode' = [inode EXCEPT ![serial[b]] = write_header(inode[serial[b]])]
           \/ /\ pc[b] = "sync_all" /\ pc'[b] = "rename"
              /\ inode' = [inode EXCEPT ![serial[b]] = sync_all(inode[serial[b]])]
        /\ UNCHANGED <<tmps, job, level, serial, build_id, seen>>
    BY <1>6 DEF WriteHeaderAndDirectory, SyncAll, Goto, TypeOK
  <2>2. tmp_path(b)' = tmp_path(b)
    BY <2>1 DEF tmp_path, pid
  <2>3. LET f == inode[serial[b]]
            g == inode'[serial[b]]
        IN /\ g.job = f.job /\ g.levels = f.levels /\ g.rows = f.rows
           /\ pc'[b] = "sync_all" => g.header
           /\ pc'[b] = "rename" => g.header = f.header /\ g.synced
    BY <2>1, <1>n, FileWrites DEF TypeOK
  <2>4. ProgressOf(b)'
    BY <2>1, <2>2, <2>3, <1>p DEF ProgressOf, Writing
  <2>5. QED
    BY <2>1, <2>4, <1>s, <1>q, <1>n DEF TypeOK
<1>7. CASE Rename(b) \/ DropGuard(b)
  <2>1. inode' = inode /\ pc'[b] \notin Writing /\ pc[b] \in HasId
    BY <1>7 DEF Rename, DropGuard, Goto, Writing, TypeOK, HasId, InWorkspace, Steps
  <2>2. tmps' = tmps \/ tmps' = [tmps EXCEPT ![tmp_path(b)] = 0]
    BY <1>7 DEF Rename, DropGuard
  <2>3. QED
    BY <2>1, <2>2, NothingWritten, <1>t, <1>q DEF TypeOK
<1>8. QED
  BY <1>1, <1>2, <1>3, <1>4, <1>5, <1>6, <1>7 DEF Build

\* Every other step leaves the running builds' files alone.
LEMMA ProgressStep ==
  ASSUME PidsDistinct, IInv, [Next]_vars
  PROVE  Progress'
<1> USE DEF IInv
<1>1. ASSUME NEW b \in Builders, Begin(b) PROVE Progress'
  <2> SUFFICES ASSUME NEW c \in Builders PROVE ProgressOf(c)'
    BY DEF Progress
  <2>1. pc'[b] = "frequencies" \/ pc'[b] = "fetch_id"
    BY <1>1 DEF Begin, Goto, TypeOK
  <2>2. CASE c = b
    BY <2>1, <2>2, NothingWritten DEF Writing
  <2>3. CASE c # b
    <3>1. /\ pc'[c] = pc[c] /\ job'[c] = job[c] /\ level'[c] = level[c]
          /\ serial'[c] = serial[c] /\ build_id' = build_id /\ seen' = seen
          /\ tmps' = tmps /\ inode' = inode
      BY <1>1, <2>3 DEF Begin, Goto, TypeOK, fsVars
    <3>2. ProgressOf(c)
      BY DEF Progress
    <3>3. QED
      BY <3>1, <3>2, Undisturbed
  <2>4. QED
    BY <2>2, <2>3
<1>2. ASSUME NEW b \in Builders, Build(b) PROVE Progress'
  BY <1>2, BuildProgress
<1>3. ASSUME NEW b \in Builders, Fail(b) PROVE Progress'
  <2>1. CASE FailEarly(b)
    BY <2>1, EndProgress DEF FailEarly, fsVars
  <2>2. CASE FailLate(b)
    <3> SUFFICES ASSUME NEW c \in Builders PROVE ProgressOf(c)'
      BY DEF Progress
    <3>1. UNCHANGED <<job, level, serial, build_id, seen, tmps, inode>>
          /\ pc' = [pc EXCEPT ![b] = "drop_guard"]
      BY <2>2 DEF FailLate, Goto, fsVars
    <3>2. CASE c = b
      BY <3>1, <3>2, NothingWritten DEF TypeOK, Writing
    <3>3. CASE c # b
      <4>1. ProgressOf(c) /\ pc'[c] = pc[c]
        BY <3>1, <3>3 DEF Progress, TypeOK
      <4>2. QED
        BY <3>1, <4>1, Undisturbed
    <3>4. QED
      BY <3>2, <3>3
  <2>3. QED
    BY <1>3, <2>1, <2>2 DEF Fail
<1>4. ASSUME NEW p \in Procs, Kill(p) PROVE Progress'
  BY <1>4, EndProgress DEF Kill, fsVars
<1>5. CASE PowerLoss
  BY <1>5, EndProgress DEF PowerLoss
<1>6. CASE SourceRewritten \/ UNCHANGED vars
  <2>1. UNCHANGED <<callVars, tmps, inode>>
    BY <1>6 DEF SourceRewritten, fsVars, vars, callVars
  <2>2. QED
    BY <2>1, Undisturbed DEF Progress, callVars
<1>7. QED
  BY <1>1, <1>2, <1>3, <1>4, <1>5, <1>6 DEF Next

\* Ending calls keeps what is left distinct.
LEMMA EndDistinct ==
  ASSUME TypeOK, Distinct, NEW B, End(B), started' = started,
         \A c \in Builders \ B : next_id'[ProcOf[c]] = next_id[ProcOf[c]]
  PROVE  Distinct'
BY DEF Distinct, End, HasId, InWorkspace, Steps

\* A step that moves one build within the call, takes no id and begins nothing.
LEMMA MoveDistinct ==
  ASSUME TypeOK, Distinct, NEW b \in Builders, NEW step, Goto(b, step),
         pc[b] # "idle", step \in HasId => pc[b] \in HasId,
         UNCHANGED <<serial, build_id, next_id, started>>
  PROVE  Distinct'
BY DEF Distinct, Goto, TypeOK

\* Serial numbers and build ids stay distinct: both are handed out by counters
\* that only the death of a process resets, and then none of its builds runs.
LEMMA DistinctStep ==
  ASSUME TypeOK, Distinct, [Next]_vars
  PROVE  Distinct'
<1>1. ASSUME NEW b \in Builders, Begin(b) PROVE Distinct'
  <2>1. /\ pc[b] = "idle" /\ started' = started + 1 /\ started \in Nat
        /\ serial' = [serial EXCEPT ![b] = started + 1]
        /\ UNCHANGED <<build_id, next_id>>
    BY <1>1 DEF Begin, TypeOK
  <2>2. pc' = [pc EXCEPT ![b] = "frequencies"] \/ pc' = [pc EXCEPT ![b] = "fetch_id"]
    BY <1>1 DEF Begin, Goto
  <2>3. \A c \in Builders : serial[c] \in Nat
    BY DEF TypeOK, Serials
  <2>4. QED
    BY <2>1, <2>2, <2>3 DEF Distinct, TypeOK, HasId, InWorkspace, Steps
<1>2. ASSUME NEW b \in Builders, Build(b) PROVE Distinct'
  <2> USE DEF HasId, InWorkspace, Steps
  <2>1. CASE FrequencyPass(b)
    <3>1. CASE End({b})
      BY <2>1, <3>1, EndDistinct DEF FrequencyPass
    <3>2. CASE Goto(b, "fetch_id") /\ UNCHANGED <<job, level, serial, build_id, keep, seen>>
      BY <2>1, <3>2, MoveDistinct DEF FrequencyPass
    <3>3. QED
      BY <2>1, <3>1, <3>2 DEF FrequencyPass
  <2>2. CASE FetchBuildId(b)
    <3>1. /\ pc[b] = "fetch_id" /\ pc' = [pc EXCEPT ![b] = "create_dir"]
          /\ build_id' = [build_id EXCEPT ![b] = next_id[ProcOf[b]]]
          /\ next_id' = [next_id EXCEPT ![ProcOf[b]] = next_id[ProcOf[b]] + 1]
          /\ UNCHANGED <<serial, started>>
      BY <2>2 DEF FetchBuildId, Goto
    <3>2. \A c \in Builders : ProcOf[c] \in Procs /\ next_id[ProcOf[c]] \in Nat
                              /\ build_id[c] \in Nat
      BY ConstantsAssumption DEF TypeOK, Ids
    <3>3. \A c \in Builders : /\ build_id'[c] = IF c = b THEN next_id[ProcOf[b]] ELSE build_id[c]
                              /\ pc'[c] = IF c = b THEN "create_dir" ELSE pc[c]
                              /\ next_id'[ProcOf[c]] = IF ProcOf[c] = ProcOf[b]
                                    THEN next_id[ProcOf[c]] + 1 ELSE next_id[ProcOf[c]]
      BY <3>1, <3>2 DEF TypeOK
    <3>4. QED
      BY <3>1, <3>2, <3>3 DEF Distinct
  <2>3. CASE CreateDir(b)
    BY <2>3, MoveDistinct DEF CreateDir, retry
  <2>4. CASE OpenTmp(b)
    BY <2>4, MoveDistinct DEF OpenTmp
  <2>5. CASE EncoderNew(b)
    BY <2>5, MoveDistinct DEF EncoderNew
  <2>6. CASE Partition(b)
    BY <2>6, MoveDistinct DEF Partition
  <2>7. CASE AppendLevel(b)
    BY <2>7, MoveDistinct DEF AppendLevel
  <2>8. CASE RemoveLevel(b)
    BY <2>8, MoveDistinct DEF RemoveLevel
  <2>9. CASE WriteHeaderAndDirectory(b)
    BY <2>9, MoveDistinct DEF WriteHeaderAndDirectory
  <2>10. CASE SyncAll(b)
    BY <2>10, MoveDistinct DEF SyncAll
  <2>11. CASE Rename(b)
    BY <2>11, MoveDistinct DEF Rename
  <2>12. CASE DropGuard(b)
    BY <2>12, MoveDistinct DEF DropGuard
  <2>13. CASE DropWorkspace(b)
    BY <2>13, EndDistinct DEF DropWorkspace
  <2>14. QED
    BY <1>2, <2>1, <2>2, <2>3, <2>4, <2>5, <2>6, <2>7, <2>8, <2>9, <2>10, <2>11,
       <2>12, <2>13 DEF Build
<1>3. ASSUME NEW b \in Builders, Fail(b) PROVE Distinct'
  <2>1. CASE FailEarly(b)
    BY <2>1, EndDistinct DEF FailEarly
  <2>2. CASE FailLate(b)
    BY <2>2, MoveDistinct DEF FailLate, HasId, InWorkspace, Steps, Writing
  <2>3. QED
    BY <1>3, <2>1, <2>2 DEF Fail
<1>4. ASSUME NEW p \in Procs, Kill(p) PROVE Distinct'
  <2>1. \A c \in Builders : ProcOf[c] # p => next_id'[ProcOf[c]] = next_id[ProcOf[c]]
    BY <1>4, ConstantsAssumption DEF Kill, TypeOK
  <2>2. QED
    BY <1>4, <2>1, EndDistinct DEF Kill
<1>5. CASE PowerLoss
  BY <1>5, EndDistinct DEF PowerLoss
<1>6. CASE SourceRewritten \/ UNCHANGED vars
  BY <1>6 DEF SourceRewritten, vars, callVars, Distinct
<1>7. QED
  BY <1>1, <1>2, <1>3, <1>4, <1>5, <1>6 DEF Next

\* A step that begins nothing, installs nothing and writes only to the file of
\* a build that is still writing.
LEMMA QuietFrozen ==
  ASSUME TypeOK, Frozen, outs' = outs, started' = started,
         \A o \in Outputs : outs[o] # 0 => inode'[outs[o]] = inode[outs[o]],
         \A c \in Builders :
           pc'[c] \notin {"idle", "drop_guard", "drop_workspace"} =>
             /\ pc[c] \notin {"idle", "drop_guard", "drop_workspace"}
             /\ serial'[c] = serial[c]
  PROVE  Frozen'
BY DEF Frozen, Complete

\* Once installed, a file is never written again: the build that wrote it is
\* past its last write, and a later build writes to a file of its own.
LEMMA FrozenStep ==
  ASSUME PidsDistinct, IInv, [Next]_vars
  PROVE  Frozen'
<1> USE DEF IInv
<1>e. ASSUME NEW B, End(B)
      PROVE  \A c \in Builders :
               pc'[c] \notin {"idle", "drop_guard", "drop_workspace"} =>
                 pc[c] = pc'[c] /\ serial'[c] = serial[c]
  BY <1>e DEF End
<1>1. ASSUME NEW b \in Builders, Begin(b) PROVE Frozen'
  <2>1. /\ started' = started + 1 /\ started \in Nat /\ pc[b] = "idle"
        /\ serial' = [serial EXCEPT ![b] = started + 1]
        /\ outs' = outs /\ inode' = inode
    BY <1>1 DEF Begin, TypeOK, fsVars
  <2>2. \A c \in Builders \ {b} : pc'[c] = pc[c]
    BY <1>1 DEF Begin, Goto, TypeOK
  <2>3. \A o \in Outputs : outs[o] \in Nat
    BY DEF TypeOK
  <2>4. QED
    BY <2>1, <2>2, <2>3 DEF Frozen, TypeOK, Complete
<1>2. ASSUME NEW b \in Builders, Build(b) PROVE Frozen'
  <2>n. tmp_path(b) \in TmpNames /\ job[b] \in Jobs /\ job[b].output \in Outputs
        /\ serial[b] \in Serials
    BY NamesType, JobFields DEF TypeOK
  <2>1. CASE FrequencyPass(b) \/ DropWorkspace(b)
    <3>1. outs' = outs /\ started' = started /\ inode' = inode
      BY <2>1 DEF FrequencyPass, DropWorkspace, fsVars
    <3>2. CASE End({b})
      BY <3>1, <3>2, <1>e, QuietFrozen
    <3>3. CASE pc[b] = "frequencies" /\ Goto(b, "fetch_id") /\ serial' = serial
      BY <3>1, <3>3, QuietFrozen DEF Goto, TypeOK
    <3>4. QED
      BY <2>1, <3>2, <3>3 DEF FrequencyPass, DropWorkspace
  <2>2. CASE FetchBuildId(b) \/ CreateDir(b) \/ EncoderNew(b) \/ Partition(b)
             \/ RemoveLevel(b) \/ DropGuard(b)
    <3>1. outs' = outs /\ started' = started /\ inode' = inode /\ serial' = serial
      BY <2>2 DEF FetchBuildId, CreateDir, EncoderNew, Partition, RemoveLevel,
         DropGuard, fsVars
    <3>2. \A c \in Builders \ {b} : pc'[c] = pc[c]
      BY <2>2 DEF FetchBuildId, CreateDir, EncoderNew, Partition, RemoveLevel,
         DropGuard, Goto, TypeOK
    <3>3. pc'[b] \notin {"idle", "drop_guard", "drop_workspace"} =>
             pc[b] \notin {"idle", "drop_guard", "drop_workspace"}
      BY <2>2 DEF FetchBuildId, CreateDir, EncoderNew, Partition, RemoveLevel,
         DropGuard, Goto, TypeOK
    <3>4. QED
      BY <3>1, <3>2, <3>3, QuietFrozen
  <2>3. CASE OpenTmp(b) \/ AppendLevel(b) \/ WriteHeaderAndDirectory(b) \/ SyncAll(b)
    <3>1. /\ outs' = outs /\ started' = started /\ serial' = serial
          /\ pc[b] \notin {"idle", "drop_guard", "drop_workspace"}
          /\ \A s \in Serials \ {serial[b]} : inode'[s] = inode[s]
          /\ \A c \in Builders \ {b} : pc'[c] = pc[c]
      <4> USE DEF Goto, TypeOK
      <4>1. CASE OpenTmp(b)
        BY <4>1 DEF OpenTmp
      <4>2. CASE AppendLevel(b)
        BY <4>2 DEF AppendLevel
      <4>3. CASE WriteHeaderAndDirectory(b)
        BY <4>3 DEF WriteHeaderAndDirectory
      <4>4. CASE SyncAll(b)
        BY <4>4 DEF SyncAll
      <4>5. QED
        BY <2>3, <4>1, <4>2, <4>3, <4>4
    <3>2. \A o \in Outputs : outs[o] # 0 => outs[o] \in Serials /\ serial[b] # outs[o]
      BY <3>1 DEF Frozen, TypeOK, Serials
    <3>3. QED
      BY <3>1, <3>2, QuietFrozen
  <2>4. CASE Rename(b)
    <3>1. /\ pc[b] = "rename" /\ pc' = [pc EXCEPT ![b] = "drop_guard"]
          /\ UNCHANGED <<serial, inode, started>>
      BY <2>4 DEF Rename, Goto
    <3>2. ProgressOf(b) /\ pc[b] \in Writing
      BY <3>1 DEF Progress, Writing
    <3>3. /\ tmps[tmp_path(b)] = serial[b] /\ serial[b] # 0
          /\ Complete(inode[serial[b]]) /\ inode[serial[b]].synced
      BY <3>1, <3>2, <2>n DEF ProgressOf, Complete, Serials
    <3>4. outs' = [outs EXCEPT ![job[b].output] = serial[b]]
      BY <2>4, <3>3 DEF Rename
    <3>5. /\ serial[b] <= started
          /\ \A c \in Builders \ {b} : pc[c] # "idle" => serial[c] # serial[b]
      BY <3>1 DEF Distinct
    <3>6. QED
      BY <3>1, <3>3, <3>4, <3>5, <2>n DEF Frozen, TypeOK, Complete
  <2>5. QED
    BY <1>2, <2>1, <2>2, <2>3, <2>4 DEF Build
<1>3. ASSUME NEW b \in Builders, Fail(b) PROVE Frozen'
  <2>1. outs' = outs /\ started' = started /\ inode' = inode
    BY <1>3 DEF Fail, FailEarly, FailLate, fsVars
  <2>2. CASE FailEarly(b)
    BY <2>1, <2>2, <1>e, QuietFrozen DEF FailEarly
  <2>3. CASE FailLate(b)
    BY <2>1, <2>3, QuietFrozen DEF FailLate, Goto, TypeOK
  <2>4. QED
    BY <1>3, <2>2, <2>3 DEF Fail
<1>4. ASSUME NEW p \in Procs, Kill(p) PROVE Frozen'
  <2>1. outs' = outs /\ started' = started /\ inode' = inode
    BY <1>4 DEF Kill, fsVars
  <2>2. QED
    BY <1>4, <2>1, <1>e, QuietFrozen DEF Kill
<1>5. CASE PowerLoss
  <2>1. outs' = outs /\ started' = started /\ End(Builders)
    BY <1>5 DEF PowerLoss
  <2>2. \A s \in Serials : inode[s].synced => inode'[s] = inode[s]
    BY <1>5 DEF PowerLoss
  <2>3. \A o \in Outputs : outs[o] # 0 => outs[o] \in Serials /\ inode[outs[o]].synced
    BY DEF Frozen, TypeOK, Serials
  <2>4. QED
    BY <2>1, <2>2, <2>3, <1>e, QuietFrozen
<1>6. CASE SourceRewritten \/ UNCHANGED vars
  BY <1>6 DEF SourceRewritten, vars, callVars, fsVars, Frozen, Complete
<1>7. QED
  BY <1>1, <1>2, <1>3, <1>4, <1>5, <1>6 DEF Next

\* The inductive invariant holds of every behaviour in which pids tell
\* processes apart.
LEMMA IInvHolds == ASSUME PidsDistinct PROVE Spec => []IInv
<1>1. Init => IInv
  <2> SUFFICES ASSUME Init PROVE IInv
    OBVIOUS
  <2>1. TypeOK /\ InLoop
    BY TypeInit
  <2>2. Progress
    BY DEF Init, Progress, ProgressOf, Writing
  <2>3. Distinct
    BY DEF Init, Distinct, HasId, InWorkspace, Steps
  <2>4. Frozen
    BY DEF Init, Frozen
  <2>5. QED
    BY <2>1, <2>2, <2>3, <2>4 DEF IInv
<1>2. IInv /\ [Next]_vars => IInv'
  BY TypeStep, ProgressStep, DistinctStep, FrozenStep DEF IInv
<1>3. QED
  BY <1>1, <1>2, PTL DEF Spec

\* "The output is installed only after it is synced completely" (direct.rs,
\* write_qwt256_u32_direct), for any number of threads, processes, levels,
\* builds, failures, kills, power losses and rewrites of the source, provided
\* that pids are distinct.
THEOREM OutputsComplete == ASSUME PidsDistinct PROVE Spec => []OutputComplete
<1>1. IInv => OutputComplete
  BY DEF IInv, Frozen, OutputComplete
<1>2. QED
  BY <1>1, IInvHolds, PTL

\* From create_new to rename the tmp name of write_qwt256_u32_direct and of
\* write_hqwt256_u32_direct leads to the file that build is writing.
THEOREM TmpStaysMine == ASSUME PidsDistinct PROVE Spec => []TmpIsMine
<1>1. IInv => TmpIsMine
  BY DEF IInv, Progress, ProgressOf, TmpIsMine
<1>2. QED
  BY <1>1, IInvHolds, PTL

\* A step keeps the content of every installed file, and changes what is
\* installed only by putting the whole file of a build in place.
LEMMA StepEffect ==
  ASSUME PidsDistinct, IInv, [Next]_vars
  PROVE  /\ \A o \in Outputs : outs[o] # 0 => inode'[outs[o]] = inode[outs[o]]
         /\ \/ outs' = outs
            \/ \E b \in Builders :
                 /\ outs' = [outs EXCEPT ![job[b].output] = serial[b]]
                 /\ Complete(inode[serial[b]]) /\ inode' = inode
<1> USE DEF IInv
<1>s. \A o \in Outputs : outs[o] # 0 => outs[o] \in Serials
  BY DEF TypeOK, Serials
<1>1. CASE \E b \in Builders : Rename(b)
  <2>1. PICK b \in Builders : Rename(b)
    BY <1>1
  <2>2. pc[b] = "rename" /\ inode' = inode /\ serial[b] \in Serials
    BY <2>1 DEF Rename, TypeOK
  <2>3. ProgressOf(b) /\ pc[b] \in Writing
    BY <2>2 DEF Progress, Writing
  <2>4. tmps[tmp_path(b)] = serial[b] /\ serial[b] # 0 /\ Complete(inode[serial[b]])
    BY <2>2, <2>3 DEF ProgressOf, Complete, Serials
  <2>5. outs' = [outs EXCEPT ![job[b].output] = serial[b]]
    BY <2>1, <2>4 DEF Rename
  <2>6. QED
    BY <2>2, <2>4, <2>5
<1>2. CASE \E b \in Builders :
             OpenTmp(b) \/ AppendLevel(b) \/ WriteHeaderAndDirectory(b) \/ SyncAll(b)
  <2>1. PICK b \in Builders :
          OpenTmp(b) \/ AppendLevel(b) \/ WriteHeaderAndDirectory(b) \/ SyncAll(b)
    BY <1>2
  <2>2. /\ outs' = outs
        /\ pc[b] \notin {"idle", "drop_guard", "drop_workspace"}
        /\ \A s \in Serials \ {serial[b]} : inode'[s] = inode[s]
    <3> USE DEF TypeOK
    <3>1. CASE OpenTmp(b)
      BY <3>1 DEF OpenTmp
    <3>2. CASE AppendLevel(b)
      BY <3>2 DEF AppendLevel
    <3>3. CASE WriteHeaderAndDirectory(b)
      BY <3>3 DEF WriteHeaderAndDirectory
    <3>4. CASE SyncAll(b)
      BY <3>4 DEF SyncAll
    <3>5. QED
      BY <2>1, <3>1, <3>2, <3>3, <3>4
  <2>3. \A o \in Outputs : outs[o] # 0 => serial[b] # outs[o]
    BY <2>2 DEF Frozen
  <2>4. QED
    BY <2>2, <2>3, <1>s
<1>3. CASE PowerLoss
  <2>1. outs' = outs /\ \A s \in Serials : inode[s].synced => inode'[s] = inode[s]
    BY <1>3 DEF PowerLoss
  <2>2. \A o \in Outputs : outs[o] # 0 => inode[outs[o]].synced
    BY DEF Frozen
  <2>3. QED
    BY <2>1, <2>2, <1>s
<1>4. ASSUME NEW b \in Builders,
             FrequencyPass(b) \/ FetchBuildId(b) \/ CreateDir(b) \/ EncoderNew(b)
               \/ Partition(b) \/ RemoveLevel(b) \/ DropGuard(b) \/ DropWorkspace(b)
      PROVE  outs' = outs /\ inode' = inode
  BY <1>4 DEF FrequencyPass, FetchBuildId, CreateDir, EncoderNew, Partition,
     RemoveLevel, DropGuard, DropWorkspace, fsVars
<1>5. ASSUME NEW b \in Builders, Begin(b) \/ Fail(b)
      PROVE  outs' = outs /\ inode' = inode
  BY <1>5 DEF Begin, Fail, FailEarly, FailLate, fsVars
<1>6. ASSUME NEW p \in Procs, Kill(p) PROVE outs' = outs /\ inode' = inode
  BY <1>6 DEF Kill, fsVars
<1>7. CASE SourceRewritten \/ UNCHANGED vars
  BY <1>7 DEF SourceRewritten, vars, fsVars
<1>8. QED
  BY <1>1, <1>2, <1>3, <1>4, <1>5, <1>6, <1>7 DEF Next, Build

\* A whole file is one of the containers of AtomicInstall.
LEMMA CompleteIsContainer ==
  ASSUME NEW f \in Files, Complete(f)
  PROVE  View(f) \in Containers
<1>1. f.job \in Jobs /\ f.rows \in SourceRows /\ f.levels \in 0..MaxLevels
  BY DEF Files
<1>2. f.job.kind \in Kinds /\ ((f.job.rows = 0) <=> (f.job.levels = 0))
  BY <1>1, JobFields, ConstantsAssumption
<1>3. QED
  BY <1>1, <1>2 DEF View, Containers, Complete

\* The direct builders implement AtomicInstall: seen through the output paths,
\* a behaviour with threads, failures and crashes is a sequence of atomic
\* installs of whole containers.
THEOREM Refinement == ASSUME PidsDistinct PROVE Spec => AtomicSpec
<1>1. Init => Atomic!Init
  BY DEF Init, Atomic!Init, installed
<1>2. IInv /\ [Next]_vars => [Atomic!Next]_installed
  <2> SUFFICES ASSUME IInv, [Next]_vars PROVE Atomic!Next \/ installed' = installed
    OBVIOUS
  <2>1. \A o \in Outputs : outs[o] # 0 => inode'[outs[o]] = inode[outs[o]]
    BY StepEffect
  <2>2. CASE outs' = outs
    BY <2>1, <2>2 DEF installed, View, Complete
  <2>3. CASE outs' # outs
    <3>1. PICK b \in Builders :
            /\ outs' = [outs EXCEPT ![job[b].output] = serial[b]]
            /\ Complete(inode[serial[b]]) /\ inode' = inode
      BY <2>3, StepEffect
    <3>2. /\ job[b].output \in Outputs /\ serial[b] \in Serials
          /\ inode[serial[b]] \in Files /\ serial[b] # 0
      BY JobFields DEF IInv, TypeOK, Serials
    <3>3. View(inode[serial[b]]) \in Containers
      BY <3>1, <3>2, CompleteIsContainer
    <3>4. installed' = [installed EXCEPT ![job[b].output] = View(inode[serial[b]])]
      BY <3>1, <3>2 DEF installed, IInv, TypeOK, View, Complete
    <3>5. QED
      BY <3>2, <3>3, <3>4 DEF Atomic!Next, Atomic!Install
  <2>4. QED
    BY <2>2, <2>3
<1>3. QED
  BY <1>1, <1>2, IInvHolds, PTL DEF Spec, AtomicSpec, Atomic!Spec

------------------------------------------------------------------------------
(* What the builders leave behind and what they occupy while they run:     *)
(* NoLeftovers and WorkspaceWithinBudget.                                  *)

\* The scratch files a build can have at its level: the level files it is
\* writing, the buckets it reads and the buckets it fills.
ScratchOf(b) == {<<workspace(b), "level", level[b]>>,
                 <<workspace(b), "bucket", level[b]>>,
                 <<workspace(b), "bucket", level[b] - 1>>}

\* What a build holds.  Its directory exists and has no other files; level
\* files need a level and buckets a second one; a tmp file that is still there
\* when the guards are dropped will be removed by OutputGuard.
HoldsOf(b) ==
  pc[b] \in InWorkspace =>
    /\ workspace(b) \in dirs
    /\ FilesOf(workspace(b)) \subseteq ScratchOf(b)
    /\ \A f \in FilesOf(workspace(b)) :
         job[b].levels > (IF f[2] = "bucket" THEN 1 ELSE 0)
    /\ pc[b] \notin {"drop_guard", "drop_workspace"} => ~keep[b]
    /\ pc[b] = "drop_guard" /\ keep[b] => tmps[tmp_path(b)] = 0
    /\ pc[b] = "drop_workspace" => tmps[tmp_path(b)] = 0
Holds == \A b \in Builders : HoldsOf(b)

\* The call has not reached OutputGuard.
NotKept ==
  \A b \in Builders : pc[b] \in {"frequencies", "fetch_id", "create_dir"} => ~keep[b]

\* The inductive invariant behind both theorems.
CleanInv == IInv /\ NotKept /\ Holds /\ NoLeftovers

\* Two running builds never share a workspace directory.
LEMMA WorkspacesDistinct ==
  ASSUME PidsDistinct, TypeOK, Distinct, NEW b \in Builders, NEW c \in Builders, b # c,
         pc[b] \in HasId, pc[c] \in HasId
  PROVE  workspace(b) # workspace(c)
<1>1. ProcOf[b] \in Procs /\ ProcOf[c] \in Procs
  BY ConstantsAssumption
<1>2. CASE ProcOf[b] = ProcOf[c]
  BY <1>2 DEF Distinct, workspace
<1>3. CASE ProcOf[b] # ProcOf[c]
  BY <1>1, <1>3 DEF PidsDistinct, workspace, pid
<1>4. QED
  BY <1>2, <1>3

\* The locals of a call, as a step of another call leaves them.
SameCall(c) ==
  /\ pc'[c] = pc[c] /\ job'[c] = job[c] /\ level'[c] = level[c]
  /\ build_id'[c] = build_id[c] /\ keep'[c] = keep[c]

\* A step of one thread leaves the locals of the others alone.
LEMMA OthersSame ==
  ASSUME TypeOK, NEW b \in Builders, Begin(b) \/ Build(b) \/ Fail(b),
         NEW c \in Builders, c # b
  PROVE  SameCall(c)
<1> USE DEF TypeOK, Goto, End, SameCall
<1>1. CASE Begin(b)
  BY <1>1 DEF Begin
<1>2. CASE Fail(b)
  BY <1>2 DEF Fail, FailEarly, FailLate
<1>3. CASE FrequencyPass(b)
  BY <1>3 DEF FrequencyPass
<1>4. CASE FetchBuildId(b)
  BY <1>4 DEF FetchBuildId
<1>5. CASE CreateDir(b)
  BY <1>5 DEF CreateDir
<1>6. CASE OpenTmp(b)
  BY <1>6 DEF OpenTmp
<1>7. CASE EncoderNew(b)
  BY <1>7 DEF EncoderNew
<1>8. CASE Partition(b)
  BY <1>8 DEF Partition
<1>9. CASE AppendLevel(b)
  BY <1>9 DEF AppendLevel
<1>10. CASE RemoveLevel(b)
  BY <1>10 DEF RemoveLevel
<1>11. CASE WriteHeaderAndDirectory(b)
  BY <1>11 DEF WriteHeaderAndDirectory
<1>12. CASE SyncAll(b)
  BY <1>12 DEF SyncAll
<1>13. CASE Rename(b)
  BY <1>13 DEF Rename
<1>14. CASE DropGuard(b)
  BY <1>14 DEF DropGuard
<1>15. CASE DropWorkspace(b)
  BY <1>15 DEF DropWorkspace
<1>16. QED
  BY <1>1, <1>2, <1>3, <1>4, <1>5, <1>6, <1>7, <1>8, <1>9, <1>10, <1>11, <1>12,
     <1>13, <1>14, <1>15 DEF Build

\* A call goes on holding what it holds through a step that leaves its locals
\* and its directory alone, adds no file to it and puts no tmp file under its
\* name.
LEMMA StillHolds ==
  ASSUME NEW c \in Builders, HoldsOf(c), SameCall(c),
         pc[c] \in InWorkspace =>
           /\ workspace(c) \in dirs => workspace(c) \in dirs'
           /\ \A f \in files' : f[1] = workspace(c) => f \in files
           /\ tmps[tmp_path(c)] = 0 => tmps'[tmp_path(c)] = 0
  PROVE  HoldsOf(c)'
<1>1. tmp_path(c)' = tmp_path(c) /\ workspace(c)' = workspace(c)
      /\ ScratchOf(c)' = ScratchOf(c)
  BY DEF tmp_path, workspace, pid, SameCall, ScratchOf
<1>2. pc[c] \in InWorkspace => FilesOf(workspace(c))' \subseteq FilesOf(workspace(c))
  BY <1>1 DEF FilesOf
<1>3. QED
  BY <1>1, <1>2 DEF HoldsOf, SameCall

\* Ending calls disturbs none of the others.
LEMMA EndHolds ==
  ASSUME TypeOK, Holds, NotKept, NEW B, End(B), tmps' = tmps, dirs' = dirs, files' = files
  PROVE  Holds' /\ NotKept'
<1>1. ASSUME NEW c \in Builders PROVE HoldsOf(c)'
  <2>1. CASE c \in B
    BY <2>1 DEF End, HoldsOf, InWorkspace
  <2>2. CASE c \notin B
    BY <2>2, StillHolds DEF Holds, SameCall, End
  <2>3. QED
    BY <2>1, <2>2
<1>2. NotKept'
  BY DEF NotKept, End
<1>3. QED
  BY <1>1, <1>2 DEF Holds

\* A step of a build keeps what every build holds.
LEMMA BuildHolds ==
  ASSUME PidsDistinct, CleanInv, NEW b \in Builders, Build(b)
  PROVE  Holds' /\ NotKept'
<1> USE DEF CleanInv, IInv
<1>n. workspace(b) \in Dirs /\ tmp_path(b) \in TmpNames
  BY NamesType
<1>l. /\ level[b] \in Nat /\ job[b].levels \in Nat /\ pc[b] \in Steps
      /\ pc[b] \in BeforeLoop => level[b] = 0
      /\ pc[b] \in InLevel => level[b] < job[b].levels
  BY JobFields, ConstantsAssumption DEF InLoop, TypeOK
<1>h. HoldsOf(b) /\ (pc[b] \in {"frequencies", "fetch_id", "create_dir"} => ~keep[b])
  BY DEF Holds, NotKept
<1>t. ASSUME NEW c \in Builders, c # b, pc[b] \in HasId, pc[c] \in InWorkspace
      PROVE  /\ tmp_path(c) # tmp_path(b) /\ workspace(c) # workspace(b)
             /\ tmp_path(c) \in TmpNames
  BY <1>t, TmpNamesDistinct, WorkspacesDistinct, NamesType DEF HasId
\* It suffices to look at what the step takes from the others, and at b itself.
<1>q. ASSUME HoldsOf(b)',
             pc'[b] \in {"frequencies", "fetch_id", "create_dir"} => ~keep'[b],
             \A c \in Builders \ {b} : pc[c] \in InWorkspace =>
                /\ workspace(c) \in dirs => workspace(c) \in dirs'
                /\ \A f \in files' : f[1] = workspace(c) => f \in files
                /\ tmps[tmp_path(c)] = 0 => tmps'[tmp_path(c)] = 0
      PROVE  Holds' /\ NotKept'
  <2>1. ASSUME NEW c \in Builders
        PROVE  HoldsOf(c)' /\ (pc'[c] \in {"frequencies", "fetch_id", "create_dir"} => ~keep'[c])
    <3>1. CASE c = b
      BY <1>q, <3>1
    <3>2. CASE c # b
      <4>1. SameCall(c)
        BY <3>2, OthersSame
      <4>2. HoldsOf(c)
        BY DEF Holds
      <4>3. HoldsOf(c)'
        BY <1>q, <3>2, <4>1, <4>2, StillHolds
      <4>4. QED
        BY <4>1, <4>3 DEF SameCall, NotKept
    <3>3. QED
      BY <3>1, <3>2
  <2>2. QED
    BY <2>1 DEF Holds, NotKept
<1>1. CASE FrequencyPass(b) \/ FetchBuildId(b)
  <2>1. tmps' = tmps /\ dirs' = dirs /\ files' = files /\ pc'[b] \notin InWorkspace
    BY <1>1 DEF FrequencyPass, FetchBuildId, fsVars, Goto, End, InWorkspace, TypeOK
  <2>2. HoldsOf(b)'
    BY <2>1 DEF HoldsOf
  <2>3. pc'[b] \in {"frequencies", "fetch_id", "create_dir"} => ~keep'[b]
    BY <1>1, <1>h DEF FrequencyPass, FetchBuildId, Goto, End, TypeOK
  <2>4. QED
    BY <2>1, <2>2, <2>3, <1>q
<1>2. CASE CreateDir(b)
  <2>0. /\ pc[b] = "create_dir" /\ level[b] = 0 /\ ~keep[b] /\ dirs \subseteq dirs'
        /\ UNCHANGED <<tmps, files, job, level, build_id, keep>>
    BY <1>2, <1>l, <1>h DEF CreateDir, BeforeLoop
  <2>1. workspace(b)' = workspace(b)
    BY <2>0 DEF workspace, pid
  <2>2. CASE workspace(b) \in dirs
    <3>1. pc'[b] = "fetch_id"
      BY <1>2, <2>2 DEF CreateDir, Goto, retry, TypeOK
    <3>2. HoldsOf(b)'
      BY <3>1 DEF HoldsOf, InWorkspace
    <3>3. QED
      BY <2>0, <3>1, <3>2, <1>q
  <2>3. CASE workspace(b) \notin dirs
    <3>1. pc'[b] = "open_tmp" /\ workspace(b) \in dirs'
      BY <1>2, <2>3 DEF CreateDir, Goto, TypeOK
    <3>2. FilesOf(workspace(b))' = {}
      BY <2>0, <2>1, <2>3 DEF NoLeftovers, FilesOf
    <3>3. HoldsOf(b)'
      BY <2>0, <2>1, <3>1, <3>2 DEF HoldsOf
    <3>4. QED
      BY <2>0, <3>1, <3>3, <1>q
  <2>4. QED
    BY <2>2, <2>3
<1>3. CASE OpenTmp(b) \/ Partition(b) \/ AppendLevel(b) \/ WriteHeaderAndDirectory(b)
           \/ SyncAll(b)
  <2>1. /\ pc[b] \in InWorkspace \ {"drop_guard", "drop_workspace"}
        /\ pc'[b] \in InWorkspace \ {"drop_workspace"}
        /\ UNCHANGED <<dirs, files, job, level, build_id, keep>>
        /\ \A n \in TmpNames \ {tmp_path(b)} : tmps'[n] = tmps[n]
    <3> USE DEF InWorkspace, Steps, TypeOK, Goto, fsVars
    <3>1. CASE OpenTmp(b)
      BY <3>1 DEF OpenTmp
    <3>2. CASE Partition(b)
      BY <3>2 DEF Partition
    <3>3. CASE AppendLevel(b)
      BY <3>3 DEF AppendLevel
    <3>4. CASE WriteHeaderAndDirectory(b)
      BY <3>4 DEF WriteHeaderAndDirectory
    <3>5. CASE SyncAll(b)
      BY <3>5 DEF SyncAll
    <3>6. QED
      BY <1>3, <3>1, <3>2, <3>3, <3>4, <3>5
  <2>2. workspace(b)' = workspace(b) /\ ScratchOf(b)' = ScratchOf(b)
        /\ FilesOf(workspace(b))' = FilesOf(workspace(b))
    BY <2>1 DEF workspace, pid, ScratchOf, FilesOf
  <2>3. HoldsOf(b)'
    BY <2>1, <2>2, <1>h DEF HoldsOf
  <2>4. pc[b] \in HasId /\ pc'[b] \notin {"frequencies", "fetch_id", "create_dir"}
    BY <2>1 DEF HasId, InWorkspace
  <2>5. QED
    BY <2>1, <2>3, <2>4, <1>t, <1>q
<1>4. CASE EncoderNew(b)
  <2>1. /\ pc[b] = "encoder_new" /\ pc'[b] = "partition"
        /\ files' = files \cup {<<workspace(b), "level", level[b]>>}
             \cup (IF needs_partition(b) THEN {<<workspace(b), "bucket", level[b]>>} ELSE {})
        /\ UNCHANGED <<dirs, tmps, job, level, build_id, keep>>
    BY <1>4 DEF EncoderNew, Goto, TypeOK
  <2>2. workspace(b)' = workspace(b) /\ ScratchOf(b)' = ScratchOf(b)
    BY <2>1 DEF workspace, pid, ScratchOf
  <2>3. /\ pc[b] \in HasId /\ pc[b] \in InWorkspace /\ pc'[b] \in InWorkspace
        /\ level[b] < job[b].levels
    BY <2>1, <1>l DEF HasId, InWorkspace, Steps, InLevel
  <2>4. FilesOf(workspace(b))' \subseteq ScratchOf(b)'
    BY <2>1, <2>2, <2>3, <1>h DEF FilesOf, HoldsOf, ScratchOf
  <2>5. ASSUME NEW f \in FilesOf(workspace(b))'
        PROVE  job[b].levels > (IF f[2] = "bucket" THEN 1 ELSE 0)
    <3>1. CASE f \in files
      BY <2>2, <2>3, <2>5, <3>1, <1>h DEF FilesOf, HoldsOf
    <3>2. CASE f \notin files
      BY <2>1, <2>2, <2>3, <2>5, <3>2, <1>l DEF FilesOf, needs_partition
    <3>3. QED
      BY <3>1, <3>2
  <2>6. HoldsOf(b)'
    BY <2>1, <2>2, <2>3, <2>4, <2>5, <1>h DEF HoldsOf
  <2>7. \A c \in Builders \ {b} : pc[c] \in InWorkspace =>
          \A f \in files' : f[1] = workspace(c) => f \in files
    BY <2>1, <2>3, <1>t
  <2>8. QED
    BY <2>1, <2>6, <2>7, <1>q
<1>5. CASE RemoveLevel(b)
  <2>1. /\ pc[b] = "remove_level" /\ pc'[b] \in {"encoder_new", "header"}
        /\ files' = files \ (remove_owned(b) \cup remove_level_files(b))
        /\ level'[b] = level[b] + 1
        /\ UNCHANGED <<dirs, tmps, job, build_id, keep>>
    BY <1>5 DEF RemoveLevel, Goto, TypeOK
  <2>2. workspace(b)' = workspace(b)
    BY <2>1 DEF workspace, pid
  <2>3. pc[b] \in InWorkspace /\ pc'[b] \in InWorkspace
    BY <2>1 DEF InWorkspace, Steps
  <2>4. FilesOf(workspace(b))' \subseteq FilesOf(workspace(b))
    BY <2>1, <2>2 DEF FilesOf
  <2>5. ASSUME NEW f \in FilesOf(workspace(b))' PROVE f \in ScratchOf(b)'
    <3>1. f \in FilesOf(workspace(b)) /\ f \in ScratchOf(b)
      BY <2>3, <2>4, <2>5, <1>h DEF HoldsOf
    <3>2. f # <<workspace(b), "level", level[b]>>
      BY <2>1, <2>5 DEF remove_level_files, FilesOf
    <3>3. CASE f = <<workspace(b), "bucket", level[b]>>
      BY <2>1, <2>2, <3>3, <1>l DEF ScratchOf
    <3>4. CASE f = <<workspace(b), "bucket", level[b] - 1>>
      <4>1. f \in ScratchFiles /\ level[b] - 1 \in 0..MaxLevels
        BY <3>1, <3>4 DEF FilesOf, TypeOK, ScratchFiles
      <4>2. level[b] # 0
        BY <4>1
      <4>3. f \in remove_owned(b)
        BY <3>4, <4>2 DEF remove_owned
      <4>4. QED
        BY <2>1, <2>5, <4>3 DEF FilesOf
    <3>5. QED
      BY <3>1, <3>2, <3>3, <3>4 DEF ScratchOf
  <2>6. HoldsOf(b)'
    BY <2>1, <2>2, <2>3, <2>4, <2>5, <1>h DEF HoldsOf
  <2>7. QED
    BY <2>1, <2>6, <1>q
<1>6. CASE Rename(b) \/ DropGuard(b)
  <2>1. /\ pc[b] \in InWorkspace /\ pc[b] \in HasId /\ pc'[b] \in InWorkspace
        /\ pc'[b] \in {"drop_guard", "drop_workspace"}
        /\ UNCHANGED <<dirs, files, job, level, build_id>>
        /\ tmps' = tmps \/ tmps' = [tmps EXCEPT ![tmp_path(b)] = 0]
    BY <1>6 DEF Rename, DropGuard, Goto, TypeOK, HasId, InWorkspace, Steps
  <2>2. workspace(b)' = workspace(b) /\ ScratchOf(b)' = ScratchOf(b)
        /\ FilesOf(workspace(b))' = FilesOf(workspace(b)) /\ tmp_path(b)' = tmp_path(b)
    BY <2>1 DEF workspace, pid, ScratchOf, FilesOf, tmp_path
  <2>3. /\ pc'[b] = "drop_guard" /\ keep'[b] => tmps'[tmp_path(b)] = 0
        /\ pc'[b] = "drop_workspace" => tmps'[tmp_path(b)] = 0
    <3>1. CASE Rename(b)
      <4>1. /\ pc[b] = "rename" /\ pc'[b] = "drop_guard" /\ ~keep[b]
        BY <3>1, <2>1, <1>h DEF Rename, Goto, TypeOK, HoldsOf
      <4>2. keep'[b] => tmps'[tmp_path(b)] = 0
        BY <3>1, <4>1, <1>n DEF Rename, TypeOK
      <4>3. QED
        BY <4>1, <4>2
    <3>2. CASE DropGuard(b)
      <4>1. /\ pc[b] = "drop_guard" /\ pc'[b] = "drop_workspace"
        BY <3>2 DEF DropGuard, Goto, TypeOK
      <4>2. tmps'[tmp_path(b)] = 0
        BY <3>2, <4>1, <2>1, <1>h, <1>n DEF DropGuard, TypeOK, HoldsOf, guard_removes
      <4>3. QED
        BY <4>1, <4>2
    <3>3. QED
      BY <1>6, <3>1, <3>2
  <2>4. HoldsOf(b)'
    BY <2>1, <2>2, <2>3, <1>h DEF HoldsOf
  <2>5. \A c \in Builders \ {b} : pc[c] \in InWorkspace =>
          (tmps[tmp_path(c)] = 0 => tmps'[tmp_path(c)] = 0)
    BY <2>1, <1>t DEF TypeOK
  <2>6. QED
    BY <2>1, <2>4, <2>5, <1>q
<1>7. CASE DropWorkspace(b)
  <2>1. /\ pc[b] = "drop_workspace" /\ pc'[b] = "idle"
        /\ dirs' = dirs \ {workspace(b)} /\ files' \subseteq files /\ tmps' = tmps
    BY <1>7 DEF DropWorkspace, End
  <2>2. HoldsOf(b)' /\ pc[b] \in HasId
    BY <2>1 DEF HoldsOf, InWorkspace, HasId, Steps
  <2>3. QED
    BY <2>1, <2>2, <1>t, <1>q
<1>8. QED
  BY <1>1, <1>2, <1>3, <1>4, <1>5, <1>6, <1>7 DEF Build

\* So does every other step.
LEMMA HoldsStep ==
  ASSUME PidsDistinct, CleanInv, [Next]_vars
  PROVE  Holds' /\ NotKept'
<1> USE DEF CleanInv, IInv
<1>1. ASSUME NEW b \in Builders, Begin(b) \/ FailLate(b) PROVE Holds' /\ NotKept'
  <2>1. /\ UNCHANGED <<dirs, files, tmps>>
        /\ \/ pc'[b] \in {"frequencies", "fetch_id"} /\ ~keep'[b]
           \/ /\ pc[b] \in InWorkspace \ {"drop_guard", "drop_workspace"}
              /\ pc'[b] = "drop_guard"
              /\ UNCHANGED <<job, level, build_id, keep>>
    BY <1>1 DEF Begin, FailLate, Goto, TypeOK, fsVars, InWorkspace, Steps, Writing
  <2>2. HoldsOf(b)'
    <3>1. CASE pc'[b] \in {"frequencies", "fetch_id"}
      BY <3>1 DEF HoldsOf, InWorkspace
    <3>2. CASE pc'[b] \notin {"frequencies", "fetch_id"}
      <4>1. workspace(b)' = workspace(b) /\ ScratchOf(b)' = ScratchOf(b)
            /\ FilesOf(workspace(b))' = FilesOf(workspace(b))
        BY <2>1, <3>2 DEF workspace, pid, ScratchOf, FilesOf
      <4>2. QED
        BY <2>1, <3>2, <4>1 DEF HoldsOf, Holds
    <3>3. QED
      BY <3>1, <3>2
  <2>3. ASSUME NEW c \in Builders, c # b PROVE HoldsOf(c)' /\ SameCall(c)
    <3>1. SameCall(c)
      BY <1>1, <2>3, OthersSame DEF Fail
    <3>2. QED
      BY <2>1, <3>1, StillHolds DEF Holds
  <2>4. QED
    BY <2>1, <2>2, <2>3 DEF Holds, NotKept, SameCall
<1>2. ASSUME NEW b \in Builders, FailEarly(b) PROVE Holds' /\ NotKept'
  BY <1>2, EndHolds DEF FailEarly, fsVars
<1>3. ASSUME NEW b \in Builders, Build(b) PROVE Holds' /\ NotKept'
  BY <1>3, BuildHolds
<1>4. ASSUME NEW p \in Procs, Kill(p) PROVE Holds' /\ NotKept'
  BY <1>4, EndHolds DEF Kill, fsVars
<1>5. CASE PowerLoss
  BY <1>5, EndHolds DEF PowerLoss
<1>6. CASE SourceRewritten \/ UNCHANGED vars
  <2>1. UNCHANGED <<callVars, dirs, files, tmps>>
    BY <1>6 DEF SourceRewritten, fsVars, vars
  <2>2. QED
    BY <2>1, StillHolds DEF Holds, NotKept, SameCall, callVars
<1>7. QED
  BY <1>1, <1>2, <1>3, <1>4, <1>5, <1>6 DEF Next, Fail

\* A call inside its workspace.
Owns(b) == pc[b] \in InWorkspace

\* A step that creates and removes no path keeps every path accounted for when
\* each call in its workspace stays there under its names or is written down as
\* abandoned.
LEMMA StillOwned ==
  ASSUME NoLeftovers, UNCHANGED <<dirs, files, tmps>>, orphans \subseteq orphans',
         \A b \in Builders : Owns(b) =>
           \/ Owns(b)' /\ workspace(b)' = workspace(b) /\ tmp_path(b)' = tmp_path(b)
           \/ workspace(b) \in orphans' /\ tmp_path(b) \in orphans'
  PROVE  NoLeftovers'
<1>1. ASSUME NEW d \in dirs' \ orphans'
      PROVE  \E b \in Builders : pc'[b] \in InWorkspace /\ workspace(b)' = d
  <2>1. PICK b \in Builders : pc[b] \in InWorkspace /\ workspace(b) = d
    BY DEF NoLeftovers
  <2>2. Owns(b)' /\ workspace(b)' = d
    BY <2>1 DEF Owns
  <2>3. QED
    BY <2>2 DEF Owns
<1>2. ASSUME NEW n \in TmpNames \ orphans', tmps'[n] # 0
      PROVE  \E b \in Builders : pc'[b] \in InWorkspace /\ tmp_path(b)' = n
  <2>1. PICK b \in Builders : pc[b] \in InWorkspace /\ tmp_path(b) = n
    BY <1>2 DEF NoLeftovers
  <2>2. Owns(b)' /\ tmp_path(b)' = n
    BY <2>1 DEF Owns
  <2>3. QED
    BY <2>2 DEF Owns
<1>3. \A f \in files' : f[1] \in dirs'
  BY DEF NoLeftovers
<1>4. QED
  BY <1>1, <1>2, <1>3 DEF NoLeftovers

\* A step of a build leaves no path behind.
LEMMA BuildClean ==
  ASSUME PidsDistinct, CleanInv, NEW b \in Builders, Build(b)
  PROVE  NoLeftovers'
<1> USE DEF CleanInv, IInv
<1>n. workspace(b) \in Dirs /\ tmp_path(b) \in TmpNames
  BY NamesType
<1>h. HoldsOf(b)
  BY DEF Holds
<1>o. \A c \in Builders \ {b} : SameCall(c)
  BY OthersSame
<1>w. \A c \in Builders \ {b} : /\ workspace(c)' = workspace(c)
                                /\ tmp_path(c)' = tmp_path(c) /\ pc'[c] = pc[c]
  BY <1>o DEF SameCall, workspace, tmp_path, pid
\* The names of b's files while it is in its workspace.
<1>m. ASSUME UNCHANGED <<job, build_id>>
      PROVE  workspace(b)' = workspace(b) /\ tmp_path(b)' = tmp_path(b)
  BY <1>m DEF workspace, tmp_path, pid
<1>1. CASE FrequencyPass(b) \/ FetchBuildId(b)
  <2>1. /\ UNCHANGED <<dirs, files, tmps, orphans>> /\ pc[b] \notin InWorkspace
    BY <1>1 DEF FrequencyPass, FetchBuildId, fsVars, envVars, InWorkspace
  <2>2. QED
    BY <2>1, <1>w, StillOwned DEF Owns
<1>2. CASE CreateDir(b)
  <2>0. UNCHANGED <<files, tmps, orphans, job, build_id>> /\ pc[b] \notin InWorkspace
    BY <1>2 DEF CreateDir, envVars, InWorkspace
  <2>1. CASE workspace(b) \in dirs
    BY <1>2, <2>0, <2>1, <1>w, StillOwned DEF CreateDir, Owns
  <2>2. CASE workspace(b) \notin dirs
    <3>1. dirs' = dirs \cup {workspace(b)} /\ pc'[b] \in InWorkspace
      BY <1>2, <2>2 DEF CreateDir, Goto, TypeOK, InWorkspace, Steps
    <3>2. \A d \in dirs' \ orphans' :
            \E c \in Builders : pc'[c] \in InWorkspace /\ workspace(c)' = d
      BY <2>0, <3>1, <1>m, <1>w DEF NoLeftovers
    <3>3. \A n \in TmpNames \ orphans' : tmps'[n] # 0 =>
            \E c \in Builders : pc'[c] \in InWorkspace /\ tmp_path(c)' = n
      BY <2>0, <1>w DEF NoLeftovers
    <3>4. \A f \in files' : f[1] \in dirs'
      BY <2>0, <3>1 DEF NoLeftovers
    <3>5. QED
      BY <3>2, <3>3, <3>4 DEF NoLeftovers
  <2>3. QED
    BY <2>1, <2>2
<1>3. CASE Partition(b) \/ AppendLevel(b) \/ WriteHeaderAndDirectory(b) \/ SyncAll(b)
  <2>1. /\ UNCHANGED <<dirs, files, tmps, orphans, job, build_id>>
        /\ pc'[b] \in InWorkspace
    BY <1>3 DEF Partition, AppendLevel, WriteHeaderAndDirectory, SyncAll, fsVars,
       envVars, Goto, TypeOK, InWorkspace, Steps
  <2>2. QED
    BY <2>1, <1>m, <1>w, StillOwned DEF Owns
<1>4. CASE EncoderNew(b) \/ RemoveLevel(b)
  <2>1. /\ UNCHANGED <<dirs, tmps, orphans, job, build_id>>
        /\ pc[b] \in InWorkspace /\ pc'[b] \in InWorkspace
        /\ \A f \in files' : f \in files \/ f[1] = workspace(b)
    BY <1>4 DEF EncoderNew, RemoveLevel, envVars, Goto, TypeOK, InWorkspace, Steps
  <2>2. \A d \in dirs' \ orphans' :
          \E c \in Builders : pc'[c] \in InWorkspace /\ workspace(c)' = d
    BY <2>1, <1>m, <1>w DEF NoLeftovers
  <2>3. \A n \in TmpNames \ orphans' : tmps'[n] # 0 =>
          \E c \in Builders : pc'[c] \in InWorkspace /\ tmp_path(c)' = n
    BY <2>1, <1>m, <1>w DEF NoLeftovers
  <2>4. \A f \in files' : f[1] \in dirs'
    BY <2>1, <1>h DEF NoLeftovers, HoldsOf
  <2>5. QED
    BY <2>2, <2>3, <2>4 DEF NoLeftovers
<1>5. CASE OpenTmp(b) \/ Rename(b) \/ DropGuard(b)
  <2>1. /\ UNCHANGED <<dirs, files, orphans, job, build_id>>
        /\ pc'[b] \in InWorkspace
        /\ \A n \in TmpNames \ {tmp_path(b)} : tmps'[n] = tmps[n]
    <3> USE DEF envVars, Goto, TypeOK, InWorkspace, Steps
    <3>1. CASE OpenTmp(b)
      BY <3>1 DEF OpenTmp
    <3>2. CASE Rename(b)
      BY <3>2 DEF Rename
    <3>3. CASE DropGuard(b)
      BY <3>3 DEF DropGuard
    <3>4. QED
      BY <1>5, <3>1, <3>2, <3>3
  <2>2. \A d \in dirs' \ orphans' :
          \E c \in Builders : pc'[c] \in InWorkspace /\ workspace(c)' = d
    BY <2>1, <1>m, <1>w DEF NoLeftovers
  <2>3. \A n \in TmpNames \ orphans' : tmps'[n] # 0 =>
          \E c \in Builders : pc'[c] \in InWorkspace /\ tmp_path(c)' = n
    BY <2>1, <1>m, <1>w DEF NoLeftovers
  <2>4. QED
    BY <2>1, <2>2, <2>3 DEF NoLeftovers
<1>6. CASE DropWorkspace(b)
  <2>1. /\ pc[b] = "drop_workspace" /\ pc[b] \in InWorkspace
        /\ dirs' = dirs \ {workspace(b)} /\ files' = files \ FilesOf(workspace(b))
        /\ UNCHANGED <<tmps, orphans>>
    BY <1>6 DEF DropWorkspace, envVars, InWorkspace, Steps
  <2>2. tmps[tmp_path(b)] = 0
    BY <2>1, <1>h DEF HoldsOf
  <2>3. \A d \in dirs' \ orphans' :
          \E c \in Builders : pc'[c] \in InWorkspace /\ workspace(c)' = d
    BY <2>1, <1>w DEF NoLeftovers
  <2>4. \A n \in TmpNames \ orphans' : tmps'[n] # 0 =>
          \E c \in Builders : pc'[c] \in InWorkspace /\ tmp_path(c)' = n
    BY <2>1, <2>2, <1>w DEF NoLeftovers
  <2>5. \A f \in files' : f[1] \in dirs'
    BY <2>1 DEF NoLeftovers, FilesOf
  <2>6. QED
    BY <2>3, <2>4, <2>5 DEF NoLeftovers
<1>7. QED
  BY <1>1, <1>2, <1>3, <1>4, <1>5, <1>6 DEF Build

\* Neither does any other step: a call that dies in its workspace is written
\* down as abandoned.
LEMMA CleanStep ==
  ASSUME PidsDistinct, CleanInv, [Next]_vars
  PROVE  NoLeftovers'
<1> USE DEF CleanInv, IInv
\* Calls keep their names through a step that ends none of them.
<1>s. ASSUME NEW c \in Builders, SameCall(c)
      PROVE  workspace(c)' = workspace(c) /\ tmp_path(c)' = tmp_path(c) /\ Owns(c)' = Owns(c)
  BY <1>s DEF SameCall, workspace, tmp_path, pid, Owns
<1>e. ASSUME NEW B, End(B), NEW c \in Builders \ B
      PROVE  SameCall(c)
  BY <1>e DEF End, SameCall
<1>1. ASSUME NEW b \in Builders, Begin(b) \/ FailEarly(b) PROVE NoLeftovers'
  <2>1. UNCHANGED <<dirs, files, tmps, orphans>> /\ pc[b] \notin InWorkspace
    BY <1>1 DEF Begin, FailEarly, fsVars, envVars, InWorkspace
  <2>2. \A c \in Builders \ {b} : SameCall(c)
    BY <1>1, OthersSame DEF Fail
  <2>3. QED
    BY <2>1, <2>2, <1>s, StillOwned DEF Owns
<1>2. ASSUME NEW b \in Builders, FailLate(b) PROVE NoLeftovers'
  <2>1. /\ UNCHANGED <<dirs, files, tmps, orphans, job, build_id>>
        /\ pc'[b] \in InWorkspace
    BY <1>2 DEF FailLate, fsVars, envVars, InWorkspace, Steps, Goto, TypeOK
  <2>2. workspace(b)' = workspace(b) /\ tmp_path(b)' = tmp_path(b)
    BY <2>1 DEF workspace, tmp_path, pid
  <2>3. \A c \in Builders \ {b} : SameCall(c)
    BY <1>2, OthersSame DEF Fail
  <2>4. QED
    BY <2>1, <2>2, <2>3, <1>s, StillOwned DEF Owns
<1>3. ASSUME NEW b \in Builders, Build(b) PROVE NoLeftovers'
  BY <1>3, BuildClean
<1>4. ASSUME NEW B \in SUBSET Builders, End(B), orphans' = orphans \cup Abandoned(B),
             UNCHANGED <<dirs, files, tmps>>
      PROVE  NoLeftovers'
  <2>1. \A c \in B : Owns(c) => workspace(c) \in orphans' /\ tmp_path(c) \in orphans'
    BY <1>4 DEF Abandoned, Owns
  <2>2. \A c \in Builders \ B : SameCall(c)
    BY <1>4, <1>e
  <2>3. QED
    BY <1>4, <2>1, <2>2, <1>s, StillOwned
<1>5. ASSUME NEW p \in Procs, Kill(p) PROVE NoLeftovers'
  BY <1>5, <1>4 DEF Kill, fsVars
<1>6. CASE PowerLoss
  BY <1>6, <1>4 DEF PowerLoss
<1>7. CASE SourceRewritten \/ UNCHANGED vars
  <2>1. UNCHANGED <<callVars, dirs, files, tmps, orphans>>
    BY <1>7 DEF SourceRewritten, fsVars, vars
  <2>2. \A c \in Builders : SameCall(c)
    BY <2>1 DEF SameCall, callVars
  <2>3. QED
    BY <2>1, <2>2, <1>s, StillOwned
<1>8. QED
  BY <1>1, <1>2, <1>3, <1>5, <1>6, <1>7 DEF Next, Fail

\* The inductive invariant holds of every behaviour in which pids tell
\* processes apart.
LEMMA CleanInvHolds == ASSUME PidsDistinct PROVE Spec => []CleanInv
<1> DEFINE Rest == NotKept /\ Holds /\ NoLeftovers
<1>1. Init => Rest
  <2> SUFFICES ASSUME Init PROVE Rest
    OBVIOUS
  <2>1. NotKept /\ Holds
    BY DEF Init, NotKept, Holds, HoldsOf, InWorkspace
  <2>2. NoLeftovers
    BY DEF Init, NoLeftovers
  <2>3. QED
    BY <2>1, <2>2
<1>2. IInv /\ Rest /\ [Next]_vars => Rest'
  BY HoldsStep, CleanStep DEF CleanInv
<1>3. IInv /\ Rest => CleanInv
  BY DEF CleanInv
<1> HIDE DEF Rest
<1>4. QED
  BY <1>1, <1>2, <1>3, IInvHolds, PTL DEF Spec

\* "all intermediate files are removed on success and failure" (direct.rs), for
\* any number of threads, processes, levels, builds, failures and crashes,
\* provided that pids are distinct: a workspace directory or tmp file that
\* exists belongs to a call that is still running or whose process died, and no
\* scratch file outlives its directory.
THEOREM NothingLeftOver == ASSUME PidsDistinct PROVE Spec => []NoLeftovers
BY CleanInvHolds, PTL DEF CleanInv

\* How many files can be among one or two names.
LEMMA FewFiles ==
  ASSUME NEW S, NEW x, NEW y, S \subseteq {x, y}
  PROVE  IsFiniteSet(S) /\ Cardinality(S) \in 0..2 /\ (x = y => Cardinality(S) <= 1)
<1>1. /\ IsFiniteSet({x}) /\ Cardinality({x}) = 1
  BY FS_Singleton
<1>2. /\ IsFiniteSet({x} \cup {y})
      /\ Cardinality({x} \cup {y}) = IF y \in {x} THEN Cardinality({x}) ELSE Cardinality({x}) + 1
  BY <1>1, FS_AddElement
<1>3. {x} \cup {y} = {x, y}
  OBVIOUS
<1>4. IsFiniteSet({x, y}) /\ Cardinality({x, y}) = IF y = x THEN 1 ELSE 2
  BY <1>1, <1>2, <1>3
<1>5. IsFiniteSet(S) /\ Cardinality(S) <= Cardinality({x, y})
  BY <1>4, FS_Subset
<1>6. Cardinality(S) \in Nat
  BY <1>5, FS_CardinalityType
<1>7. QED
  BY <1>4, <1>5, <1>6

\* A call's rows and levels are numbers.
LEMMA JobNumbers ==
  ASSUME TypeOK, NEW b \in Builders
  PROVE  job[b].rows \in Nat /\ job[b].levels \in Nat
<1>1. job[b] \in Jobs
  BY DEF TypeOK
<1>2. job[b].rows \in SourceRows /\ job[b].levels \in 0..MaxLevels
  BY <1>1, JobFields
<1>3. SourceRows \subseteq Nat /\ MaxLevels \in Nat
  BY ConstantsAssumption
<1>4. \A n \in SourceRows : n \in Nat
  BY <1>3
<1>5. \A n \in 0..MaxLevels : n \in Nat
  BY <1>3
<1>6. QED
  BY <1>2, <1>4, <1>5

\* The bound that scratch_upper_bound (direct.rs) computes before a build starts
\* covers what the build ever has in its workspace at one time, whatever its
\* level count and its rows, and whichever other builds run and fail meanwhile.
THEOREM BudgetHolds == ASSUME PidsDistinct PROVE Spec => []WorkspaceWithinBudget
<1>1. CleanInv => WorkspaceWithinBudget
  <2> SUFFICES ASSUME CleanInv, NEW b \in Builders, pc[b] \in InWorkspace
               PROVE  WorkspaceBytes(b) <= scratch_upper_bound(job[b].rows, job[b].levels)
    BY DEF WorkspaceWithinBudget
  <2>3. job[b].rows \in Nat /\ job[b].levels \in Nat
    BY JobNumbers DEF CleanInv, IInv
  <2> DEFINE w == workspace(b)
             bucket_files == {f \in FilesOf(w) : f[2] = "bucket"}
             level_files == {f \in FilesOf(w) : f[2] = "level"}
  <2>h. /\ FilesOf(w) \subseteq ScratchOf(b)
        /\ \A f \in FilesOf(w) : job[b].levels > (IF f[2] = "bucket" THEN 1 ELSE 0)
    BY DEF CleanInv, Holds, HoldsOf
  <2>1. Cardinality(bucket_files) \in 0..2
    <3>1. bucket_files \subseteq {<<w, "bucket", level[b]>>, <<w, "bucket", level[b] - 1>>}
      BY <2>h DEF ScratchOf
    <3>2. QED
      BY <3>1, FewFiles
  <2>2. Cardinality(level_files) \in 0..1
    <3> DEFINE f0 == <<w, "level", level[b]>>
    <3>1. level_files \subseteq {f0, f0}
      BY <2>h DEF ScratchOf
    <3>2. Cardinality(level_files) \in 0..2 /\ (f0 = f0 => Cardinality(level_files) <= 1)
      BY <3>1, FewFiles
    <3>3. QED
      BY <3>2
  <2>4. aux_upper_bound(job[b].rows) \in Nat
    BY <2>3 DEF aux_upper_bound, div_ceil
  <2>5. job[b].levels <= 1 => Cardinality(bucket_files) = 0
    <3>1. job[b].levels <= 1 => bucket_files = {}
      BY <2>h, <2>3
    <3>2. QED
      BY <3>1, FS_EmptySet
  <2>6. job[b].levels = 0 => Cardinality(level_files) = 0
    <3>1. job[b].levels = 0 => level_files = {}
      BY <2>h, <2>3
    <3>2. QED
      BY <3>1, FS_EmptySet
  <2> DEFINE aux == aux_upper_bound(job[b].rows)
             n == job[b].rows
  <2>7. /\ Cardinality(bucket_files) * 4 * n <= (IF job[b].levels > 1 THEN 8 * n ELSE 0)
        /\ Cardinality(bucket_files) * 4 * n \in Nat
    BY <2>1, <2>3, <2>5
  <2>8. /\ Cardinality(level_files) * aux <= (IF job[b].levels = 0 THEN 0 ELSE aux)
        /\ Cardinality(level_files) * aux \in Nat
    BY <2>2, <2>3, <2>4, <2>6
  <2>9. QED
    BY <2>3, <2>4, <2>7, <2>8 DEF WorkspaceBytes, scratch_upper_bound
<1>2. QED
  BY <1>1, CleanInvHolds, PTL
==============================================================================

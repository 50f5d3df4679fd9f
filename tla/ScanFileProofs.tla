--------------------------- MODULE ScanFileProofs ---------------------------
(***************************************************************************)
(* Proofs about recorded scans and their files: the types, that recalled   *)
(* data is the opened file's until the acquisition records over it, that   *)
(* no mark of a file is left once its recalling has ended, and that saved  *)
(* scans are in order; for a store of any size and any number of saves,    *)
(* openings and restarts.  The last one assumes that at most one frame     *)
(* ends while a store DMA runs (StoreLag <= 1).                            *)
(***************************************************************************)
EXTENDS ScanFile, DmaDriverProofs

Files ==
  [source : {0, 1}, n : 0 .. MaxStoreIndex + 2, len : Nat, data : [Slots -> Frame],
   marks : [Slots -> BOOLEAN], scanned : [Slots -> BOOLEAN], moved : BOOLEAN]

UserWords ==
  /\ freeze \in BOOLEAN /\ fpga \in BOOLEAN /\ recalling \in BOOLEAN
  /\ loadData \in BOOLEAN /\ scanStart \in BOOLEAN /\ moved \in BOOLEAN

TaskWords ==
  /\ task \in {"idle", "save", "open", "leave"}
  /\ response \in {"none", "asked", "sending", "stopped", "freeze"}
  /\ kept \subseteq Slots /\ acts \in Nat

FileWords == file \in Files /\ file.len <= file.n /\ job \in [kind : Kinds, timer : Nat]

\* The types, in parts a step disturbs separately.
LEMMA TypeParts == FileTypeOK <=> TypeOK /\ UserWords /\ TaskWords /\ FileWords
BY DEF FileTypeOK, UserWords, TaskWords, FileWords, Files

-----------------------------------------------------------------------------
(* What a step does to the driver's words *)

\* RefreshScanInfor may begin with the source a file has set.
Restart == \E source \in {0, 1} : RestartSource(source)
Recalled == \E source \in {0, 1} : RefreshRecalled(source)

\* Every step is the driver's or the restart's, or one of four of data recalling.
LEMMA DriverStep ==
  ASSUME FileTypeOK, [FileNext]_fileVars
  PROVE  \/ [Next]_driverVars
         \/ Restart
         \/ Recalled
         \/ ReadFile \/ ResponseStops \/ \E s \in Slots : Browse(s)
<1>1. CASE \/ \E enc \in EncoderCounts : FrameArrives(enc)
           \/ FrameStored \/ Refreshing
  BY <1>1 DEF FrameArrives, FrameStored, Refreshing, Next
<1>2. CASE NewScan \/ StartScan
  BY <1>2 DEF NewScan, StartScan, Restart, Next, FileTypeOK, TypeOK
<1>3. CASE \/ StartPauseByMenu \/ StartPause \/ BeginSave \/ EndSave \/ BeginOpen
           \/ ResponseSends \/ ResponseFreezes
  BY <1>3 DEF StartPauseByMenu, StartPause, BeginSave, EndSave, BeginOpen, ResponseSends,
              ResponseFreezes
<1>4. CASE EraseRecalled
  BY <1>4 DEF EraseRecalled, Recalled, FileTypeOK, TypeOK
<1>5. CASE LeaveRecall \/ ResponseRefreshes
  <2>1. file.source \in {0, 1}
    BY DEF FileTypeOK
  <2> QED
    BY <1>5, <2>1 DEF LeaveRecall, ResponseRefreshes, Restart, Recalled
<1>6. CASE UNCHANGED fileVars
  BY <1>6 DEF fileVars
<1> QED
  BY <1>1, <1>2, <1>3, <1>4, <1>5, <1>6 DEF FileNext

\* A restart keeps the types, the scan it starts being of either source.
LEMMA RestartType ==
  ASSUME TypeOK, Restart
  PROVE  TypeOK'
<1>1. PICK source \in {0, 1} : RestartSource(source)
  BY DEF Restart
<1>2. fresh' \in [Slots -> BOOLEAN]
  BY <1>1, Zenon DEF RestartSource
<1>3. scanSource' \in {0, 1} /\ restarts' \in Nat
  BY <1>1 DEF RestartSource, TypeOK
<1> QED
  BY <1>1, <1>2, <1>3, Zenon DEF RestartSource, TypeOK, ringVars

\* So does RefreshScanInfor of recalled data,
LEMMA RecalledType ==
  ASSUME TypeOK, Recalled
  PROVE  TypeOK'
<1>1. PICK source \in {0, 1} : RefreshRecalled(source)
  BY DEF Recalled
<1>2. 0 \in Nat /\ FALSE \in BOOLEAN
  OBVIOUS
<1> QED
  BY <1>1, <1>2, Zenon DEF RefreshRecalled, TypeOK, ringVars, restartVars

\* browsing, which shows a slot of the store or nothing,
LEMMA BrowseType ==
  ASSUME TypeOK, NEW s \in Slots, Browse(s)
  PROVE  TypeOK'
<1>1. ring' \in [Buffers -> Frame]
  <2>1. (IF scanMark[s] THEN store[s] ELSE NoFrame) \in Frame
    BY NoFrameInFrame DEF TypeOK
  <2> QED
    BY <2>1 DEF Browse, TypeOK
<1>2. timer' \in Nat
  BY DriverAssumption DEF Browse, TypeOK, Slots
<1> QED
  BY <1>1, <1>2, Zenon DEF Browse, TypeOK, restartVars

\* reading a file, whose data and marks are a store's,
LEMMA ReadFileType ==
  ASSUME FileTypeOK, ReadFile
  PROVE  TypeOK'
<1> USE DEF FileTypeOK
<1>1. store' \in [Slots -> Frame] /\ scanMark' \in [Slots -> BOOLEAN]
  BY DEF ReadFile, TypeOK
<1>2. ring' \in [Buffers -> Frame]
  <2>1. 0 \in Slots
    BY DriverAssumption DEF Slots
  <2> QED
    BY <1>1, <2>1 DEF ReadFile, TypeOK
<1>3. timer' \in Nat
  BY DEF ReadFile, TypeOK
<1>4. fresh' \in [Slots -> BOOLEAN]
  BY Zenon DEF ReadFile, Nowhere
<1> QED
  BY <1>1, <1>2, <1>3, <1>4, Zenon DEF ReadFile, TypeOK, restartVars

\* and the response, which shows the first slot.
LEMMA ResponseStopsType ==
  ASSUME TypeOK, ResponseStops
  PROVE  TypeOK'
<1>1. ring' \in [Buffers -> Frame]
  <2>1. store[0] \in Frame
    BY DriverAssumption DEF Slots, TypeOK
  <2> QED
    BY <2>1 DEF ResponseStops, TypeOK
<1> QED
  BY <1>1, Zenon DEF ResponseStops, TypeOK, storeVars, restartVars

\* Hence every step keeps the driver's types.
LEMMA DriverType ==
  ASSUME FileTypeOK, [FileNext]_fileVars
  PROVE  TypeOK'
<1>1. TypeOK
  BY DEF FileTypeOK
<1> QED
  BY <1>1, DriverStep, TypeStep, RestartType, RecalledType, BrowseType, ReadFileType,
     ResponseStopsType

-----------------------------------------------------------------------------
(* The inductive invariant *)

\* While a timer scan runs, config[9] is within the store or one past its end.
TimerFits ==
  scanSource = 0 /\ ~restarting =>
    /\ timer <= MaxStoreIndex + 1
    /\ busy => timer <= MaxStoreIndex

\* So a file of a timer scan is no longer than the store.
JobFits == task = "save" /\ job.kind = "timer" => job.timer <= MaxStoreIndex + 1

\* Recalling keeps the marks of the store: there is no restart under way, and the store
\* DMA that runs writes none of the slots kept.
RecallKeeps ==
  /\ loadData \/ kept # {} => recalling
  /\ kept # {} \/ task = "open" => Settled
  /\ task = "leave" => ~recalling
  /\ busy => storeTo \notin kept

\* Outside the recalling of a file the driver's invariants hold.
ScanInv == ~loadData /\ task # "leave" => StaleStore /\ ResetEmpty /\ MarkedIsRecorded

FileInv ==
  /\ FileTypeOK
  /\ TimerFits /\ JobFits
  /\ RecallKeeps /\ RecallShowsFile
  /\ ScanInv
-----------------------------------------------------------------------------
(* The types *)

\* The words of the user interface are flags.
LEMMA UserStep ==
  ASSUME UserWords, [FileNext]_fileVars
  PROVE  UserWords'
<1>1. freeze' \in {freeze, ~freeze, TRUE}
  BY DEF FileNext, FrameArrives, FrameStored, Refreshing, NewScan, EraseRecalled, StartScan,
         StartPauseByMenu, StartPause, LeaveRecall, Browse, BeginSave, EndSave, BeginOpen,
         ReadFile, ResponseSends, ResponseStops, ResponseRefreshes, ResponseFreezes,
         fileVars, userVars
<1>2. fpga' \in {fpga, freeze, fpga /\ freeze, fpga \/ ~freeze, FALSE, TRUE}
  BY DEF FileNext, FrameArrives, FrameStored, Refreshing, NewScan, EraseRecalled, StartScan,
         StartPauseByMenu, StartPause, LeaveRecall, Browse, BeginSave, EndSave, BeginOpen,
         ReadFile, ResponseSends, ResponseStops, ResponseRefreshes, ResponseFreezes,
         fileVars, userVars
<1>3. /\ recalling' \in {recalling, ~freeze, TRUE}
      /\ loadData' \in {loadData, loadData /\ ~freeze, TRUE}
  BY DEF FileNext, FrameArrives, FrameStored, Refreshing, NewScan, EraseRecalled, StartScan,
         StartPauseByMenu, StartPause, LeaveRecall, Browse, BeginSave, EndSave, BeginOpen,
         ReadFile, ResponseSends, ResponseStops, ResponseRefreshes, ResponseFreezes,
         fileVars, userVars
<1>4. /\ scanStart' \in {scanStart, FALSE, TRUE}
      /\ moved' \in {moved, FALSE, moved \/ scanSource = 0}
  BY DEF FileNext, FrameArrives, FrameStored, Refreshing, NewScan, EraseRecalled, StartScan,
         StartPauseByMenu, StartPause, LeaveRecall, Browse, BeginSave, EndSave, BeginOpen,
         ReadFile, ResponseSends, ResponseStops, ResponseRefreshes, ResponseFreezes,
         fileVars, userVars, pastVars
<1> QED
  BY <1>1, <1>2, <1>3, <1>4, Zenon DEF UserWords

\* The tasks, and the slots kept.
LEMMA TaskStep ==
  ASSUME TaskWords, [FileNext]_fileVars
  PROVE  TaskWords'
<1>1. /\ task' \in {task, "idle", "save", "open", "leave"}
      /\ response' \in {response, "none", "asked", "sending", "stopped", "freeze"}
  BY DEF FileNext, FrameArrives, FrameStored, Refreshing, NewScan, EraseRecalled, StartScan,
         StartPauseByMenu, StartPause, LeaveRecall, Browse, BeginSave, EndSave, BeginOpen,
         ReadFile, ResponseSends, ResponseStops, ResponseRefreshes, ResponseFreezes,
         fileVars, taskVars
<1>2. kept' \subseteq kept \cup Slots
  BY DEF FileNext, FrameArrives, FrameStored, Refreshing, NewScan, EraseRecalled, StartScan,
         StartPauseByMenu, StartPause, LeaveRecall, Browse, BeginSave, EndSave, BeginOpen,
         ReadFile, ResponseSends, ResponseStops, ResponseRefreshes, ResponseFreezes,
         fileVars, pastVars
<1>3. acts' \in {acts, acts + 1}
  BY DEF FileNext, FrameArrives, FrameStored, Refreshing, NewScan, EraseRecalled, StartScan,
         StartPauseByMenu, StartPause, LeaveRecall, Browse, BeginSave, EndSave, BeginOpen,
         ReadFile, ResponseSends, ResponseStops, ResponseRefreshes, ResponseFreezes,
         fileVars, taskVars
<1>4. kept' \subseteq Slots /\ acts' \in Nat
  BY <1>2, <1>3 DEF TaskWords
<1> QED
  BY <1>1, <1>4, Zenon DEF TaskWords

\* What a save writes has the type of a file: the slots it copies are the store's.
LEMMA SavedType ==
  ASSUME FileTypeOK, JobFits, task = "save"
  PROVE  Saved \in Files /\ Saved.len <= Saved.n
<1> DEFINE kind == job.kind
           t == job.timer
           n == Length(kind, t)
           Slot(k) == SlotOf(kind, t, k)
<1>1. /\ kind \in Kinds /\ t \in Nat /\ (kind = "timer" => t <= MaxStoreIndex + 1)
      /\ MaxStoreIndex \in Nat /\ ScanStepQty \in Nat /\ ScanStepQty <= MaxStoreIndex + 1
  BY DriverAssumption, FileAssumption DEF FileTypeOK, JobFits
<1>2. n \in 0 .. MaxStoreIndex + 2
  BY <1>1 DEF Length, Kinds
<1>3. \A k \in Slots : k < n /\ Writable(kind, t) => Slot(k) \in Slots
  BY <1>1 DEF SlotOf, Writable, Slots, Length, Kinds
<1>4. /\ store \in [Slots -> Frame] /\ ring[0] \in Frame /\ NoFrame \in Frame
      /\ scanSource \in {0, 1} /\ moved \in BOOLEAN
  BY NoFrameInFrame DEF FileTypeOK, TypeOK, Buffers
<1> HIDE DEF n, kind, t, Slot
<1>5. [k \in Slots |-> IF k >= n \/ ~Writable(kind, t) THEN NoFrame
                       ELSE IF kind = "frame" THEN ring[0] ELSE store[Slot(k)]]
        \in [Slots -> Frame]
  <2> SUFFICES ASSUME NEW k \in Slots
               PROVE  (IF k >= n \/ ~Writable(kind, t) THEN NoFrame
                       ELSE IF kind = "frame" THEN ring[0] ELSE store[Slot(k)]) \in Frame
    OBVIOUS
  <2>1. k < n \/ k >= n
    BY <1>2 DEF Slots
  <2> QED
    BY <1>3, <1>4, <2>1
<1>6. (IF Writable(kind, t) THEN n ELSE 0) \in Nat /\ (IF Writable(kind, t) THEN n ELSE 0) <= n
  BY <1>2
<1>7. /\ [k \in Slots |-> k < n /\ (kind = "encoder" => scanMark[k])] \in [Slots -> BOOLEAN]
      /\ [k \in Slots |-> /\ k < n /\ kind # "frame"
                          /\ Writable(kind, t)
                          /\ Slot(k) >= resetAt /\ Slot(k) >= settled
                          /\ fresh[Slot(k)]] \in [Slots -> BOOLEAN]
  BY Zenon
<1> QED
  BY <1>2, <1>4, <1>5, <1>6, <1>7, Zenon DEF Saved, Files, n, kind, t, Slot

\* A file changes when a save ends, the job when it begins.
LEMMA FileStep ==
  ASSUME FileTypeOK, JobFits, [FileNext]_fileVars
  PROVE  FileWords'
<1>1. FileWords
  BY TypeParts
<1>2. CASE BeginSave
  <2>1. job' \in [kind : Kinds, timer : Nat]
    BY <1>2 DEF BeginSave, SaveKind, Kinds, FileTypeOK, TypeOK
  <2> QED
    BY <1>1, <1>2, <2>1 DEF BeginSave, FileWords
<1>3. CASE EndSave
  <2>1. job' \in [kind : Kinds, timer : Nat]
    BY <1>3 DEF EndSave, NoJob, Kinds
  <2>2. file' \in Files /\ file'.len <= file'.n
    BY <1>1, <1>3, SavedType DEF EndSave, FileWords
  <2> QED
    BY <2>1, <2>2 DEF FileWords
<1>4. CASE ~BeginSave /\ ~EndSave
  <2>1. file' = file /\ job' = job
    BY <1>4 DEF FileNext, FrameArrives, FrameStored, Refreshing, NewScan, EraseRecalled,
           StartScan, StartPauseByMenu, StartPause, LeaveRecall, Browse, BeginOpen,
           ReadFile, ResponseSends, ResponseStops, ResponseRefreshes, ResponseFreezes,
           fileVars, taskVars
  <2> QED
    BY <1>1, <2>1 DEF FileWords
<1> QED
  BY <1>2, <1>3, <1>4

\* No step leaves the declared types.
LEMMA FileTypeStep ==
  ASSUME FileTypeOK, JobFits, [FileNext]_fileVars
  PROVE  FileTypeOK'
<1>1. TypeOK' /\ UserWords' /\ TaskWords' /\ FileWords'
  BY DriverType, UserStep, TaskStep, FileStep, TypeParts
<1> QED
  BY <1>1 DEF FileTypeOK, UserWords, TaskWords, FileWords, Files

-----------------------------------------------------------------------------
(* The invariant, part by part *)

\* A frame wraps config[9] when it is past the end; a restart, a file or browsing puts it
\* within the store.
LEMMA TimerStep ==
  ASSUME FileTypeOK, TimerFits, [FileNext]_fileVars
  PROVE  TimerFits'
<1> USE DriverAssumption
<1>1. CASE UNCHANGED <<scanSource, restarting, timer, busy>>
  BY <1>1 DEF TimerFits
<1>2. ASSUME NEW enc \in EncoderCounts, FrameDone(enc) PROVE TimerFits'
  <2> DEFINE f == [id |-> frames + 1, enc |-> enc]
  <2>1. /\ UNCHANGED <<scanSource, restarting>>
        /\ DropFrame \/ OutOfRange(f) \/ StoreAtEncoder(f) \/ StoreAtTimer
    BY <1>2 DEF FrameDone, restartVars
  <2>2. CASE DropFrame
    BY <2>1, <2>2 DEF DropFrame, TimerFits
  <2>3. CASE OutOfRange(f)
    BY <2>1, <2>3 DEF OutOfRange, TimerFits
  <2>4. CASE StoreAtEncoder(f)
    BY <2>1, <2>4 DEF StoreAtEncoder, TimerFits
  <2>5. CASE StoreAtTimer
    BY <2>1, <2>5 DEF StoreAtTimer, TimerSlot, TimerFits, FileTypeOK, TypeOK
  <2> QED
    BY <2>1, <2>2, <2>3, <2>4, <2>5
<1>3. CASE StoreDone
  <2>1. busy /\ ~busy' /\ timer' = timer + 1 /\ UNCHANGED <<scanSource, restarting>>
    BY <1>3 DEF StoreDone, restartVars
  <2>2. timer \in Nat /\ MaxStoreIndex \in Nat
    BY DEF FileTypeOK, TypeOK
  <2>3. timer <= MaxStoreIndex => timer + 1 <= MaxStoreIndex + 1
    BY <2>2
  <2> QED
    BY <2>1, <2>3, Zenon DEF TimerFits
<1>4. CASE RestartIndices
  BY <1>4 DEF RestartIndices, TimerFits
<1>5. CASE Restart
  BY <1>5 DEF Restart, RestartSource, TimerFits
<1>6. CASE Recalled
  BY <1>6 DEF Recalled, RefreshRecalled, TimerFits
<1>7. CASE ClearMark \/ ResetScanData \/ ResetMark \/ ResetSlot \/ Claim \/ UNCHANGED driverVars
  <2>1. UNCHANGED <<scanSource, restarting, timer, busy>>
    BY <1>7 DEF ClearMark, ResetScanData, ResetMark, ResetSlot, Claim, driverVars, storeVars,
                restartVars
  <2> QED
    BY <1>1, <2>1
<1>8. CASE ReadFile
  <2>1. timer' \in {0, timer} /\ UNCHANGED <<scanSource, restarting, busy>>
    BY <1>8 DEF ReadFile, restartVars
  <2>2. CASE timer' = 0
    <3>1. timer' <= MaxStoreIndex /\ timer' <= MaxStoreIndex + 1
      BY <2>2
    <3> QED
      BY <3>1, Zenon DEF TimerFits
  <2>3. CASE timer' = timer
    BY <1>1, <2>1, <2>3
  <2> QED
    BY <2>1, <2>2, <2>3
<1>9. CASE ResponseStops
  <2>1. UNCHANGED <<scanSource, restarting, timer, busy>>
    BY <1>9 DEF ResponseStops, storeVars, restartVars
  <2> QED
    BY <1>1, <2>1
<1>10. ASSUME NEW s \in Slots, Browse(s) PROVE TimerFits'
  BY <1>10 DEF Browse, restartVars, TimerFits, Slots
<1>11. ASSUME NEW source \in Sources, RestartSource(source) PROVE TimerFits'
  BY <1>11 DEF RestartSource, TimerFits
<1> QED
  BY <1>2, <1>3, <1>4, <1>5, <1>6, <1>7, <1>8, <1>9, <1>10, <1>11, DriverStep DEF Next

\* A save reads config[9] when no restart is under way.
LEMMA JobStep ==
  ASSUME TimerFits, JobFits, [FileNext]_fileVars
  PROVE  JobFits'
<1>1. CASE BeginSave
  BY <1>1 DEF BeginSave, UserFree, Settled, SaveKind, TimerFits, JobFits
<1>2. CASE ~BeginSave
  <2>1. task' = "save" => task = "save" /\ job' = job
    BY <1>2 DEF FileNext, FrameArrives, FrameStored, Refreshing, NewScan, EraseRecalled,
           StartScan, StartPauseByMenu, StartPause, LeaveRecall, Browse, EndSave, BeginOpen,
           ReadFile, ResponseSends, ResponseStops, ResponseRefreshes, ResponseFreezes,
           fileVars, taskVars, UserFree
  <2> QED
    BY <2>1 DEF JobFits
<1> QED
  BY <1>1, <1>2

\* While recalling keeps slots nothing but the acquisition and an opening writes them.
LEMMA KeepStep ==
  ASSUME FileTypeOK, RecallKeeps, RecallShowsFile, [FileNext]_fileVars
  PROVE  RecallKeeps' /\ RecallShowsFile'
<1> USE DEF RecallKeeps, RecallShowsFile, Settled, Resetting
<1>0. /\ TypeOK /\ UserWords /\ TaskWords
      /\ kept \subseteq Slots
  BY TypeParts DEF TaskWords
<1>1. ASSUME UNCHANGED <<busy, storeTo, scanMark, store, clearing, restarting, erasing, zeroing,
                         recalling, loadData, kept, file>>,
             task' \in {task, "idle", "save"}
      PROVE  RecallKeeps' /\ RecallShowsFile'
  BY <1>1
<1>2. ASSUME NEW enc \in EncoderCounts, FrameArrives(enc)
      PROVE  RecallKeeps' /\ RecallShowsFile'
  <2>1. /\ UNCHANGED <<store, clearing, restarting, erasing, zeroing, recalling, loadData, task,
                      file>>
        /\ kept' = kept \ {storeTo'}
    BY <1>0, <1>2, FrameDoneCases DEF FrameArrives, userVars, taskVars
  <2>2. \A s \in Slots : s # storeTo' => scanMark'[s] = scanMark[s]
    <3>1. \/ DropFrame \/ UNCHANGED scanMark
          \/ \E s \in Slots : StartStore(s)
      BY <1>0, <1>2, FrameDoneCases DEF FrameArrives
    <3>2. scanMark \in [Slots -> BOOLEAN]
      BY <1>0 DEF TypeOK
    <3> QED
      BY <3>1, <3>2 DEF DropFrame, StartStore
  <2> QED
    BY <1>0, <2>1, <2>2
<1>3. CASE FrameStored
  <2>1. /\ busy /\ ~busy'
        /\ UNCHANGED <<scanMark, clearing, restarting, erasing, zeroing, userVars, taskVars, kept>>
        /\ \A s \in Slots : s # storeTo => store'[s] = store[s]
    BY <1>0, <1>3 DEF FrameStored, StoreDone, restartVars, pastVars, TypeOK
  <2> QED
    BY <1>0, <2>1 DEF userVars, taskVars
<1>4. CASE Refreshing
  <2>1. /\ kept = {} /\ task # "open"
    BY <1>4, DriverAssumption DEF Refreshing, RestartIndices, ClearMark, ResetMark, ResetSlot
  <2>2. UNCHANGED <<recalling, loadData, task, kept>>
    BY <1>4 DEF Refreshing, userVars, taskVars, pastVars
  <2> QED
    BY <2>1, <2>2
<1>5. CASE NewScan \/ StartScan \/ LeaveRecall
  <2>1. ~recalling /\ kept = {} /\ ~loadData
    BY <1>5 DEF NewScan, StartScan, LeaveRecall
  <2>2. UNCHANGED <<recalling, loadData, kept>> /\ task' = "idle"
    BY <1>5 DEF NewScan, StartScan, LeaveRecall, UserFree, taskVars
  <2> QED
    BY <2>1, <2>2
<1>6. CASE EraseRecalled
  <2>1. RefreshRecalled(scanSource) /\ UNCHANGED <<recalling, loadData, task, file, kept>>
    BY <1>6 DEF EraseRecalled, taskVars
  <2> QED
    BY <1>1, <2>1 DEF RefreshRecalled, restartVars
<1>7. CASE StartPauseByMenu \/ BeginSave \/ ResponseSends \/ ResponseFreezes
  <2>1. /\ UNCHANGED <<driverVars, recalling, loadData, file, kept>>
        /\ task' \in {task, "save"}
    BY <1>7 DEF StartPauseByMenu, BeginSave, ResponseSends, ResponseFreezes, pastVars
  <2> QED
    BY <1>1, <2>1 DEF driverVars, storeVars, restartVars
<1>8. CASE StartPause
  <2>1. UNCHANGED <<busy, storeTo, scanMark, store, clearing, restarting, erasing, zeroing, file>>
    BY <1>8 DEF StartPause, driverVars, storeVars, restartVars
  <2>2. CASE freeze
    <3>1. ~recalling' /\ ~loadData' /\ kept' = {} /\ task' # "open"
      BY <1>8, <2>2 DEF StartPause
    <3> QED
      BY <3>1
  <2>3. CASE ~freeze
    <3>1. recalling' /\ kept' = kept /\ task' = "idle" /\ task = "idle"
      BY <1>8, <2>3 DEF StartPause, UserFree
    <3> QED
      BY <2>1, <3>1
  <2> QED
    BY <2>2, <2>3
<1>9. ASSUME NEW s \in Slots, Browse(s) PROVE RecallKeeps' /\ RecallShowsFile'
  BY <1>1, <1>9 DEF Browse, restartVars, userVars
<1>10. CASE EndSave
  <2>1. /\ UNCHANGED <<busy, storeTo, scanMark, store, clearing, restarting, erasing, zeroing,
                      recalling, loadData>>
        /\ task' = "idle"
        /\ (file' = file /\ kept' = kept) \/ kept' = {}
    BY <1>10 DEF EndSave, driverVars, storeVars, restartVars
  <2> QED
    BY <2>1
<1>11. CASE BeginOpen
  <2>1. /\ UNCHANGED <<driverVars, recalling, loadData, file, kept>>
        /\ task' = "open" /\ Settled
    BY <1>11 DEF BeginOpen, UserFree, pastVars
  <2> QED
    BY <2>1 DEF driverVars, storeVars, restartVars
<1>12. CASE ReadFile
  <2>1. /\ UNCHANGED <<busy, storeTo, clearing, restarting, erasing, zeroing, file>>
        /\ recalling' /\ task' = "idle" /\ Settled
        /\ scanMark' = file.marks
        /\ \A s \in Slots : s < file.len => store'[s] = file.data[s]
        /\ kept' = Slots \ (IF busy THEN {storeTo} ELSE {})
    BY <1>12 DEF ReadFile, restartVars
  <2> QED
    BY <2>1
<1>13. CASE ResponseStops
  BY <1>1, <1>13 DEF ResponseStops, storeVars, restartVars, pastVars
<1>14. CASE ResponseRefreshes
  <2>1. UNCHANGED <<recalling, loadData, task, file, kept>> /\ task = "idle"
    BY <1>14 DEF ResponseRefreshes
  <2>2. CASE recalling /\ RefreshRecalled(file.source)
    BY <1>1, <2>1, <2>2 DEF RefreshRecalled, restartVars
  <2>3. CASE ~recalling
    BY <2>1, <2>3
  <2> QED
    BY <1>14, <2>2, <2>3 DEF ResponseRefreshes
<1>15. CASE UNCHANGED fileVars
  BY <1>1, <1>15 DEF fileVars, driverVars, storeVars, restartVars, userVars, taskVars, pastVars
<1> QED
  BY <1>2, <1>3, <1>4, <1>5, <1>6, <1>7, <1>8, <1>9, <1>10, <1>11, <1>12, <1>13, <1>14, <1>15
     DEF FileNext

\* Recalling begins with the marks of a file and ends with a restart; in between the
\* driver's invariants are not asked for.
LEMMA ScanStep ==
  ASSUME FileTypeOK, RecallKeeps, ScanInv, [FileNext]_fileVars
  PROVE  ScanInv'
<1>1. TypeOK /\ UserWords
  BY TypeParts
<1>2. ASSUME [Next]_driverVars, ~loadData /\ task # "leave" PROVE ScanInv'
  BY <1>1, <1>2, StaleStoreStep, ResetEmptyStep, MarkedStep DEF ScanInv
<1>3. CASE Restart
  <2>1. restarting' /\ ~current' /\ \A s \in Slots : ~fresh'[s]
    BY <1>3 DEF Restart, RestartSource
  <2> QED
    BY <2>1 DEF ScanInv, StaleStore, ResetEmpty, MarkedIsRecorded, Vouched, Resetting
<1>4. ASSUME UNCHANGED <<busy, storeTo, current, scanMark, fresh, early, clearing,
                         restarting, erasing, zeroing>>,
             ~loadData /\ task # "leave"
      PROVE  ScanInv'
  BY <1>4 DEF ScanInv, StaleStore, ResetEmpty, MarkedIsRecorded, Vouched, Resetting
<1>5. CASE ~loadData' /\ task' # "leave" /\ ~Restart
  <2>1. ~loadData /\ task # "leave"
    <3>1. loadData => recalling
      BY DEF RecallKeeps
    <3>2. loadData' = loadData \/ StartPause \/ ReadFile
      BY DEF FileNext, FrameArrives, FrameStored, Refreshing, NewScan, EraseRecalled, StartScan,
         StartPauseByMenu, LeaveRecall, Browse, BeginSave, EndSave, BeginOpen,
         ResponseSends, ResponseStops, ResponseRefreshes, ResponseFreezes,
         fileVars, userVars
    <3>3. task' = task \/ LeaveRecall \/ task # "leave"
      BY DEF FileNext, FrameArrives, FrameStored, Refreshing, NewScan, EraseRecalled, StartScan,
         StartPauseByMenu, StartPause, Browse, BeginSave, EndSave, BeginOpen, ReadFile,
         ResponseSends, ResponseStops, ResponseRefreshes, ResponseFreezes,
         fileVars, taskVars, UserFree
    <3>4. ~ReadFile
      BY <1>5 DEF ReadFile
    <3>5. CASE StartPause
      BY <1>5, <3>1, <3>5 DEF StartPause, UserFree
    <3>6. ~LeaveRecall
      <4>1. file.source \in {0, 1}
        BY DEF FileTypeOK
      <4> QED
        BY <1>5, <4>1 DEF LeaveRecall, Restart
    <3> QED
      BY <1>5, <3>2, <3>3, <3>4, <3>5, <3>6
  <2>2. CASE Recalled \/ ResponseStops \/ \E s \in Slots : Browse(s)
    <3>1. UNCHANGED <<busy, storeTo, current, scanMark, fresh, early, clearing,
                    restarting, erasing, zeroing>>
      BY <2>2 DEF Recalled, RefreshRecalled, ResponseStops, Browse, storeVars, restartVars
    <3> QED
      BY <1>4, <2>1, <3>1
  <2>3. ~ReadFile
    BY <1>5 DEF ReadFile
  <2> QED
    BY <1>2, <1>5, <2>1, <2>2, <2>3, DriverStep
<1> QED
  BY <1>3, <1>5 DEF ScanInv

-----------------------------------------------------------------------------
(* The theorems *)

\* With an old file, cut or not, and nothing recorded.
LEMMA FileInvInit == FileInit => FileInv
<1> SUFFICES ASSUME FileInit PROVE FileInv
  OBVIOUS
<1>1. TypeOK
  BY InitTypeOK DEF FileInit
<1>2. UserWords /\ TaskWords
  BY DEF FileInit, UserWords, TaskWords
<1>3. FileWords
  <2>1. NoFile \in Files
    BY DriverAssumption, NoFrameInFrame DEF NoFile, Nowhere, Files
  <2>2. CutFile \in Files /\ CutFile.len <= CutFile.n
    <3> DEFINE two == IF MaxStoreIndex = 0 THEN 1 ELSE 2
               marks == [s \in Slots |-> s < 2]
    <3>1. two \in 0 .. MaxStoreIndex + 2 /\ 1 <= two /\ marks \in [Slots -> BOOLEAN]
      BY DriverAssumption
    <3>2. CutFile = [NoFile EXCEPT !.n = two, !.len = 1, !.marks = marks]
      BY Zenon DEF CutFile
    <3> HIDE DEF two, marks
    <3>3. NoFile \in Files
      BY <2>1
    <3> QED
      BY <3>1, <3>2, <3>3 DEF Files
  <2>3. NoFile.len <= NoFile.n
    BY DEF NoFile
  <2>4. job \in [kind : Kinds, timer : Nat]
    BY DEF FileInit, NoJob, Kinds
  <2> QED
    BY <2>1, <2>2, <2>3, <2>4 DEF FileInit, FileWords
<1>4. FileTypeOK
  BY <1>1, <1>2, <1>3, TypeParts
<1>5. ~busy /\ timer = 0 /\ task = "idle" /\ kept = {} /\ ~loadData /\ ~current
      /\ \A s \in Slots : ~scanMark[s] /\ ~fresh[s]
  BY DEF FileInit, Init
<1>6. TimerFits
  BY <1>5, DriverAssumption DEF TimerFits
<1>7. JobFits /\ RecallKeeps /\ RecallShowsFile /\ ScanInv
  BY <1>5 DEF JobFits, RecallKeeps, RecallShowsFile, ScanInv, StaleStore, ResetEmpty,
              MarkedIsRecorded, Vouched, Resetting
<1> QED
  BY <1>4, <1>6, <1>7 DEF FileInv

\* The parts together are inductive.
LEMMA FileInvStep == FileInv /\ [FileNext]_fileVars => FileInv'
<1> SUFFICES ASSUME FileInv, [FileNext]_fileVars PROVE FileInv'
  OBVIOUS
<1> USE DEF FileInv
<1>1. FileTypeOK'
  BY FileTypeStep
<1>2. TimerFits' /\ JobFits'
  BY TimerStep, JobStep
<1>3. RecallKeeps' /\ RecallShowsFile'
  BY KeepStep
<1>4. ScanInv'
  BY ScanStep
<1> QED
  BY <1>1, <1>2, <1>3, <1>4

\* The invariant holds of every state a save, an opening or a frame can lead to.
LEMMA FileInvariant == FileSpec => []FileInv
BY FileInvInit, FileInvStep, PTL DEF FileSpec

(***************************************************************************)
(* Files, saves and openings are of the declared types; above all, a file  *)
(* promises one slot more than the store has at most (saveInspectData).    *)
(***************************************************************************)
THEOREM FileTypeCorrect == FileSpec => []FileTypeOK
<1>1. FileInv => FileTypeOK
  BY DEF FileInv
<1> QED
  BY <1>1, FileInvariant, PTL

(***************************************************************************)
(* What is recalled is the opened file's, until the acquisition records    *)
(* over it (openDataFile, ResponseForDataLoad, data_3142).                 *)
(***************************************************************************)
THEOREM RecalledIsFile == FileSpec => []RecallShowsFile
<1>1. FileInv => RecallShowsFile
  BY DEF FileInv
<1> QED
  BY <1>1, FileInvariant, PTL

(***************************************************************************)
(* Once recalling has ended no mark that the new scan can clear vouches    *)
(* for a slot of the file (RefreshScanInfor in callback.c).                *)
(***************************************************************************)
THEOREM NoFileMarks == FileSpec => []FileMarksGone
<1>1. FileInv => FileMarksGone
  BY DEF FileInv, ScanInv, FileMarksGone
<1> QED
  BY <1>1, FileInvariant, PTL
-----------------------------------------------------------------------------
(* The order of a saved scan *)

\* What the ring, the store and the file hold has ended.
FramesEnded ==
  /\ \A b \in Buffers : ring[b].id <= frames
  /\ \A s \in Slots : store[s].id <= frames /\ file.data[s].id <= frames

\* A timer scan with config[9] where the driver left it, and no ring buffer taken from it
\* by the response to an opened file.
Undisturbed == scanSource = 0 /\ ~moved /\ response # "stopped"

\* Older goes round the store: before the wrap it says nothing of the slots from config[9]
\* on, where an earlier recording may lie that recalling left there.
RecordedInOrder ==
  Undisturbed =>
    \A s, t \in Slots :
      fresh[s] /\ fresh[t] /\ Older(s, t) /\ (circled \/ (s < t /\ t < timer)) =>
        store[s].id < store[t].id

\* The frame being stored belongs in the slot that is due, and is the youngest, unless
\* the erase key has started config[9] anew meanwhile.
StoreIsNewest ==
  Undisturbed /\ busy /\ current =>
    \/ timer = 0 /\ ~circled
    \/ storeTo = timer /\ \A s \in Slots : fresh[s] => store[s].id < ring[src].id

\* A store DMA begun before the last restart finds nothing recorded since.
NothingYet == busy /\ ~current => \A s \in Slots : ~fresh[s]

\* Nor does a reset find anything.
ResetFinds == Resetting => ~current /\ \A s \in Slots : ~fresh[s]

Ordered == RecordedInOrder /\ StoreIsNewest /\ NothingYet /\ ResetFinds

\* The FPGA rests while the screen is frozen, but for the laws being sent.
Rests == freeze /\ response # "sending" => ~fpga

\* While a save writes, no restart, response or frame disturbs the store: only the frame
\* being stored may end.
SaveStill ==
  task = "save" =>
    /\ ~fpga /\ response \in {"none", "asked"} /\ Settled
    /\ job.kind = "encoder" => scanSource # 0
    /\ job.kind \in {"timer", "circled"} =>
         /\ scanSource = 0
         /\ circled <=> job.kind = "circled"
         /\ timer = job.timer \/ (~busy /\ timer = job.timer + 1)

OrderInv ==
  /\ FileInv
  /\ SourceSafe /\ FramesEnded
  /\ Ordered
  /\ Rests /\ SaveStill /\ SavedInOrder

\* Recalling touches neither the FPGA's place in the ring nor the transfers.
LEMMA SourceSafeKept ==
  ASSUME StoreLag <= 1, FileTypeOK, SourceSafe, [FileNext]_fileVars
  PROVE  SourceSafe'
<1>1. CASE Restart \/ Recalled \/ ReadFile \/ ResponseStops \/ \E s \in Slots : Browse(s)
  <2>1. UNCHANGED <<counter, inUse, busy, src, lag, torn>>
    BY <1>1 DEF Restart, RestartSource, Recalled, RefreshRecalled, ReadFile, ResponseStops,
                Browse, ringVars, storeVars
  <2> QED
    BY <2>1 DEF SourceSafe, Ahead
<1> QED
  BY <1>1, DriverStep, SourceSafeStep DEF FileTypeOK

\* The slots a save writes are the store's.
LEMMA SavedSlot ==
  ASSUME FileTypeOK, JobFits, task = "save", NEW k \in Slots,
         k < Length(job.kind, job.timer), Writable(job.kind, job.timer)
  PROVE  SlotOf(job.kind, job.timer, k) \in Slots
<1>1. /\ job.kind \in Kinds /\ job.timer \in Nat
      /\ job.kind = "timer" => job.timer <= MaxStoreIndex + 1
      /\ MaxStoreIndex \in Nat /\ ScanStepQty \in Nat /\ ScanStepQty <= MaxStoreIndex + 1
  BY DriverAssumption, FileAssumption DEF FileTypeOK, JobFits
<1> QED
  BY <1>1 DEF SlotOf, Writable, Slots, Length, Kinds

\* A frame ends before anything shows it.
LEMMA FramesEndedStep ==
  ASSUME FileTypeOK, JobFits, FramesEnded, [FileNext]_fileVars
  PROVE  FramesEnded'
<1>0. TypeOK /\ frames \in Nat /\ NoFrame.id = 0 /\ 0 \in Slots /\ 0 \in Buffers
      /\ file.data \in [Slots -> Frame]
  BY DriverAssumption DEF FileTypeOK, TypeOK, NoFrame, Slots, Buffers
<1>1. file'.data = file.data \/ EndSave
  BY DEF FileNext, FrameArrives, FrameStored, Refreshing, NewScan, EraseRecalled, StartScan,
         StartPauseByMenu, StartPause, LeaveRecall, Browse, BeginSave, BeginOpen, ReadFile,
         ResponseSends, ResponseStops, ResponseRefreshes, ResponseFreezes, fileVars, taskVars
<1>2. CASE EndSave
  <2>1. UNCHANGED <<ring, frames, store>>
    BY <1>2 DEF EndSave, driverVars, ringVars, storeVars
  <2>2. ASSUME NEW k \in Slots PROVE Saved.data[k].id <= frames
    <3> DEFINE n == Length(job.kind, job.timer)
               slot == SlotOf(job.kind, job.timer, k)
               w == Writable(job.kind, job.timer)
    <3>1. Saved.data[k] = IF k >= n \/ ~w THEN NoFrame
                          ELSE IF job.kind = "frame" THEN ring[0] ELSE store[slot]
      BY DEF Saved
    <3>2. n \in Int
      BY DriverAssumption DEF FileTypeOK, Length, Kinds
    <3>3. k < n /\ w => slot \in Slots
      BY <1>2, SavedSlot DEF EndSave
    <3> HIDE DEF n, slot, w
    <3>4. k \in Int
      BY DEF Slots
    <3>5. \/ Saved.data[k] = NoFrame \/ Saved.data[k] = ring[0]
          \/ slot \in Slots /\ Saved.data[k] = store[slot]
      <4>1. CASE k < n /\ w
        <5>1. ~(k >= n \/ ~w) /\ slot \in Slots
          BY <3>2, <3>3, <3>4, <4>1
        <5> QED
          BY <3>1, <5>1, Zenon
      <4>2. CASE ~(k < n /\ w)
        <5>1. k >= n \/ ~w
          BY <3>2, <3>4, <4>2
        <5> QED
          BY <3>1, <5>1, Zenon
      <4> QED
        BY <4>1, <4>2
    <3> QED
      BY <1>0, <3>5 DEF FramesEnded
  <2>3. \A k \in Slots : file'.data[k].id <= frames
    <3>1. file' = file \/ file' = Saved
      BY <1>2 DEF EndSave
    <3>2. \A k \in Slots : file.data[k].id <= frames
      BY DEF FramesEnded
    <3> QED
      BY <2>2, <3>1, <3>2
  <2> QED
    BY <2>1, <2>3 DEF FramesEnded
<1>3. ASSUME \A b \in Buffers : ring'[b].id <= frames', \A s \in Slots : store'[s].id <= frames',
             frames' \in {frames, frames + 1}, file'.data = file.data
      PROVE  FramesEnded'
  <2>1. \A s \in Slots : file.data[s].id <= frames'
    BY <1>0, <1>3 DEF FramesEnded, Frame
  <2> QED
    BY <1>3, <2>1 DEF FramesEnded
<1>4. CASE UNCHANGED <<ring, frames, store>> /\ ~EndSave
  BY <1>0, <1>1, <1>3, <1>4 DEF FramesEnded
<1>5. ASSUME NEW enc \in EncoderCounts, FrameDone(enc), ~EndSave PROVE FramesEnded'
  <2>1. /\ frames' = frames + 1 /\ store' = store
        /\ ring' = [ring EXCEPT ![counter] = [id |-> frames + 1, enc |-> enc]]
    BY <1>0, <1>5, FrameDoneCases
  <2>2. \A b \in Buffers : ring'[b].id <= frames'
    BY <1>0, <2>1 DEF FramesEnded, TypeOK, Frame
  <2>3. \A s \in Slots : store'[s].id <= frames'
    BY <1>0, <2>1 DEF FramesEnded, TypeOK, Frame
  <2> QED
    BY <1>1, <1>3, <1>5, <2>1, <2>2, <2>3
<1>6. CASE StoreDone /\ ~EndSave
  <2>1. UNCHANGED <<ring, frames>>
        /\ store' = [store EXCEPT ![storeTo] = IF torn THEN NoFrame ELSE ring[src]]
    BY <1>6 DEF StoreDone, ringVars
  <2>2. \A s \in Slots : store'[s].id <= frames'
    BY <1>0, <2>1 DEF FramesEnded, TypeOK
  <2> QED
    BY <1>1, <1>3, <1>6, <2>1, <2>2 DEF FramesEnded
<1>7. CASE ResetSlot /\ ~EndSave
  <2>1. UNCHANGED <<ring, frames>> /\ \A s \in Slots : store'[s] \in {NoFrame, store[s]}
    BY <1>7 DEF ResetSlot, ringVars
  <2>2. \A s \in Slots : store'[s].id <= frames'
    BY <1>0, <2>1 DEF FramesEnded
  <2> QED
    BY <1>1, <1>3, <1>7, <2>1, <2>2 DEF FramesEnded
<1>8. CASE ReadFile /\ ~EndSave
  <2>1. frames' = frames /\ ring' = [ring EXCEPT ![0] = store'[0]]
        /\ \A s \in Slots : store'[s] \in {file.data[s], store[s]}
    BY <1>8 DEF ReadFile
  <2>2. \A s \in Slots : store'[s].id <= frames'
    BY <1>0, <2>1 DEF FramesEnded
  <2>3. \A b \in Buffers : ring'[b].id <= frames'
    BY <1>0, <2>1, <2>2 DEF FramesEnded, TypeOK
  <2> QED
    BY <1>1, <1>3, <1>8, <2>1, <2>2, <2>3
<1>9. CASE (ResponseStops \/ \E s \in Slots : Browse(s)) /\ ~EndSave
  <2>1. PICK x : /\ UNCHANGED <<store, frames>>
                 /\ x = ring[0] \/ x = NoFrame \/ \E s \in Slots : x = store[s]
                 /\ ring' = ring \/ ring' = [ring EXCEPT ![0] = x]
    <3>1. CASE ResponseStops
      <4>1. /\ UNCHANGED <<store, frames>>
            /\ ring' = ring \/ ring' = [ring EXCEPT ![0] = store[0]]
        BY <3>1 DEF ResponseStops, storeVars
      <4> QED
        BY <1>0, <4>1
    <3>2. ASSUME NEW s \in Slots, Browse(s)
          PROVE  \E x : /\ UNCHANGED <<store, frames>>
                        /\ x = ring[0] \/ x = NoFrame \/ \E i \in Slots : x = store[i]
                        /\ ring' = ring \/ ring' = [ring EXCEPT ![0] = x]
      BY <3>2 DEF Browse
    <3> QED
      BY <1>9, <3>1, <3>2
  <2>2. x.id <= frames
    BY <1>0, <2>1 DEF FramesEnded
  <2>3. \A b \in Buffers : ring'[b].id <= frames'
    BY <1>0, <2>1, <2>2 DEF FramesEnded, TypeOK
  <2> QED
    BY <1>1, <1>3, <1>9, <2>1, <2>3 DEF FramesEnded
<1>10. CASE ~EndSave /\ (\/ Restart \/ Recalled \/ RestartIndices \/ ClearMark \/ ResetMark
                         \/ ResetScanData \/ Claim \/ UNCHANGED driverVars
                         \/ \E source \in Sources : RestartSource(source))
  <2>1. UNCHANGED <<ring, frames, store>>
    BY <1>10 DEF Restart, RestartSource, Recalled, RefreshRecalled, RestartIndices, ClearMark,
                 ResetMark, ResetScanData, Claim, driverVars, ringVars, storeVars
  <2> QED
    BY <1>4, <1>10, <2>1
<1> QED
  BY <1>2, <1>5, <1>6, <1>7, <1>8, <1>9, <1>10, DriverStep DEF Next

\* Config[9] and the ring are a timer scan's again only when a restart begins them anew.
LEMMA UndisturbedBefore ==
  ASSUME FileTypeOK, [FileNext]_fileVars, Undisturbed', scanSource' = scanSource
  PROVE  Undisturbed \/ Restart \/ Recalled
<1>1. file.source \in {0, 1} /\ scanSource \in {0, 1} /\ Sources \subseteq {0, 1}
  BY DriverAssumption DEF FileTypeOK, TypeOK
<1>2. CASE NewScan \/ EraseRecalled \/ LeaveRecall \/ ResponseRefreshes
  BY <1>1, <1>2 DEF NewScan, EraseRecalled, LeaveRecall, ResponseRefreshes, Restart, Recalled
<1>3. CASE StartScan
  BY <1>1, <1>3 DEF StartScan, Restart, Undisturbed, taskVars
<1>4. CASE ~(NewScan \/ EraseRecalled \/ LeaveRecall \/ ResponseRefreshes \/ StartScan)
  <2>1. response # "stopped" \/ response' = "stopped"
    BY <1>4 DEF FileNext, FrameArrives, FrameStored, Refreshing, StartPauseByMenu, StartPause,
           Browse, BeginSave, EndSave, BeginOpen, ReadFile, ResponseSends, ResponseStops,
           ResponseFreezes, fileVars, taskVars
  <2>2. moved => moved'
    BY <1>4 DEF FileNext, FrameArrives, FrameStored, Refreshing, StartPauseByMenu, StartPause,
           Browse, BeginSave, EndSave, BeginOpen, ReadFile, ResponseSends, ResponseStops,
           ResponseFreezes, fileVars, pastVars
  <2> QED
    BY <2>1, <2>2 DEF Undisturbed
<1> QED
  BY <1>2, <1>3, <1>4

\* A frame of a timer scan is dropped, or stored in the slot that is due.
LEMMA TimerFrame ==
  ASSUME TypeOK, NEW enc \in EncoderCounts, FrameDone(enc), scanSource = 0
  PROVE  \/ /\ busy
            /\ UNCHANGED <<timer, circled, busy, src, storeTo, current, fresh>>
         \/ /\ ~busy /\ StartStore(TimerSlot)
            /\ timer' = TimerSlot /\ circled' = (circled \/ timer > MaxStoreIndex)
<1> DEFINE f == [id |-> frames + 1, enc |-> enc]
<1>1. DropFrame \/ OutOfRange(f) \/ StoreAtEncoder(f) \/ StoreAtTimer
  BY DEF FrameDone
<1> QED
  BY <1>1 DEF DropFrame, OutOfRange, StoreAtEncoder, StoreAtTimer

\* A frame stored starts behind the recorded ones, whose order the wrap of config[9] turns
\* round but does not break.
LEMMA OrderedArrival ==
  ASSUME FileTypeOK, SourceSafe, FramesEnded, Ordered, NEW enc \in EncoderCounts, FrameDone(enc),
         Undisturbed' => Undisturbed
  PROVE  Ordered'
<1> USE DriverAssumption
<1>0. /\ TypeOK /\ frames \in Nat /\ timer \in Nat /\ store \in [Slots -> Frame]
      /\ ring \in [Buffers -> Frame] /\ counter \in Buffers /\ src \in Buffers
      /\ fresh \in [Slots -> BOOLEAN]
  BY DEF FileTypeOK, TypeOK
<1>1. /\ frames' = frames + 1 /\ UNCHANGED <<scanSource, store>>
      /\ ring' = [ring EXCEPT ![counter] = [id |-> frames + 1, enc |-> enc]]
      /\ \/ DropFrame \/ (UNCHANGED <<timer, busy, scanMark, fresh>> /\ ~busy)
         \/ \E s \in Slots : StartStore(s)
  BY <1>0, FrameDoneCases
<1>2. NothingYet' /\ ResetFinds'
  <2>0. (Resetting' <=> Resetting) /\ (~busy \/ NothingYet) /\ ResetFinds
    BY <1>0, FrameDoneCases DEF Ordered, Resetting
  <2>1. CASE DropFrame
    BY <2>0, <2>1 DEF DropFrame, Ordered, NothingYet, ResetFinds
  <2>2. ASSUME NEW s \in Slots, StartStore(s) PROVE NothingYet' /\ ResetFinds'
    <3>1. current' = ~Resetting /\ \A t \in Slots : ~fresh[t] => ~fresh'[t]
      BY <1>0, <2>2 DEF StartStore
    <3> QED
      BY <2>0, <3>1 DEF NothingYet, ResetFinds
  <2>3. CASE UNCHANGED <<timer, busy, current, scanMark, fresh, early>> /\ ~busy
    BY <2>0, <2>3 DEF NothingYet, ResetFinds
  <2> QED
    BY <1>0, <2>1, <2>2, <2>3, FrameDoneCases
<1>3. CASE ~Undisturbed'
  BY <1>2, <1>3 DEF Ordered, RecordedInOrder, StoreIsNewest
<1>4. CASE Undisturbed' /\ busy /\ UNCHANGED <<timer, circled, busy, src, storeTo, current, fresh>>
  <2>1. ring'[src] = ring[src]
    BY <1>0, <1>1, <1>4 DEF SourceSafe
  <2>2. RecordedInOrder'
    BY <1>1, <1>4 DEF Ordered, RecordedInOrder, Older
  <2>3. StoreIsNewest'
    BY <1>1, <1>4, <2>1 DEF Ordered, StoreIsNewest
  <2> QED
    BY <1>2, <2>2, <2>3 DEF Ordered
<1>5. CASE /\ Undisturbed' /\ ~busy /\ StartStore(TimerSlot)
           /\ timer' = TimerSlot /\ circled' = (circled \/ timer > MaxStoreIndex)
  <2>1. /\ storeTo' = timer' /\ src' = counter
        /\ \A s \in Slots : fresh'[s] => fresh[s] /\ s # timer'
    BY <1>0, <1>5 DEF StartStore
  <2>2. ring'[src'].id = frames + 1
    BY <1>0, <1>1, <2>1
  <2>3. \A s \in Slots : store[s].id < ring'[src'].id
    BY <1>0, <2>2 DEF FramesEnded, Frame
  <2>4. StoreIsNewest'
    BY <1>1, <2>1, <2>3 DEF StoreIsNewest
  <2>5. RecordedInOrder'
    <3> SUFFICES ASSUME NEW s \in Slots, NEW t \in Slots, fresh[s], fresh[t], Older(s, t)',
                        (circled \/ (s < t /\ t < timer))'
                 PROVE  store[s].id < store[t].id
      BY <1>1, <2>1 DEF RecordedInOrder
    <3>1. s \in Nat /\ t \in Nat /\ s <= MaxStoreIndex /\ t <= MaxStoreIndex /\ MaxStoreIndex \in Nat
      BY DEF Slots
    <3>2. Older(s, t) /\ (circled \/ (s < t /\ t < timer))
      <4>1. CASE timer > MaxStoreIndex
        <5>1. timer' = 0
          BY <1>5, <4>1 DEF TimerSlot
        <5>2. s < t /\ t < timer
          BY <1>0, <3>1, <4>1, <5>1 DEF Older
        <5> QED
          BY <5>2 DEF Older
      <4>2. CASE ~(timer > MaxStoreIndex)
        <5>1. timer' = timer /\ (circled' => circled)
          BY <1>5, <4>2 DEF TimerSlot
        <5> QED
          BY <5>1 DEF Older
      <4> QED
        BY <4>1, <4>2
    <3> QED
      BY <1>5, <3>2 DEF Ordered, RecordedInOrder
  <2> QED
    BY <1>2, <2>4, <2>5 DEF Ordered
<1>6. Undisturbed' => scanSource = 0
  BY DEF Undisturbed
<1> QED
  BY <1>0, <1>3, <1>4, <1>5, <1>6, TimerFrame

\* The frame that has been stored is the youngest, in the last slot before config[9].
LEMMA OrderedStored ==
  ASSUME FileTypeOK, SourceSafe, Ordered, StoreDone, Undisturbed' => Undisturbed
  PROVE  Ordered'
<1>0. /\ timer \in Nat /\ store \in [Slots -> Frame] /\ fresh \in [Slots -> BOOLEAN]
      /\ storeTo \in Slots /\ current \in BOOLEAN
  BY DEF FileTypeOK, TypeOK
<1>1. /\ busy /\ ~busy' /\ timer' = timer + 1 /\ UNCHANGED <<scanSource, circled>>
      /\ store' = [store EXCEPT ![storeTo] = ring[src]]
      /\ fresh' = [fresh EXCEPT ![storeTo] = current]
  BY DEF StoreDone, SourceSafe
<1>2. StoreIsNewest' /\ NothingYet' /\ ResetFinds'
  <2>1. UNCHANGED <<current, erasing, zeroing>>
    BY DEF StoreDone, restartVars
  <2> QED
    BY <1>0, <1>1, <2>1 DEF StoreIsNewest, NothingYet, ResetFinds, Resetting, Ordered
<1>3. RecordedInOrder'
  <2> SUFFICES ASSUME Undisturbed',
                      NEW s \in Slots, NEW t \in Slots, fresh'[s], fresh'[t], Older(s, t)',
                      (circled \/ (s < t /\ t < timer))'
               PROVE  store'[s].id < store'[t].id
    BY DEF RecordedInOrder
  <2>0. s \in Nat /\ t \in Nat
    BY DriverAssumption DEF Slots
  <2>1. CASE ~current
    BY <1>0, <1>1, <2>1 DEF Ordered, NothingYet
  <2>2. CASE current /\ timer = 0 /\ ~circled
    BY <1>1, <2>0, <2>2
  <2>3. CASE /\ storeTo = timer /\ \A i \in Slots : fresh[i] => store[i].id < ring[src].id
    <3>1. s # timer
      BY <1>0, <1>1, <2>0 DEF Older
    <3>2. fresh[s] /\ store'[s] = store[s]
      BY <1>0, <1>1, <2>3, <3>1
    <3>3. CASE t = timer
      BY <1>0, <1>1, <2>3, <3>2, <3>3
    <3>4. CASE t # timer
      <4>1. fresh[t] /\ store'[t] = store[t]
        BY <1>0, <1>1, <2>3, <3>4
      <4>2. Older(s, t) /\ (circled \/ (s < t /\ t < timer))
        BY <1>0, <1>1, <2>0, <3>1, <3>4 DEF Older
      <4> QED
        BY <3>2, <4>1, <4>2 DEF Ordered, RecordedInOrder
    <3> QED
      BY <3>3, <3>4
  <2> QED
    BY <1>1, <2>1, <2>2, <2>3 DEF Ordered, StoreIsNewest
<1> QED
  BY <1>2, <1>3 DEF Ordered

\* No other step disturbs the order, or what it disturbs begins anew.
LEMMA OrderedStep ==
  ASSUME FileTypeOK, SourceSafe, FramesEnded, Ordered, [FileNext]_fileVars
  PROVE  Ordered'
<1>1. ASSUME ~current', \A s \in Slots : ~fresh'[s] PROVE Ordered'
  BY <1>1 DEF Ordered, RecordedInOrder, StoreIsNewest, NothingYet, ResetFinds
<1>2. CASE Restart \/ ReadFile \/ ResetScanData \/ RestartIndices
           \/ \E source \in Sources : RestartSource(source)
  <2>1. ~current' /\ \A s \in Slots : ~fresh'[s]
    BY <1>2 DEF Restart, RestartSource, ReadFile, ResetScanData, RestartIndices, Nowhere
  <2> QED
    BY <1>1, <2>1
<1>3. CASE Recalled
  <2>1. timer' = 0 /\ ~circled' /\ UNCHANGED <<busy, current, fresh, erasing, zeroing>>
    BY <1>3 DEF Recalled, RefreshRecalled, restartVars
  <2>2. RecordedInOrder'
    BY <2>1, DriverAssumption DEF RecordedInOrder, Slots
  <2> QED
    BY <2>1, <2>2 DEF Ordered, StoreIsNewest, NothingYet, ResetFinds, Resetting
<1>4. ASSUME UNCHANGED <<scanSource, timer, circled, busy, src, storeTo, current, store, fresh>>,
             Undisturbed' => Undisturbed /\ ring' = ring, Resetting' => Resetting
      PROVE  Ordered'
  <2>1. RecordedInOrder'
    BY <1>4 DEF Ordered, RecordedInOrder, Older
  <2> QED
    BY <1>4, <2>1 DEF Ordered, StoreIsNewest, NothingYet, ResetFinds
<1>5. CASE ClearMark \/ ResetMark \/ Claim \/ UNCHANGED driverVars
  <2>1. /\ UNCHANGED <<scanSource, timer, circled, busy, src, storeTo, current, store, fresh, ring>>
        /\ Resetting' => Resetting
    BY <1>5 DEF ClearMark, ResetMark, Claim, driverVars, ringVars, storeVars, restartVars, Resetting
  <2> QED
    BY <1>2, <1>3, <1>4, <2>1, UndisturbedBefore
<1>9. CASE ResetSlot
  <2>1. Resetting /\ UNCHANGED <<current, fresh>>
    BY <1>9 DEF ResetSlot, Resetting
  <2> QED
    BY <1>1, <2>1 DEF Ordered, ResetFinds
<1>6. CASE ResponseStops \/ \E s \in Slots : Browse(s)
  <2>1. UNCHANGED <<scanSource, circled, busy, src, storeTo, current, store, fresh, erasing,
                    zeroing>>
    BY <1>6 DEF ResponseStops, Browse, storeVars, restartVars
  <2>2. ~Undisturbed'
    BY <1>6 DEF ResponseStops, Browse, Undisturbed
  <2> QED
    BY <2>1, <2>2 DEF Ordered, RecordedInOrder, StoreIsNewest, NothingYet, ResetFinds, Resetting
<1>7. ASSUME NEW enc \in EncoderCounts, FrameDone(enc) PROVE Ordered'
  <2>1. scanSource' = scanSource
    BY <1>7 DEF FrameDone
  <2> QED
    BY <1>2, <1>3, <1>7, <2>1, UndisturbedBefore, OrderedArrival
<1>8. CASE StoreDone
  <2>1. scanSource' = scanSource
    BY <1>8 DEF StoreDone
  <2> QED
    BY <1>2, <1>3, <1>8, <2>1, UndisturbedBefore, OrderedStored
<1> QED
  BY <1>2, <1>3, <1>5, <1>6, <1>7, <1>8, <1>9, DriverStep DEF Next

\* Freezing stops the FPGA; what starts it again thaws the screen or sends laws.
LEMMA RestsStep ==
  ASSUME FileTypeOK, Rests, SaveStill, [FileNext]_fileVars
  PROVE  Rests'
<1>0. UserWords
  BY TypeParts
<1>1. CASE \/ \E enc \in EncoderCounts : FrameArrives(enc)
           \/ FrameStored \/ Refreshing
           \/ NewScan \/ EraseRecalled \/ StartScan \/ LeaveRecall
           \/ \E s \in Slots : Browse(s)
           \/ ReadFile \/ UNCHANGED fileVars
  BY <1>1 DEF FrameArrives, FrameStored, Refreshing, NewScan, EraseRecalled, StartScan,
              LeaveRecall, Browse, ReadFile, fileVars, userVars, taskVars, Rests
<1>2. CASE ResponseSends \/ BeginOpen \/ ResponseStops \/ ResponseRefreshes \/ ResponseFreezes
  BY <1>2 DEF ResponseSends, BeginOpen, ResponseStops, ResponseRefreshes, ResponseFreezes, Rests
<1>3. CASE StartPauseByMenu \/ StartPause
  BY <1>0, <1>3, Zenon DEF StartPauseByMenu, StartPause, Rests, UserWords
<1>4. CASE BeginSave
  <2>1. freeze' = freeze /\ response' = response /\ fpga' = (fpga /\ freeze)
    BY <1>4 DEF BeginSave
  <2>2. response # "sending"
    BY <1>4 DEF BeginSave
  <2> QED
    BY <2>1, <2>2 DEF Rests
<1>5. CASE EndSave
  <2>1. freeze' = freeze /\ fpga' = (fpga \/ ~freeze) /\ ~fpga
    BY <1>5 DEF EndSave, SaveStill
  <2> QED
    BY <2>1 DEF Rests
<1> QED
  BY <1>1, <1>2, <1>3, <1>4, <1>5 DEF FileNext

\* A save waits for the end of a restart and for a response, and they wait for its end.
LEMMA DuringSave ==
  ASSUME FileTypeOK, SaveStill, task = "save", [FileNext]_fileVars
  PROVE  FrameStored \/ EndSave \/ UNCHANGED fileVars
<1>1. ~fpga /\ response \in {"none", "asked"} /\ Settled
  BY DEF SaveStill
<1> QED
  BY <1>1, DriverAssumption
     DEF FileNext, FrameArrives, Refreshing, RestartIndices, ClearMark, ResetMark, ResetSlot,
         Settled, Resetting, NewScan, EraseRecalled, StartScan, StartPauseByMenu, StartPause,
         LeaveRecall, Browse,
         BeginSave, BeginOpen, ReadFile, ResponseSends, ResponseStops, ResponseRefreshes,
         ResponseFreezes, UserFree

\* What the save has read of config[9] and config[10] stays true, up to the frame being
\* stored when it began.
LEMMA SaveStillStep ==
  ASSUME FileTypeOK, Rests, SaveStill, [FileNext]_fileVars
  PROVE  SaveStill'
<1>0. timer \in Nat /\ circled \in BOOLEAN
  BY DEF FileTypeOK, TypeOK
<1>1. CASE BeginSave
  <2>1. /\ UserFree /\ response \in {"none", "asked"} /\ response' = response
        /\ UNCHANGED driverVars /\ fpga' = (fpga /\ freeze)
        /\ job' = [kind |-> SaveKind, timer |-> timer]
    BY <1>1 DEF BeginSave
  <2>2. ~fpga' /\ Settled'
    BY <2>1 DEF Rests, UserFree, Settled, Resetting, driverVars, restartVars
  <2>3. /\ SaveKind = "encoder" => scanSource # 0
        /\ SaveKind \in {"timer", "circled"} => /\ scanSource = 0
                                                /\ circled <=> SaveKind = "circled"
    BY <1>0 DEF SaveKind
  <2>4. job'.kind = SaveKind /\ job'.timer = timer
    BY <2>1
  <2>5. timer' = timer /\ circled' = circled /\ scanSource' = scanSource
    BY <2>1 DEF driverVars, storeVars
  <2> QED
    BY <2>1, <2>2, <2>3, <2>4, <2>5 DEF SaveStill
<1>2. CASE task = "save" /\ FrameStored
  <2>1. /\ busy /\ ~busy' /\ timer' = timer + 1 /\ UNCHANGED <<circled, scanSource>>
        /\ UNCHANGED <<fpga, response, job, clearing, restarting, erasing, zeroing>>
    BY <1>2 DEF FrameStored, StoreDone, restartVars, userVars, taskVars
  <2> QED
    BY <1>0, <1>2, <2>1 DEF SaveStill, Settled, Resetting
<1>3. CASE EndSave
  BY <1>3 DEF EndSave, SaveStill
<1>4. CASE UNCHANGED fileVars
  BY <1>4 DEF fileVars, driverVars, storeVars, restartVars, userVars, taskVars, SaveStill,
              Settled, Resetting
<1>5. CASE task # "save" /\ ~BeginSave
  <2>1. task' # "save"
    BY <1>5 DEF FileNext, FrameArrives, FrameStored, Refreshing, NewScan, EraseRecalled,
           StartScan, StartPauseByMenu, StartPause, LeaveRecall, Browse, EndSave, BeginOpen,
           ReadFile, ResponseSends, ResponseStops, ResponseRefreshes, ResponseFreezes,
           fileVars, taskVars
  <2> QED
    BY <2>1 DEF SaveStill
<1> QED
  BY <1>1, <1>2, <1>3, <1>4, <1>5, DuringSave

\* The slots that a save writes from a timer scan go round the store once, from config[9]
\* on.
LEMMA SlotsInOrder ==
  ASSUME FileTypeOK, SaveStill, task = "save", job.kind \in {"timer", "circled"},
         Writable(job.kind, job.timer),
         NEW j \in Slots, NEW k \in Slots, j < k, k < Length(job.kind, job.timer) - 1
  PROVE  LET Slot(i) == SlotOf(job.kind, job.timer, i)
         IN  Older(Slot(j), Slot(k)) /\ (circled \/ (Slot(j) < Slot(k) /\ Slot(k) < timer))
<1>1. /\ job.timer \in Nat /\ timer \in Nat /\ MaxStoreIndex \in Nat /\ j \in Nat /\ k \in Nat
      /\ timer = job.timer \/ timer = job.timer + 1
      /\ circled <=> job.kind = "circled"
  BY DriverAssumption DEF FileTypeOK, TypeOK, SaveStill, Slots
<1>2. CASE job.kind = "timer"
  BY <1>1, <1>2 DEF Length, SlotOf, Older
<1>3. CASE job.kind = "circled"
  BY <1>1, <1>3 DEF Length, SlotOf, Older, Writable
<1> QED
  BY <1>2, <1>3

\* Hence the file a save writes is in order.
LEMMA SavedInOrderStep ==
  ASSUME FileTypeOK, JobFits, Ordered, SaveStill, SavedInOrder, [FileNext]_fileVars
  PROVE  SavedInOrder'
<1>1. CASE EndSave /\ file' = Saved
  <2>0. /\ task = "save" /\ job.kind \in Kinds /\ response # "stopped"
        /\ scanSource \in {0, 1}
    BY <1>1 DEF EndSave, FileTypeOK, TypeOK, SaveStill
  <2>1. /\ Saved.source = scanSource /\ Saved.moved = moved
        /\ Saved.n = Length(job.kind, job.timer)
    BY DEF Saved
  <2> SUFFICES ASSUME scanSource = 0, ~moved, NEW j \in Slots, NEW k \in Slots,
                      j < k, k < Length(job.kind, job.timer) - 1,
                      Saved.scanned[j], Saved.scanned[k]
               PROVE  Saved.data[j].id < Saved.data[k].id
    BY <1>1, <2>1 DEF SavedInOrder
  <2> DEFINE Slot(i) == SlotOf(job.kind, job.timer, i)
  <2>2. /\ job.kind # "frame" /\ Writable(job.kind, job.timer)
        /\ fresh[Slot(j)] /\ fresh[Slot(k)]
    BY DEF Saved
  <2>3. job.kind \in {"timer", "circled"}
    BY <2>0, <2>2 DEF SaveStill, Kinds
  <2>4. Length(job.kind, job.timer) \in Int /\ j \in Int /\ k \in Int
    BY <2>0, DriverAssumption DEF FileTypeOK, Length, Kinds, Slots
  <2>5. j < Length(job.kind, job.timer) /\ k < Length(job.kind, job.timer)
    BY <2>4
  <2>6. Slot(j) \in Slots /\ Slot(k) \in Slots
    BY <2>0, <2>2, <2>5, SavedSlot
  <2>7. Saved.data[j] = store[Slot(j)] /\ Saved.data[k] = store[Slot(k)]
    BY <2>2, <2>4, <2>5 DEF Saved
  <2>8. Older(Slot(j), Slot(k)) /\ (circled \/ (Slot(j) < Slot(k) /\ Slot(k) < timer))
    BY <2>0, <2>2, <2>3, SlotsInOrder
  <2> HIDE DEF Slot
  <2> QED
    BY <2>0, <2>2, <2>6, <2>7, <2>8 DEF Ordered, RecordedInOrder, Undisturbed
<1>2. CASE file' = file
  BY <1>2 DEF SavedInOrder
<1>3. file' = file \/ (EndSave /\ file' = Saved)
  BY DEF FileNext, FrameArrives, FrameStored, Refreshing, NewScan, EraseRecalled, StartScan,
         StartPauseByMenu, StartPause, LeaveRecall, Browse, BeginSave, EndSave, BeginOpen,
         ReadFile, ResponseSends, ResponseStops, ResponseRefreshes, ResponseFreezes, fileVars,
         taskVars
<1> QED
  BY <1>1, <1>2, <1>3

\* With nothing recorded and no file but an old one, everything is in order.
LEMMA OrderInvInit == FileInit => OrderInv
<1> SUFFICES ASSUME FileInit PROVE OrderInv
  OBVIOUS
<1>1. /\ ~busy /\ ~current /\ frames = 0 /\ task = "idle" /\ ~freeze
      /\ ring = [b \in Buffers |-> NoFrame] /\ store = [s \in Slots |-> NoFrame]
      /\ \A s \in Slots : ~fresh[s]
      /\ file \in {NoFile, CutFile}
  BY DEF FileInit, Init
<1>2. file.data = [s \in Slots |-> NoFrame] /\ \A s \in Slots : ~file.scanned[s]
  <2>1. NoFile.data = [s \in Slots |-> NoFrame] /\ \A s \in Slots : ~NoFile.scanned[s]
    BY DEF NoFile, Nowhere
  <2>2. CutFile.data = NoFile.data /\ CutFile.scanned = NoFile.scanned
    BY DEF CutFile, NoFile
  <2> QED
    BY <1>1, <2>1, <2>2
<1>3. FramesEnded
  BY <1>1, <1>2 DEF FramesEnded, NoFrame
<1>4. SourceSafe /\ Ordered
  BY <1>1 DEF SourceSafe, Ordered, RecordedInOrder, StoreIsNewest, NothingYet, ResetFinds
<1>5. Rests /\ SaveStill /\ SavedInOrder
  BY <1>1, <1>2 DEF Rests, SaveStill, SavedInOrder
<1> QED
  BY <1>3, <1>4, <1>5, FileInvInit DEF OrderInv

\* The order is inductive while at most one FPGA frame ends during a store DMA.
LEMMA OrderInvStep ==
  ASSUME StoreLag <= 1, OrderInv, [FileNext]_fileVars
  PROVE  OrderInv'
<1> USE DEF OrderInv
<1>1. FileInv'
  BY FileInvStep
<1>2. SourceSafe' /\ FramesEnded'
  BY SourceSafeKept, FramesEndedStep DEF FileInv
<1>3. Ordered'
  BY OrderedStep DEF FileInv
<1>4. Rests' /\ SaveStill' /\ SavedInOrder'
  BY RestsStep, SaveStillStep, SavedInOrderStep DEF FileInv
<1> QED
  BY <1>1, <1>2, <1>3, <1>4

(***************************************************************************)
(* A file of a timer scan is in the order of recording, however the save   *)
(* met the wrap and the frame being stored, if at most one FPGA frame ends *)
(* while a store DMA runs (saveInspectData, dma_to_store_buffer).          *)
(***************************************************************************)
THEOREM SavedFilesInOrder ==
  ASSUME StoreLag <= 1
  PROVE  FileSpec => []SavedInOrder
<1>1. OrderInv /\ [FileNext]_fileVars => OrderInv'
  BY OrderInvStep
<1>2. OrderInv => SavedInOrder
  BY DEF OrderInv
<1> QED
  BY <1>1, <1>2, OrderInvInit, PTL DEF FileSpec
=============================================================================

------------------------------ MODULE ScanFile ------------------------------
(***************************************************************************)
(* Recorded scans as files (lzk/fileHandler.c): what a save takes from the *)
(* store that the driver fills, what opening a file puts there, and the    *)
(* data recalling around both: start/pause, browsing, the response of the  *)
(* refresh thread to an opened file, the new scan when recalling ends.     *)
(*                                                                         *)
(* A save runs in the draw thread with draw_thread_mutex held and a modal  *)
(* window up: the user and the responses of the refresh thread wait for    *)
(* its end, the store channel does not.  A response waits for neither the  *)
(* user nor an opening until it draws.  Opening, start/pause and browsing  *)
(* are GTK callbacks and exclude each other.  The draw thread's claims     *)
(* (DmaDriver) and the commands of the PC are left out, and nothing but    *)
(* the driver's callbacks disturbs a RefreshScanInfor.                     *)
(***************************************************************************)
EXTENDS DmaDriver

CONSTANT MaxActs  \* bound on saves, openings, start/pause and browsing

ASSUME FileAssumption == MaxActs \in Nat /\ ScanStepQty <= MaxStoreIndex + 1

VARIABLES
  freeze,     \* TMP(freeze)
  fpga,       \* the FPGA sends frames
  recalling,  \* TMP(dataRecalling)
  loadData,   \* TMP(loadData)
  scanStart,  \* pp->ScanStart
  task,       \* the save, opening or end of recalling that is under way
  response,   \* how far the response to an opened file has come
  job,        \* what a save has read of the driver's words: its kind and config[9]
  file,       \* the last file saved
  moved,      \* config[9] has been browsed to since the scan began (history)
  kept,       \* slots of an opened file that nothing was recorded in since (history)
  acts        \* number of saves, openings, starts, pauses and selections (bound)

userVars == <<freeze, fpga, recalling, loadData, scanStart>>
taskVars == <<task, response, job, file, acts>>
pastVars == <<moved, kept>>
fileVars == <<driverVars, userVars, taskVars, pastVars>>

(***************************************************************************)
(* A file: the source of its scan, the number n of slots it promises, the  *)
(* number len of them it holds, their data, its marks, and which of them   *)
(* were recorded by the scan it was saved from (history).  n = 0 is no     *)
(* file.  A timer scan that has just filled the store saves one slot more  *)
(* than there is; what lies there is left out.                             *)
(***************************************************************************)
Nowhere == [s \in Slots |-> FALSE]
NoFile == [source |-> 0, n |-> 0, len |-> 0, data |-> [s \in Slots |-> NoFrame],
           marks |-> Nowhere, scanned |-> Nowhere, moved |-> FALSE]

\* A file that a power cut in an earlier run has cut after its first slot
CutFile == [NoFile EXCEPT !.n = IF MaxStoreIndex = 0 THEN 1 ELSE 2, !.len = 1,
                          !.marks = [s \in Slots |-> s < 2]]

Kinds == {"encoder", "circled", "timer", "frame"}
NoJob == [kind |-> "frame", timer |-> 0]

\* Faulty variant: config[9] is taken for the last slot recorded, plus one.
LengthOnePast(kind, t) ==
  CASE kind = "encoder" -> ScanStepQty
    [] kind = "circled" -> MaxStoreIndex
    [] kind = "timer"   -> t + 2
    [] kind = "frame"   -> 1

\* The slots a file of each kind has
Length(kind, t) ==
  CASE kind = "encoder" -> ScanStepQty
    [] kind = "circled" -> MaxStoreIndex
    [] kind = "timer"   -> t + 1
    [] kind = "frame"   -> 1

\* Faulty variant: the store is written from its first slot, wrapped or not.
SlotOfUnwrapped(kind, t, k) == k

\* The store slot that is written as slot k: a timer scan that has wrapped begins
\* with the slot after config[9].
SlotOf(kind, t, k) ==
  IF kind # "circled" THEN k
  ELSE IF k < MaxStoreIndex - t - 1 THEN t + 1 + k ELSE k - (MaxStoreIndex - t - 1)

\* A wrapped scan is written in two parts.  Of a first part of no bytes, or of less,
\* fwrite writes nothing; the save fails and leaves the header.
Writable(kind, t) == kind = "circled" => t + 1 < MaxStoreIndex

-----------------------------------------------------------------------------
FileInit ==
  /\ Init
  /\ freeze = FALSE /\ fpga = TRUE
  /\ recalling = FALSE /\ loadData = FALSE /\ scanStart = FALSE
  /\ task = "idle" /\ response = "none" /\ job = NoJob
  /\ file \in {NoFile, CutFile}
  /\ moved = FALSE /\ kept = {} /\ acts = 0

(* The driver *)

FrameArrives(enc) ==
  /\ fpga /\ FrameDone(enc)
  /\ kept' = kept \ {storeTo'}
  /\ UNCHANGED <<userVars, taskVars, moved>>

FrameStored == StoreDone /\ UNCHANGED <<userVars, taskVars, pastVars>>

\* The steps of RefreshScanInfor and reset_scan_data after their first
Refreshing ==
  /\ RestartIndices \/ ClearMark \/ ResetMark \/ ResetSlot
  /\ UNCHANGED <<userVars, taskVars, pastVars>>

\* RefreshScanInfor while data is recalled leaves the marks.
RefreshRecalled(source) ==
  /\ Settled
  /\ scanSource' = source
  /\ timer' = 0 /\ circled' = FALSE
  /\ UNCHANGED <<ringVars, busy, src, storeTo, lag, torn, current, scanMark, store,
                 fresh, early, restartVars>>

-----------------------------------------------------------------------------
(* The user *)

UserFree == task = "idle" /\ Settled

\* The callbacks that change the scan, and the erase key
NewScan ==
  /\ UserFree /\ ~recalling
  /\ \E source \in Sources : RestartSource(source)
  /\ scanStart' = FALSE /\ moved' = FALSE
  /\ UNCHANGED <<freeze, fpga, recalling, loadData, taskVars, kept>>

\* The erase key while data is recalled
EraseRecalled ==
  /\ UserFree /\ recalling
  /\ RefreshRecalled(scanSource)
  /\ scanStart' = FALSE /\ moved' = FALSE
  /\ UNCHANGED <<freeze, fpga, recalling, loadData, taskVars, kept>>

\* data_732: scan start, with "reset all", "reset encoder" or "reset data".  It holds
\* the GDK lock to the end of its reset; that ScanStart is set only then is left out.
StartScan ==
  /\ UserFree /\ ~recalling
  /\ \/ RestartSource(scanSource) /\ moved' = FALSE
     \/ ResetScanData /\ UNCHANGED moved
     \/ ~scanStart /\ UNCHANGED <<driverVars, moved>>
  /\ scanStart' = TRUE
  /\ UNCHANGED <<freeze, fpga, recalling, loadData, taskVars, kept>>

\* Start/pause in the scan menu (data_731), which recalling makes insensitive
StartPauseByMenu ==
  /\ UserFree /\ ~recalling /\ acts < MaxActs
  /\ acts' = acts + 1
  /\ freeze' = ~freeze /\ fpga' = freeze
  /\ UNCHANGED <<driverVars, recalling, loadData, scanStart, task, response, job, file,
                 pastVars>>

\* Faulty variant: recalled data is left in the store.
StartPauseKeep ==
  /\ UserFree /\ acts < MaxActs
  /\ acts' = acts + 1
  /\ freeze' = ~freeze /\ fpga' = freeze
  /\ recalling' = ~freeze
  /\ loadData' = (loadData /\ ~freeze)
  /\ kept' = IF freeze THEN {} ELSE kept
  /\ UNCHANGED <<driverVars, scanStart, task, response, job, file, moved>>

\* The start/pause key: it enters recalling, or leaves it.
StartPause ==
  /\ UserFree /\ acts < MaxActs
  /\ acts' = acts + 1
  /\ freeze' = ~freeze /\ fpga' = freeze
  /\ recalling' = ~freeze
  /\ loadData' = (loadData /\ ~freeze)
  /\ task' = IF freeze /\ recalling /\ loadData THEN "leave" ELSE "idle"
  /\ kept' = IF freeze THEN {} ELSE kept
  /\ UNCHANGED <<driverVars, scanStart, response, job, file, moved>>

\* Recalling of a file has ended: RefreshScanInfor, with the source the file set.
LeaveRecall ==
  /\ task = "leave" /\ Settled
  /\ RestartSource(file.source)
  /\ task' = "idle"
  /\ scanStart' = FALSE /\ moved' = FALSE
  /\ UNCHANGED <<freeze, fpga, recalling, loadData, response, job, file, acts, kept>>

\* data_3142
Browse(s) ==
  /\ UserFree /\ recalling /\ acts < MaxActs
  /\ acts' = acts + 1
  /\ ring' = [ring EXCEPT ![0] = IF scanMark[s] THEN store[s] ELSE NoFrame]
  /\ timer' = IF scanSource = 0 THEN s ELSE timer
  /\ moved' = (moved \/ scanSource = 0)
  /\ UNCHANGED <<mark, counter, inUse, frames, scanSource, circled, busy, src, storeTo,
                 lag, torn, current, scanMark, store, fresh, early, restartVars, userVars,
                 task, response, job, file, kept>>

-----------------------------------------------------------------------------
(* Saving: SaveDataInThread, saveInspectData *)

SaveKind == CASE ~scanStart                     -> "frame"
              [] scanStart /\ scanSource # 0    -> "encoder"
              [] scanStart /\ scanSource = 0 /\ circled  -> "circled"
              [] scanStart /\ scanSource = 0 /\ ~circled -> "timer"

\* The acquisition is stopped, config[9] and config[10] are read.
BeginSave ==
  /\ UserFree /\ response \in {"none", "asked"} /\ acts < MaxActs
  /\ acts' = acts + 1
  /\ fpga' = (fpga /\ freeze)
  /\ job' = [kind |-> SaveKind, timer |-> timer]
  /\ task' = "save"
  /\ UNCHANGED <<driverVars, freeze, recalling, loadData, scanStart, response, file,
                 pastVars>>

\* The file the job writes from the store as it is now
Saved ==
  LET Slot(k) == SlotOf(job.kind, job.timer, k)
      n == Length(job.kind, job.timer)
  IN [source  |-> scanSource,
      n       |-> n,
      len     |-> IF Writable(job.kind, job.timer) THEN n ELSE 0,
      data    |-> [k \in Slots |-> IF k >= n \/ ~Writable(job.kind, job.timer) THEN NoFrame
                                   ELSE IF job.kind = "frame" THEN ring[0]
                                   ELSE store[Slot(k)]],
      marks   |-> [k \in Slots |-> k < n /\ (job.kind = "encoder" => scanMark[k])],
      scanned |-> [k \in Slots |-> /\ k < n /\ job.kind # "frame"
                                   /\ Writable(job.kind, job.timer)
                                   /\ Slot(k) >= resetAt /\ Slot(k) >= settled
                                   /\ fresh[Slot(k)]],
      moved   |-> moved]

\* Nothing is written to a disk that is nearly full.
EndSave ==
  /\ task = "save"
  /\ file' \in {file, Saved}
  /\ fpga' = (fpga \/ ~freeze)
  /\ task' = "idle" /\ job' = NoJob
  /\ kept' = IF file' = file THEN kept ELSE {}
  /\ UNCHANGED <<driverVars, freeze, recalling, loadData, scanStart, response, acts, moved>>

-----------------------------------------------------------------------------
(* Opening: openDataFile and the response of the refresh thread *)

\* The file's header is checked; request_refresh stops the FPGA and posts
\* REFRESH_SCANDATA_LOAD.
BeginOpen ==
  /\ UserFree /\ response = "none" /\ acts < MaxActs
  /\ file.n > 0
  /\ acts' = acts + 1
  /\ fpga' = FALSE
  /\ task' = "open"
  /\ response' = "asked"
  /\ UNCHANGED <<driverVars, freeze, recalling, loadData, scanStart, job, file, pastVars>>

\* Faulty variant: the marks of the slots the file does not have stay.
ReadFileKeepMarks ==
  /\ task = "open"
  /\ store' = [s \in Slots |-> IF s < file.len THEN file.data[s] ELSE store[s]]
  /\ scanMark' = [s \in Slots |-> scanMark[s] \/ file.marks[s]]
  /\ ring' = [ring EXCEPT ![0] = store'[0]]
  /\ mark' = TRUE
  /\ timer' = IF file.source = 0 THEN 0 ELSE timer
  /\ fresh' = Nowhere /\ current' = FALSE /\ early' = {}
  /\ loadData' = TRUE /\ recalling' = TRUE
  /\ task' = "idle"
  /\ kept' = Slots \ (IF busy THEN {storeTo} ELSE {})
  /\ UNCHANGED <<counter, inUse, frames, scanSource, circled, busy, src, storeTo, lag, torn,
                 restartVars, freeze, fpga, scanStart, response, job, file, acts, moved>>

\* ReadDataFileSetup and ReadDataFileData; then recalling begins.
ReadFile ==
  /\ task = "open"
  /\ store' = [s \in Slots |-> IF s < file.len THEN file.data[s] ELSE store[s]]
  /\ scanMark' = file.marks
  /\ ring' = [ring EXCEPT ![0] = store'[0]]
  /\ mark' = TRUE
  /\ timer' = IF file.source = 0 THEN 0 ELSE timer
  /\ fresh' = Nowhere /\ current' = FALSE /\ early' = {}
  /\ loadData' = TRUE /\ recalling' = TRUE
  /\ task' = "idle"
  /\ kept' = Slots \ (IF busy THEN {storeTo} ELSE {})
  /\ UNCHANGED <<counter, inUse, frames, scanSource, circled, busy, src, storeTo, lag, torn,
                 restartVars, freeze, fpga, scanStart, response, job, file, acts, moved>>

\* Sending the focal laws starts the FPGA after each of them.
ResponseSends ==
  /\ response = "asked" /\ task # "save"
  /\ fpga' = TRUE
  /\ response' = "sending"
  /\ UNCHANGED <<driverVars, freeze, recalling, loadData, scanStart, task, job, file, acts,
                 pastVars>>

\* After the last law, and again before it draws, the response stops the FPGA.
ResponseStops ==
  /\ response = "sending"
  /\ fpga' = FALSE
  /\ ring' = IF loadData THEN [ring EXCEPT ![0] = store[0]] ELSE ring
  /\ response' = "stopped"
  /\ UNCHANGED <<mark, counter, inUse, frames, storeVars, restartVars, freeze, recalling,
                 loadData, scanStart, task, job, file, acts, pastVars>>

\* Faulty variant: the response restarts the scan, recalled data or not.
ResponseRefreshesAll ==
  /\ response = "stopped" /\ task = "idle"
  /\ Settled /\ RestartSource(file.source)
  /\ response' = "freeze"
  /\ scanStart' = FALSE /\ moved' = FALSE
  /\ UNCHANGED <<freeze, fpga, recalling, loadData, task, job, file, acts, kept>>

\* Drawing takes the GDK lock, then RefreshScanInfor: of recalled data, or of a new
\* scan if the user has ended recalling.
ResponseRefreshes ==
  /\ response = "stopped" /\ task = "idle"
  /\ \/ recalling /\ RefreshRecalled(file.source)
     \/ ~recalling /\ Settled /\ RestartSource(file.source)
  /\ response' = "freeze"
  /\ scanStart' = FALSE /\ moved' = FALSE
  /\ UNCHANGED <<freeze, fpga, recalling, loadData, task, job, file, acts, kept>>

\* FreezeScreen(TRUE), under the GDK lock
ResponseFreezes ==
  /\ response = "freeze" /\ task = "idle" /\ Settled
  /\ freeze' = TRUE /\ fpga' = FALSE
  /\ response' = "none"
  /\ UNCHANGED <<driverVars, recalling, loadData, scanStart, task, job, file, acts,
                 pastVars>>

FileNext ==
  \/ \E enc \in EncoderCounts : FrameArrives(enc)
  \/ FrameStored \/ Refreshing
  \/ NewScan \/ EraseRecalled \/ StartScan
  \/ StartPauseByMenu \/ StartPause \/ LeaveRecall
  \/ \E s \in Slots : Browse(s)
  \/ BeginSave \/ EndSave
  \/ BeginOpen \/ ReadFile
  \/ ResponseSends \/ ResponseStops \/ ResponseRefreshes \/ ResponseFreezes

FileSpec == FileInit /\ [][FileNext]_fileVars

-----------------------------------------------------------------------------
FileTypeOK ==
  /\ TypeOK
  /\ {freeze, fpga, recalling, loadData, scanStart, moved} \subseteq BOOLEAN
  /\ task \in {"idle", "save", "open", "leave"}
  /\ response \in {"none", "asked", "sending", "stopped", "freeze"}
  /\ job \in [kind : Kinds, timer : Nat]
  /\ file \in [source : {0, 1}, n : 0 .. MaxStoreIndex + 2, len : Nat, data : [Slots -> Frame],
               marks : [Slots -> BOOLEAN], scanned : [Slots -> BOOLEAN], moved : BOOLEAN]
  /\ file.len <= file.n
  /\ kept \subseteq Slots
  /\ acts \in Nat

(***************************************************************************)
(* A file of a timer scan holds the frames in the order they were recorded *)
(* up to its last slot, wherever the scan has wrapped and a frame being    *)
(* stored when the save began has ended.  The last slot is config[9]'s:    *)
(* the newest frame when one was being stored, else the oldest or none.    *)
(* Browsing moves config[9] and breaks the order.                          *)
(***************************************************************************)
SavedInOrder ==
  file.source = 0 /\ ~file.moved =>
    \A j, k \in Slots :
      j < k /\ k < file.n - 1 /\ file.scanned[j] /\ file.scanned[k] =>
        file.data[j].id < file.data[k].id

(***************************************************************************)
(* Until recalling ends, what the store and its marks say of a slot is     *)
(* what the opened file says of it, unless the acquisition has recorded    *)
(* there: the response, browsing, the erase key and a save that writes     *)
(* nothing leave it alone.                                                 *)
(***************************************************************************)
RecallShowsFile ==
  \A s \in kept : /\ s < file.len => store[s] = file.data[s]
                  /\ scanMark[s] = file.marks[s]

(***************************************************************************)
(* Once the recalling of a file has ended and the new scan has cleared its *)
(* marks, no mark it can clear vouches for a slot of the file.             *)
(***************************************************************************)
FileMarksGone == ~loadData /\ task # "leave" => MarkedIsRecorded
=============================================================================

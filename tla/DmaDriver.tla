------------------------------ MODULE DmaDriver ------------------------------
(***************************************************************************)
(* The kernel module driver/DmaDoppler.c: the two DMA channels that move   *)
(* an ultrasonic frame from the FPGA into one of four ring buffers and     *)
(* from that ring buffer into the scan store, and the words of the         *)
(* configuration area (config[0..10], DMA_MARK in the application) that    *)
(* the driver shares with the application.                                 *)
(*                                                                         *)
(* The processor has one core, so a DMA completion callback is atomic with *)
(* respect to the application's threads: FrameDone and StoreDone are the   *)
(* two callbacks.  The application restarts a scan in several steps        *)
(* (RefreshScanInfor), between which callbacks run.                        *)
(***************************************************************************)
EXTENDS Integers

CONSTANTS
  MaxStoreIndex,        \* config[8]
  StepsPerResolution,   \* config[6]
  ScanZeroIndexOffset,  \* config[7]
  EncoderCounts,        \* the encoder values a frame may carry
  Sources,              \* the scan sources a restart may select: 0 timer, 1 encoder
  ClearLimit,           \* scan marks a restart clears (10000 in the code)
  ResetLimit,           \* scan marks "reset data" clears (MAX_SCAN_STEP)
  ScanStepQty,          \* store slots that "reset data" zeroes
  StoreLag,             \* FPGA frames that may end while one store DMA runs
  MaxFrames,            \* bound on the number of frames
  MaxRestarts           \* bound on the number of scan restarts and resets

ASSUME DriverAssumption ==
  /\ MaxStoreIndex \in Nat
  /\ StepsPerResolution \in Nat \ {0}
  /\ ScanZeroIndexOffset \in Int
  /\ EncoderCounts \subseteq Int
  /\ Sources \subseteq {0, 1} /\ Sources # {}
  /\ ClearLimit \in Nat
  /\ ResetLimit \in Nat
  /\ ScanStepQty \in Nat
  /\ StoreLag \in Nat
  /\ MaxFrames \in Nat
  /\ MaxRestarts \in Nat

VARIABLES
  mark,        \* config[0] # 0: a frame is waiting to be drawn
  counter,     \* config[1] & 3: the ring buffer the FPGA DMA is filling
  inUse,       \* config[2]: the ring buffer the application reads
  ring,        \* the frame last completed in each ring buffer
  frames,      \* number of frames completed (history)
  scanSource,  \* config[3]
  timer,       \* config[9]
  circled,     \* config[10] # 0
  busy,        \* bDmaStoreProcessing
  src,         \* the ring buffer the store DMA reads
  storeTo,     \* the store slot the store DMA writes
  lag,         \* frames completed since that store DMA began (history)
  torn,        \* the FPGA DMA has entered src during that store DMA (history)
  current,     \* that store DMA began after the last restart or reset (history)
  scanMark,    \* scan_mark: which store slots have been recorded
  store,       \* the frame held by each store slot
  fresh,       \* the slot was recorded since the last restart or reset (history)
  early,       \* slots last recorded while "reset data" was under way (history)
  clearing,    \* next mark the restart clears; ClearLimit when it is idle
  restarting,  \* the restart has set config[3] and not yet config[9]
  erasing,     \* next mark "reset data" clears; ResetLimit when it has
  zeroing,     \* next slot "reset data" zeroes; ScanStepQty when it has
  resetAt,     \* first slot recorded after "reset data" had cleared its marks (history)
  settled,     \* first slot recorded after the restart had cleared its marks (history)
  restarts     \* number of restarts and resets (bound)

ringVars    == <<mark, counter, inUse, ring, frames>>
storeVars   == <<scanSource, timer, circled, busy, src, storeTo, lag, torn,
                 current, scanMark, store, fresh, early>>
restartVars == <<clearing, restarting, erasing, zeroing, resetAt, settled, restarts>>
driverVars  == <<ringVars, storeVars, restartVars>>

Buffers == 0 .. 3
Slots   == 0 .. MaxStoreIndex
Frame   == [id : Nat, enc : Int]
NoFrame == [id |-> 0, enc |-> 0]

\* "Reset data" is under way.
Resetting == erasing < ResetLimit \/ zeroing < ScanStepQty

\* Neither a restart nor a reset is under way.
Settled == clearing = ClearLimit /\ ~restarting /\ ~Resetting

(***************************************************************************)
(* The ring.                                                               *)
(***************************************************************************)

\* Faulty variants, which the properties must notice: the ring counter is not
\* masked; the buffer in use is not skipped.
NextTargetUnmasked(c, used) == IF c + 1 = used THEN c + 2 ELSE c + 1
NextTargetNoSkip(c, used)   == (c + 1) % 4

\* do { config[1]++ ; OFFSET = config[1] & 3 ; } while (OFFSET == config[2])
NextTarget(c, used) ==
  IF (c + 1) % 4 = used THEN (c + 2) % 4 ELSE (c + 1) % 4

\* Faulty variant: the draw thread forgets that the driver skips.
LatestIgnoringSkip(c, used) == (c + 3) % 4

\* The buffer DrawFrameBuffer picks: the one before the DMA target, or the one
\* before that when the driver must have skipped it because it was in use.
LatestBuffer(c, used) ==
  IF (c + 3) % 4 = used THEN (c + 2) % 4 ELSE (c + 3) % 4

(***************************************************************************)
(* The store index of an encoder value: C division truncates to zero.      *)
(***************************************************************************)
EncoderIndex(enc) ==
  (IF enc >= 0 THEN enc \div StepsPerResolution
               ELSE -((-enc) \div StepsPerResolution)) + ScanZeroIndexOffset

-----------------------------------------------------------------------------
Init ==
  /\ mark = FALSE /\ counter = 0 /\ inUse = 0
  /\ ring = [b \in Buffers |-> NoFrame]
  /\ frames = 0
  /\ scanSource \in Sources
  /\ timer = 0 /\ circled = FALSE
  /\ busy = FALSE /\ src = 0 /\ storeTo = 0 /\ lag = 0
  /\ torn = FALSE /\ current = FALSE
  /\ scanMark = [s \in Slots |-> FALSE]
  /\ store = [s \in Slots |-> NoFrame]
  /\ fresh = [s \in Slots |-> FALSE]
  /\ early = {}
  /\ clearing = ClearLimit /\ restarting = FALSE
  /\ erasing = ResetLimit /\ zeroing = ScanStepQty
  /\ resetAt = 0 /\ settled = 0 /\ restarts = 0

(***************************************************************************)
(* dma_to_store_buffer, called with the frame f that has just ended.       *)
(***************************************************************************)

\* Faulty variant: a dropped frame counts as a stored one.
DropFrameCounted ==
  /\ busy
  /\ lag < StoreLag
  /\ lag' = lag + 1
  /\ timer' = timer + 1
  /\ torn' = (torn \/ NextTarget(counter, inUse) = src)
  /\ UNCHANGED <<circled, busy, src, storeTo, current, scanMark, fresh, early>>

\* The store channel is busy: the frame is dropped.
DropFrame ==
  /\ busy
  /\ lag < StoreLag
  /\ lag' = lag + 1
  /\ torn' = (torn \/ NextTarget(counter, inUse) = src)
  /\ UNCHANGED <<timer, circled, busy, src, storeTo, current, scanMark, fresh, early>>

\* Faulty variant: config[1] is advanced before the copy is programmed.
StartStoreAfterAdvance(s) ==
  /\ busy' = TRUE
  /\ src' = NextTarget(counter, inUse)
  /\ storeTo' = s
  /\ lag' = 0
  /\ torn' = FALSE
  /\ current' = ~Resetting
  /\ scanMark' = [scanMark EXCEPT ![s] = TRUE]
  /\ fresh' = [fresh EXCEPT ![s] = FALSE]
  /\ early' = IF Resetting THEN early \cup {s} ELSE early \ {s}

\* Programs the store channel to copy the ended frame to slot s.
StartStore(s) ==
  /\ busy' = TRUE
  /\ src' = counter
  /\ storeTo' = s
  /\ lag' = 0
  /\ torn' = FALSE
  /\ current' = ~Resetting
  /\ scanMark' = [scanMark EXCEPT ![s] = TRUE]
  /\ fresh' = [fresh EXCEPT ![s] = FALSE]
  /\ early' = IF Resetting THEN early \cup {s} ELSE early \ {s}

\* Encoder scan, the probe is outside the recorded range.
OutOfRange(f) ==
  /\ ~busy /\ scanSource # 0
  /\ EncoderIndex(f.enc) \notin Slots
  /\ UNCHANGED <<timer, circled, busy, src, storeTo, lag, torn, current,
                 scanMark, fresh, early>>

\* Faulty variant: the position is rounded down instead of towards zero.
StoreAtEncoderFloor(f) ==
  LET s == f.enc \div StepsPerResolution + ScanZeroIndexOffset IN
    /\ ~busy /\ scanSource # 0
    /\ s \in Slots
    /\ StartStore(s)
    /\ UNCHANGED <<timer, circled>>

\* Encoder scan: the slot is the probe's position.
StoreAtEncoder(f) ==
  /\ ~busy /\ scanSource # 0
  /\ EncoderIndex(f.enc) \in Slots
  /\ StartStore(EncoderIndex(f.enc))
  /\ UNCHANGED <<timer, circled>>

\* Faulty variant: a full store records over its last slot.
TimerSlotStuck == IF timer > MaxStoreIndex THEN MaxStoreIndex ELSE timer

\* Timer scan: the slot is config[9], which restarts from 0 at the end of the
\* store.
TimerSlot == IF timer > MaxStoreIndex THEN 0 ELSE timer

\* Faulty variant: the channel is reprogrammed while it runs.
StoreAtTimerUnguarded ==
  /\ scanSource = 0
  /\ timer' = TimerSlot
  /\ circled' = (circled \/ timer > MaxStoreIndex)
  /\ StartStore(TimerSlot)

StoreAtTimer ==
  /\ ~busy /\ scanSource = 0
  /\ timer' = TimerSlot
  /\ circled' = (circled \/ timer > MaxStoreIndex)
  /\ StartStore(TimerSlot)

(***************************************************************************)
(* omap_dma_memcpy_callback_from_fpga: a frame has ended in the buffer the *)
(* FPGA DMA was filling; store it, and start the next transfer into a      *)
(* buffer the application does not use.                                    *)
(***************************************************************************)
FrameDone(enc) ==
  /\ frames < MaxFrames
  /\ LET f == [id |-> frames + 1, enc |-> enc] IN
       /\ frames' = frames + 1
       /\ ring' = [ring EXCEPT ![counter] = f]
       /\ \/ DropFrame
          \/ OutOfRange(f)
          \/ StoreAtEncoder(f)
          \/ StoreAtTimer
  /\ mark' = TRUE
  /\ counter' = NextTarget(counter, inUse)
  /\ UNCHANGED <<inUse, scanSource, store, restartVars>>

(***************************************************************************)
(* omap_dma_memcpy_callback_to_buffer: the copy into the store has ended.  *)
(* A torn copy mixes two frames and is no frame at all.                    *)
(***************************************************************************)
StoreDone ==
  /\ busy
  /\ busy' = FALSE
  /\ timer' = timer + 1
  /\ store' = [store EXCEPT ![storeTo] = IF torn THEN NoFrame ELSE ring[src]]
  /\ fresh' = [fresh EXCEPT ![storeTo] = current]
  /\ UNCHANGED <<ringVars, scanSource, circled, src, storeTo, lag, torn,
                 current, scanMark, early, restartVars>>

\* The first slot that a frame ending from now on can be recorded in, with config[9] = t
NextRecorded(t) == IF busy THEN t + 1 ELSE t

(***************************************************************************)
(* RefreshScanInfor, run by the application outside data recalling: write  *)
(* the source of the scan, later its indices, then clear the marks one by  *)
(* one.  MaxStoreIndex and the encoder parameters do not change here.      *)
(***************************************************************************)
RestartSource(source) ==
  /\ Settled
  /\ restarts < MaxRestarts
  /\ restarting' = TRUE
  /\ restarts' = restarts + 1
  /\ scanSource' = source
  /\ current' = FALSE
  /\ fresh' = [s \in Slots |-> FALSE]
  /\ UNCHANGED <<ringVars, timer, circled, busy, src, storeTo, lag, torn,
                 scanMark, store, early, clearing, erasing, zeroing, resetAt, settled>>

RestartIndices ==
  /\ restarting
  /\ restarting' = FALSE
  /\ timer' = 0
  /\ circled' = FALSE
  /\ clearing' = 0
  /\ resetAt' = 0
  /\ settled' = NextRecorded(0)
  /\ current' = FALSE
  /\ fresh' = [s \in Slots |-> FALSE]
  /\ UNCHANGED <<ringVars, scanSource, busy, src, storeTo, lag, torn,
                 scanMark, store, early, erasing, zeroing, restarts>>

\* Faulty variant: the loop starts at mark 1.
ClearMarkFromOne ==
  /\ clearing < ClearLimit
  /\ clearing' = clearing + 1
  /\ settled' = NextRecorded(timer)
  /\ scanMark' = [s \in Slots |-> s # clearing + 1 /\ scanMark[s]]
  /\ UNCHANGED <<ringVars, scanSource, timer, circled, busy, src, storeTo,
                 lag, torn, current, store, fresh, early, restarting, erasing,
                 zeroing, resetAt, restarts>>

ClearMark ==
  /\ clearing < ClearLimit
  /\ clearing' = clearing + 1
  /\ settled' = NextRecorded(timer)
  /\ scanMark' = [s \in Slots |-> s # clearing /\ scanMark[s]]
  /\ UNCHANGED <<ringVars, scanSource, timer, circled, busy, src, storeTo,
                 lag, torn, current, store, fresh, early, restarting, erasing,
                 zeroing, resetAt, restarts>>

(***************************************************************************)
(* reset_scan_data ("reset data" of a scan start), with the FPGA running:  *)
(* clear the marks one by one, then zero the first ScanStepQty slots; the  *)
(* indices are kept.  What is recorded meanwhile may be zeroed, or its     *)
(* mark cleared, so the recording counts from the end of the reset.  (A    *)
(* frame stored over a slot just then being zeroed stays whole here.)      *)
(***************************************************************************)
ResetScanData ==
  /\ Settled
  /\ restarts < MaxRestarts
  /\ restarts' = restarts + 1
  /\ erasing' = 0 /\ zeroing' = 0
  /\ resetAt' = NextRecorded(timer)
  /\ current' = FALSE
  /\ fresh' = [s \in Slots |-> FALSE]
  /\ UNCHANGED <<ringVars, scanSource, timer, circled, busy, src, storeTo,
                 lag, torn, scanMark, store, early, clearing, restarting, settled>>

ResetMark ==
  /\ erasing < ResetLimit
  /\ erasing' = erasing + 1
  /\ resetAt' = NextRecorded(timer)
  /\ scanMark' = [s \in Slots |-> s # erasing /\ scanMark[s]]
  /\ UNCHANGED <<ringVars, scanSource, timer, circled, busy, src, storeTo,
                 lag, torn, current, store, fresh, early, clearing, restarting,
                 zeroing, settled, restarts>>

ResetSlot ==
  /\ erasing = ResetLimit /\ zeroing < ScanStepQty
  /\ zeroing' = zeroing + 1
  /\ store' = [s \in Slots |-> IF s = zeroing THEN NoFrame ELSE store[s]]
  /\ UNCHANGED <<ringVars, scanSource, timer, circled, busy, src, storeTo,
                 lag, torn, current, scanMark, fresh, early, clearing, restarting,
                 erasing, resetAt, settled, restarts>>

(***************************************************************************)
(* What the draw thread does to the shared words, in one step: it clears   *)
(* config[0] and claims the latest buffer.  DrawFrame has its real steps.  *)
(***************************************************************************)
Claim ==
  /\ mark
  /\ mark' = FALSE
  /\ inUse' = LatestBuffer(counter, inUse)
  /\ UNCHANGED <<counter, ring, frames, storeVars, restartVars>>

Next ==
  \/ \E enc \in EncoderCounts : FrameDone(enc)
  \/ StoreDone
  \/ \E source \in Sources : RestartSource(source)
  \/ RestartIndices
  \/ ClearMark
  \/ ResetScanData
  \/ ResetMark
  \/ ResetSlot
  \/ Claim

Spec == Init /\ [][Next]_driverVars

-----------------------------------------------------------------------------
TypeOK ==
  /\ mark \in BOOLEAN
  /\ counter \in Buffers /\ inUse \in Buffers
  /\ ring \in [Buffers -> Frame]
  /\ frames \in Nat
  /\ scanSource \in {0, 1}
  /\ timer \in Nat /\ circled \in BOOLEAN
  /\ busy \in BOOLEAN /\ src \in Buffers /\ storeTo \in Slots
  /\ lag \in Nat /\ torn \in BOOLEAN /\ current \in BOOLEAN
  /\ scanMark \in [Slots -> BOOLEAN]
  /\ store \in [Slots -> Frame]
  /\ fresh \in [Slots -> BOOLEAN]
  /\ early \subseteq Slots
  /\ clearing \in 0 .. ClearLimit /\ restarting \in BOOLEAN
  /\ erasing \in 0 .. ResetLimit /\ zeroing \in 0 .. ScanStepQty
  /\ resetAt \in Nat /\ settled \in Nat /\ restarts \in Nat

(***************************************************************************)
(* A slot recorded since the last restart or the end of the last reset     *)
(* holds one whole frame: the FPGA DMA never enters the ring buffer that a *)
(* store DMA is still reading, and nothing recorded is zeroed.  (Frames    *)
(* that begin to be stored during a reset may be zeroed: they do not count *)
(* as recorded.)                                                           *)
(***************************************************************************)
RecordedWhole == \A s \in Slots : fresh[s] => store[s].id > 0

(***************************************************************************)
(* A timer scan records in time order: going round the store from the slot *)
(* after the newest one, the frames recorded since the restart only get    *)
(* younger, across the wrap at MaxStoreIndex and across dropped frames.    *)
(***************************************************************************)
Older(s, t) ==
  \/ s < t /\ (t < timer \/ timer <= s)
  \/ t < timer /\ timer <= s

TimerChronological ==
  scanSource = 0 =>
    \A s, t \in Slots :
      fresh[s] /\ fresh[t] /\ Older(s, t) => store[s].id < store[t].id

(***************************************************************************)
(* An encoder scan records each frame at the position its own encoder word *)
(* gives, whatever the ring and the restarts did meanwhile.                *)
(***************************************************************************)
EncoderAtOwnPosition ==
  scanSource = 1 =>
    \A s \in Slots : fresh[s] => EncoderIndex(store[s].enc) = s

(***************************************************************************)
(* A scan mark promises data: a marked slot that the loop of the last      *)
(* restart or reset has reached was recorded since, or is the slot being   *)
(* recorded.  The exception is early: a slot marked during a reset, after  *)
(* the reset has cleared its mark, may be zeroed afterwards and keeps its  *)
(* mark.  (A restart never reaches slots from ClearLimit on.)              *)
(***************************************************************************)
Vouched(s) == s < clearing /\ s < erasing /\ s \notin early /\ scanMark[s]

MarkedIsRecorded ==
  ~restarting =>
    \A s \in Slots : Vouched(s) => fresh[s] \/ (busy /\ storeTo = s)

(***************************************************************************)
(* The timer is the length of the recording: until it wraps, a timer scan  *)
(* leaves no slot below it unmarked, save those that were due before the   *)
(* last restart (settled) or reset (resetAt) had cleared the marks.        *)
(***************************************************************************)
Recording ==
  scanSource = 0 /\ ~circled /\ ~restarting /\ clearing = ClearLimit /\ erasing = ResetLimit

NoHoles ==
  Recording =>
    \A s \in Slots : resetAt <= s /\ settled <= s /\ s < timer => scanMark[s]

(***************************************************************************)
(* bDmaStoreProcessing keeps the store channel to one transfer: no         *)
(* callback reprograms it while its transfer runs.                         *)
(***************************************************************************)
StoreChannelExclusive == [][busy /\ busy' => UNCHANGED <<src, storeTo>>]_driverVars

(***************************************************************************)
(* The frames recorded since the last restart are a log as ScanLog         *)
(* promises it: recording a frame takes the driver two callbacks and any   *)
(* number of dropped frames between them, and restarts come in the middle, *)
(* but each frame appears whole and youngest, or not at all; a wrapped     *)
(* timer scan loses its oldest frames only, an encoder scan the one of the *)
(* position it records again.                                              *)
(***************************************************************************)
Logged == {store[s] : s \in {t \in Slots : fresh[t]}}

Log == INSTANCE ScanLog WITH source <- scanSource, log <- Logged,
                             Room <- MaxStoreIndex + 1, Position <- EncoderIndex

RecordsLog == Log!Spec

-----------------------------------------------------------------------------
(***************************************************************************)
(* The inductive strengthening of the invariants above, for StoreLag <= 1. *)
(***************************************************************************)

\* Where the FPGA DMA may be (c) while no frame has ended since the store DMA
\* of buffer b began: wherever the claims go, its next target is not b.
Ahead(b, c, used) ==
  \/ c = (b + 1) % 4
  \/ c = (b + 2) % 4 /\ used # (b + 3) % 4

\* The FPGA DMA keeps out of the buffer being stored until the store DMA ends.
SourceSafe ==
  busy => /\ ~torn
          /\ counter # src
          /\ lag = 0 => Ahead(src, counter, inUse)

\* So does everyone else: it holds the frame that has ended in it.
SourceKept == SourceSafe /\ (busy => ring[src].id \in 1 .. frames)

\* The frame being stored is younger than every frame recorded.
SlotsOlder ==
  \A s \in Slots :
    fresh[s] => /\ store[s].id \in 1 .. frames
                /\ busy => store[s].id < ring[src].id

\* A store DMA begun after the last restart writes the slot that is due.
StoreOnTarget ==
  busy /\ current =>
    /\ ~fresh[storeTo]
    /\ scanSource = 0 => storeTo = timer
    /\ scanSource = 1 => storeTo = EncoderIndex(ring[src].enc)

\* One begun before it finds nothing recorded since.
StaleStore ==
  busy /\ ~current =>
    \A s \in Slots : ~fresh[s] /\ (~restarting => ~Vouched(s))

\* While a reset is under way nothing counts as recorded.
ResetEmpty ==
  Resetting => /\ ~current
               /\ \A s \in Slots : ~fresh[s] /\ (~restarting => ~Vouched(s))

\* The slot of the store DMA of a timer scan is marked before it is counted.
StoreMarked ==
  Recording /\ busy =>
    \/ timer < resetAt \/ timer < settled
    \/ timer \in Slots /\ scanMark[timer]

DriverInv ==
  /\ TypeOK
  /\ SourceKept
  /\ SlotsOlder
  /\ StoreOnTarget
  /\ StaleStore
  /\ ResetEmpty
  /\ TimerChronological
  /\ EncoderAtOwnPosition
  /\ MarkedIsRecorded
=============================================================================

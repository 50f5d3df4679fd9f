-------------------------- MODULE DmaDriverProofs --------------------------
(***************************************************************************)
(* Proofs about the DMA driver, for every size of the store and every      *)
(* number of frames and restarts. Whole, Chronological and OwnPosition     *)
(* assume that at most one frame ends while a store DMA runs               *)
(* (StoreLag <= 1), the others nothing.                                    *)
(***************************************************************************)
EXTENDS DmaDriver, TLAPS

(***************************************************************************)
(* The ring.                                                               *)
(***************************************************************************)

\* What the two ring computations return.
LEMMA RingArithmetic ==
  ASSUME NEW c \in Buffers, NEW used \in Buffers
  PROVE  /\ NextTarget(c, used) \in Buffers
         /\ NextTarget(c, used) # used
         /\ NextTarget(c, used) # c
         /\ LatestBuffer(c, used) \in Buffers
         /\ LatestBuffer(c, used) # c
         /\ LatestBuffer(c, used) # NextTarget(c, used)
         /\ (c + 3) % 4 \in Buffers
         /\ (c + 3) % 4 # c
         /\ (c + 3) % 4 # NextTarget(c, used) 
         /\ c # used => LatestBuffer(NextTarget(c, used), used) = c
<1>1. c \in {0, 1, 2, 3} /\ used \in {0, 1, 2, 3}
  BY DEF Buffers
<1>2. /\ 0 % 4 = 0 /\ 1 % 4 = 1 /\ 2 % 4 = 2 /\ 3 % 4 = 3
      /\ 4 % 4 = 0 /\ 5 % 4 = 1 /\ 6 % 4 = 2
  OBVIOUS
<1>3. CASE c = 0
  BY <1>1, <1>2, <1>3 DEF Buffers, NextTarget, LatestBuffer
<1>4. CASE c = 1
  BY <1>1, <1>2, <1>4 DEF Buffers, NextTarget, LatestBuffer
<1>5. CASE c = 2
  BY <1>1, <1>2, <1>5 DEF Buffers, NextTarget, LatestBuffer
<1>6. CASE c = 3
  BY <1>1, <1>2, <1>6 DEF Buffers, NextTarget, LatestBuffer
<1> QED
  BY <1>1, <1>3, <1>4, <1>5, <1>6

\* A store DMA starts with the FPGA DMA ahead of it; the next target is not
\* its source, and no claim changes that.
LEMMA AheadArithmetic ==
  ASSUME NEW b \in Buffers, NEW c \in Buffers, NEW used \in Buffers
  PROVE  /\ Ahead(b, NextTarget(b, used), used)
         /\ Ahead(b, c, used) => NextTarget(c, used) # b
         /\ Ahead(b, c, used) => Ahead(b, c, LatestBuffer(c, used))
<1>1. /\ b \in {0, 1, 2, 3} /\ c \in {0, 1, 2, 3} /\ used \in {0, 1, 2, 3}
  BY DEF Buffers
<1>2. /\ 0 % 4 = 0 /\ 1 % 4 = 1 /\ 2 % 4 = 2 /\ 3 % 4 = 3
      /\ 4 % 4 = 0 /\ 5 % 4 = 1 /\ 6 % 4 = 2
  OBVIOUS
<1>3. CASE b = 0
  BY <1>1, <1>2, <1>3 DEF Ahead, NextTarget, LatestBuffer
<1>4. CASE b = 1
  BY <1>1, <1>2, <1>4 DEF Ahead, NextTarget, LatestBuffer
<1>5. CASE b = 2
  BY <1>1, <1>2, <1>5 DEF Ahead, NextTarget, LatestBuffer
<1>6. CASE b = 3
  BY <1>1, <1>2, <1>6 DEF Ahead, NextTarget, LatestBuffer
<1> QED
  BY <1>1, <1>3, <1>4, <1>5, <1>6

(***************************************************************************)
(* Type correctness.                                                       *)
(***************************************************************************)

\* An empty buffer or slot has the type of a frame.
LEMMA NoFrameInFrame == NoFrame \in Frame
BY DEF NoFrame, Frame

\* No step leaves the declared types.
LEMMA TypeStep ==
  ASSUME TypeOK, [Next]_driverVars
  PROVE  TypeOK'
<1> USE DriverAssumption
<1>1. ASSUME NEW enc \in EncoderCounts, FrameDone(enc) PROVE TypeOK'
  <2>1. NextTarget(counter, inUse) \in Buffers
    BY RingArithmetic DEF TypeOK
  <2>2. [id |-> frames + 1, enc |-> enc] \in Frame
    BY DEF TypeOK, Frame
  <2>3. TimerSlot \in Slots
    BY DEF TimerSlot, TypeOK, Slots
  <2> DEFINE f == [id |-> frames + 1, enc |-> enc]
  <2>4. /\ ring' = [ring EXCEPT ![counter] = f]
        /\ DropFrame \/ OutOfRange(f) \/ StoreAtEncoder(f) \/ StoreAtTimer
    BY <1>1 DEF FrameDone
  <2>5. /\ mark' \in BOOLEAN /\ counter' \in Buffers /\ inUse' \in Buffers
        /\ ring' \in [Buffers -> Frame] /\ frames' \in Nat
        /\ scanSource' \in {0, 1} /\ store' \in [Slots -> Frame]
        /\ clearing' \in 0 .. ClearLimit /\ restarting' \in BOOLEAN
        /\ erasing' \in 0 .. ResetLimit /\ zeroing' \in 0 .. ScanStepQty
        /\ resetAt' \in Nat /\ settled' \in Nat /\ restarts' \in Nat
    BY <1>1, <2>1, <2>2 DEF FrameDone, restartVars, TypeOK
  <2>6. ASSUME DropFrame \/ OutOfRange(f) PROVE TypeOK'
    BY <2>5, <2>6 DEF DropFrame, OutOfRange, TypeOK
  <2>7. ASSUME NEW s \in Slots, StartStore(s), timer' \in Nat, circled' \in BOOLEAN
        PROVE  TypeOK'
    <3>1. early' \subseteq Slots /\ current' \in BOOLEAN
      BY <2>7 DEF StartStore, Resetting, TypeOK
    <3> QED
      BY <2>5, <2>7, <3>1 DEF StartStore, TypeOK
  <2>8. CASE StoreAtEncoder(f)
    BY <2>7, <2>8 DEF StoreAtEncoder, TypeOK
  <2>9. CASE StoreAtTimer
    BY <2>3, <2>7, <2>9 DEF StoreAtTimer, TypeOK, Slots
  <2> QED
    BY <2>4, <2>6, <2>8, <2>9
<1>2. CASE StoreDone
  <2>1. /\ store' \in [Slots -> Frame]
        /\ fresh' \in [Slots -> BOOLEAN]
    BY NoFrameInFrame, <1>2 DEF StoreDone, TypeOK, ringVars
  <2>2. timer' \in Nat
    BY <1>2 DEF StoreDone, TypeOK
  <2> QED
    BY <1>2, <2>1, <2>2, Zenon DEF StoreDone, TypeOK, ringVars, restartVars
<1>3. ASSUME NEW source \in Sources, RestartSource(source) PROVE TypeOK'
  <2>1. fresh' \in [Slots -> BOOLEAN]
    BY <1>3, Zenon DEF RestartSource
  <2>2. scanSource' \in {0, 1} /\ restarts' \in Nat
    BY <1>3 DEF RestartSource, TypeOK
  <2> QED
    BY <1>3, <2>1, <2>2, Zenon DEF RestartSource, TypeOK, ringVars
<1>4. CASE RestartIndices
  <2>1. fresh' \in [Slots -> BOOLEAN]
    BY <1>4, Zenon DEF RestartIndices
  <2>2. 0 \in Nat /\ 0 \in 0 .. ClearLimit
    OBVIOUS
  <2>3. settled' \in Nat
    BY <1>4 DEF RestartIndices, NextRecorded
  <2> QED
    BY <1>4, <2>1, <2>2, <2>3, Zenon DEF RestartIndices, TypeOK, ringVars
<1>5. CASE ClearMark
  <2>1. scanMark' \in [Slots -> BOOLEAN]
    BY <1>5, Zenon DEF ClearMark
  <2>2. settled' \in Nat
    BY <1>5 DEF ClearMark, NextRecorded, TypeOK
  <2>3. clearing' \in 0 .. ClearLimit
    BY <1>5 DEF ClearMark, TypeOK
  <2> QED
    BY <1>5, <2>1, <2>2, <2>3, Zenon DEF ClearMark, TypeOK, ringVars
<1>6. CASE ResetScanData
  <2>1. fresh' \in [Slots -> BOOLEAN]
    BY <1>6, Zenon DEF ResetScanData
  <2>2. /\ resetAt' \in Nat /\ restarts' \in Nat
        /\ erasing' \in 0 .. ResetLimit /\ zeroing' \in 0 .. ScanStepQty
    BY <1>6 DEF ResetScanData, NextRecorded, TypeOK
  <2> QED
    BY <1>6, <2>1, <2>2, Zenon DEF ResetScanData, TypeOK, ringVars
<1>9. CASE ResetMark
  <2>1. scanMark' \in [Slots -> BOOLEAN]
    BY <1>9, Zenon DEF ResetMark
  <2>2. resetAt' \in Nat /\ erasing' \in 0 .. ResetLimit
    BY <1>9 DEF ResetMark, NextRecorded, TypeOK
  <2> QED
    BY <1>9, <2>1, <2>2, Zenon DEF ResetMark, TypeOK, ringVars
<1>10. CASE ResetSlot
  <2>1. store' \in [Slots -> Frame]
    BY NoFrameInFrame, <1>10 DEF ResetSlot, TypeOK
  <2>2. zeroing' \in 0 .. ScanStepQty
    BY <1>10 DEF ResetSlot, TypeOK
  <2> QED
    BY <1>10, <2>1, <2>2, Zenon DEF ResetSlot, TypeOK, ringVars
<1>7. CASE Claim
  BY <1>7, RingArithmetic DEF Claim, TypeOK, storeVars, restartVars
<1>8. CASE UNCHANGED driverVars
  BY <1>8 DEF driverVars, ringVars, storeVars, restartVars, TypeOK
<1> QED
  BY <1>1, <1>2, <1>3, <1>4, <1>5, <1>6, <1>7, <1>8, <1>9, <1>10 DEF Next

\* Nor does the initial state.
LEMMA InitTypeOK ==
  ASSUME Init
  PROVE  TypeOK
<1>1. /\ 0 \in Slots /\ 0 \in Buffers /\ 0 \in Nat /\ scanSource \in {0, 1}
      /\ ClearLimit \in 0 .. ClearLimit /\ ResetLimit \in 0 .. ResetLimit
      /\ ScanStepQty \in 0 .. ScanStepQty
  BY DriverAssumption DEF Slots, Buffers, Init
<1>2. /\ ring \in [Buffers -> Frame] /\ store \in [Slots -> Frame]
      /\ scanMark \in [Slots -> BOOLEAN] /\ fresh \in [Slots -> BOOLEAN]
  BY NoFrameInFrame DEF Init
<1> QED
  BY <1>1, <1>2, Zenon DEF Init, TypeOK

\* Every state of the driver is of the declared types, at any store size.
THEOREM TypeCorrect == Spec => []TypeOK
<1>1. Init => TypeOK
  BY InitTypeOK
<1>2. TypeOK /\ [Next]_driverVars => TypeOK'
  BY TypeStep
<1> QED
  BY <1>1, <1>2, PTL DEF Spec

(***************************************************************************)
(* The store: the inductive invariant, one lemma per part.                 *)
(***************************************************************************)

\* What the end of a frame does: it is dropped, ignored or stored, and only
\* when the store channel is free is it stored.
LEMMA FrameDoneCases ==
  ASSUME TypeOK, NEW enc \in EncoderCounts, FrameDone(enc)
  PROVE  /\ frames' = frames + 1
         /\ ring' = [ring EXCEPT ![counter] = [id |-> frames + 1, enc |-> enc]]
         /\ counter' = NextTarget(counter, inUse)
         /\ UNCHANGED <<inUse, scanSource, store, clearing, restarting, erasing, zeroing>>
         /\ \/ DropFrame
            \/ UNCHANGED <<timer, busy, current, scanMark, fresh, early>> /\ ~busy
            \/ \E s \in Slots :
                 /\ ~busy
                 /\ StartStore(s)
                 /\ scanSource = 0 => /\ timer' = s
                                      /\ timer = s \/ timer > MaxStoreIndex
                                      /\ timer > MaxStoreIndex => s = 0
                 /\ scanSource = 1 => s = EncoderIndex(enc) /\ timer' = timer
<1> DEFINE f == [id |-> frames + 1, enc |-> enc]
<1>1. DropFrame \/ OutOfRange(f) \/ StoreAtEncoder(f) \/ StoreAtTimer
  BY DEF FrameDone
<1>2. CASE DropFrame
  BY <1>2 DEF FrameDone, restartVars
<1>3. CASE OutOfRange(f)
  BY <1>3 DEF FrameDone, OutOfRange, restartVars
<1>4. CASE StoreAtEncoder(f)
  <2>1. f.enc = enc
    OBVIOUS
  <2>2. /\ ~busy /\ scanSource # 0
        /\ EncoderIndex(enc) \in Slots
        /\ StartStore(EncoderIndex(enc))
        /\ timer' = timer
    BY <1>4, <2>1 DEF StoreAtEncoder
  <2> QED
    BY <2>2 DEF FrameDone, restartVars
<1>5. CASE StoreAtTimer
  <2>1. TimerSlot \in Slots
    BY DriverAssumption DEF TimerSlot, TypeOK, Slots
  <2>2. /\ timer = TimerSlot \/ timer > MaxStoreIndex
        /\ timer > MaxStoreIndex => TimerSlot = 0
    BY DEF TimerSlot
  <2> QED
    BY <1>5, <2>1, <2>2 DEF StoreAtTimer, FrameDone, restartVars
<1> QED
  BY <1>1, <1>2, <1>3, <1>4, <1>5

\* The FPGA DMA stays out of the buffer being stored.
LEMMA SourceSafeStep ==
  ASSUME StoreLag <= 1, TypeOK, SourceSafe, [Next]_driverVars
  PROVE  SourceSafe'
<1> USE DriverAssumption
<1>1. ASSUME NEW enc \in EncoderCounts, FrameDone(enc) PROVE SourceSafe'
  <2>0. counter \in Buffers /\ inUse \in Buffers /\ src \in Buffers /\ lag \in Nat
    BY DEF TypeOK
  <2>1. CASE DropFrame
    <3>1. /\ busy /\ lag = 0 /\ lag' = 1 /\ src' = src
          /\ torn' = (torn \/ NextTarget(counter, inUse) = src)
      BY <2>0, <2>1 DEF DropFrame
    <3>2. NextTarget(counter, inUse) # src /\ ~torn
      BY <2>0, <3>1, AheadArithmetic DEF SourceSafe
    <3>3. ~torn' /\ counter' # src'
      BY <1>1, <3>1, <3>2, FrameDoneCases
    <3> QED
      BY <3>1, <3>3 DEF SourceSafe
  <2>2. CASE UNCHANGED <<timer, busy, scanMark, fresh, early>> /\ ~busy
    BY <2>2 DEF SourceSafe
  <2>3. ASSUME NEW s \in Slots, StartStore(s) PROVE SourceSafe'
    <3>1. ~torn' /\ src' = counter
      BY <2>3 DEF StartStore
    <3>2. counter' # src' /\ Ahead(src', counter', inUse')
      BY <1>1, <2>0, <3>1, RingArithmetic, AheadArithmetic, FrameDoneCases
    <3> QED
      BY <3>1, <3>2 DEF SourceSafe
  <2> QED
    BY <1>1, <2>1, <2>2, <2>3, FrameDoneCases
<1>2. CASE StoreDone
  BY <1>2 DEF StoreDone, SourceSafe
<1>3. CASE UNCHANGED <<ringVars, busy, src, lag, torn>>
  BY <1>3 DEF SourceSafe, ringVars, Ahead
<1>4. ASSUME NEW source \in Sources, RestartSource(source) PROVE SourceSafe'
  BY <1>3, <1>4 DEF RestartSource
<1>5. CASE RestartIndices
  BY <1>3, <1>5 DEF RestartIndices
<1>6. CASE ClearMark
  BY <1>3, <1>6 DEF ClearMark
<1>7. CASE ResetScanData \/ ResetMark \/ ResetSlot
  BY <1>3, <1>7 DEF ResetScanData, ResetMark, ResetSlot
<1>8. CASE Claim
  <2>1. /\ UNCHANGED <<counter, ring, frames, busy, src, lag, torn>>
        /\ inUse' = LatestBuffer(counter, inUse)
    BY <1>8 DEF Claim, storeVars
  <2>2. busy /\ lag = 0 => Ahead(src, counter, inUse')
    BY <2>1, AheadArithmetic DEF SourceSafe, TypeOK
  <2> QED
    BY <2>1, <2>2 DEF SourceSafe, Ahead
<1>9. CASE UNCHANGED driverVars
  BY <1>3, <1>9 DEF driverVars, ringVars, storeVars
<1> QED
  BY <1>1, <1>2, <1>4, <1>5, <1>6, <1>7, <1>8, <1>9 DEF Next

\* So it holds the frame that ended in it.
LEMMA SourceKeptStep ==
  ASSUME StoreLag <= 1, TypeOK, SourceKept, [Next]_driverVars
  PROVE  SourceKept'
<1> SUFFICES (busy => ring[src].id \in 1 .. frames)'
  BY SourceSafeStep DEF SourceKept
<1>0. counter \in Buffers /\ src \in Buffers /\ frames \in Nat
  BY DEF TypeOK
<1>1. ASSUME NEW enc \in EncoderCounts, FrameDone(enc) PROVE (busy => ring[src].id \in 1 .. frames)'
  <2>1. CASE DropFrame
    <3>1. busy /\ src' = src /\ counter # src
      BY <2>1 DEF DropFrame, SourceKept, SourceSafe
    <3>2. ring'[src'] = ring[src] /\ frames' = frames + 1
      BY <1>0, <1>1, <3>1, FrameDoneCases DEF TypeOK
    <3> QED
      BY <1>0, <3>1, <3>2 DEF SourceKept
  <2>2. CASE UNCHANGED <<timer, busy, scanMark, fresh, early>> /\ ~busy
    BY <2>2
  <2>3. ASSUME NEW s \in Slots, StartStore(s) PROVE (busy => ring[src].id \in 1 .. frames)'
    <3>1. src' = counter
      BY <2>3 DEF StartStore
    <3>2. ring'[src'].id = frames + 1 /\ frames' = frames + 1
      BY <1>0, <1>1, <3>1, FrameDoneCases DEF TypeOK
    <3> QED
      BY <1>0, <3>2
  <2> QED
    BY <1>1, <2>1, <2>2, <2>3, FrameDoneCases
<1>2. CASE StoreDone
  BY <1>2 DEF StoreDone
<1>3. CASE UNCHANGED <<ring, frames, busy, src>>
  BY <1>3 DEF SourceKept
<1>4. ASSUME NEW source \in Sources, RestartSource(source) PROVE (busy => ring[src].id \in 1 .. frames)'
  BY <1>3, <1>4 DEF RestartSource, ringVars
<1>5. CASE RestartIndices \/ ClearMark \/ ResetScanData \/ Claim \/ UNCHANGED driverVars
  BY <1>3, <1>5 DEF RestartIndices, ClearMark, ResetScanData, Claim, driverVars, ringVars,
                    storeVars
<1>6. CASE ResetMark \/ ResetSlot
  BY <1>3, <1>6 DEF ResetMark, ResetSlot, ringVars
<1> QED
  BY <1>1, <1>2, <1>4, <1>5, <1>6 DEF Next

\* Clearing a mark vouches for no new slot.
LEMMA FewerVouched ==
  ASSUME TypeOK, ClearMark \/ ResetMark
  PROVE  \A s \in Slots : Vouched(s)' => Vouched(s)
<1> USE DriverAssumption
<1>1. CASE ClearMark
  <2>1. /\ clearing' = clearing + 1 /\ UNCHANGED <<erasing, early>>
        /\ \A s \in Slots : scanMark'[s] => scanMark[s] /\ s # clearing
    BY <1>1 DEF ClearMark
  <2>2. \A s \in Slots : s < clearing' /\ s # clearing => s < clearing
    BY <2>1 DEF Slots, TypeOK
  <2> QED
    BY <2>1, <2>2 DEF Vouched
<1>2. CASE ResetMark
  <2>1. /\ erasing' = erasing + 1 /\ UNCHANGED <<clearing, early>>
        /\ \A s \in Slots : scanMark'[s] => scanMark[s] /\ s # erasing
    BY <1>2 DEF ResetMark
  <2>2. \A s \in Slots : s < erasing' /\ s # erasing => s < erasing
    BY <2>1 DEF Slots, TypeOK
  <2> QED
    BY <2>1, <2>2 DEF Vouched
<1> QED
  BY <1>1, <1>2

\* While a reset is under way nothing begins to count as recorded.
LEMMA ResetEmptyStep ==
  ASSUME TypeOK, ResetEmpty, [Next]_driverVars
  PROVE  ResetEmpty'
<1> USE DriverAssumption
<1>1. ASSUME NEW enc \in EncoderCounts, FrameDone(enc) PROVE ResetEmpty'
  <2>1. UNCHANGED <<clearing, restarting, erasing, zeroing>>
    BY <1>1, FrameDoneCases
  <2>2. CASE UNCHANGED <<current, scanMark, fresh, early>>
    BY <2>1, <2>2 DEF ResetEmpty, Resetting, Vouched
  <2>3. CASE UNCHANGED <<timer, busy, scanMark, fresh, early>> /\ ~busy
    <3>1. current' = current \/ \E s \in Slots : StartStore(s)
      BY <1>1 DEF FrameDone, DropFrame, OutOfRange, StoreAtEncoder, StoreAtTimer, TimerSlot,
                  Slots, TypeOK
    <3>2. Resetting => ~current'
      BY <3>1 DEF StartStore, ResetEmpty
    <3> QED
      BY <2>1, <2>3, <3>2 DEF ResetEmpty, Resetting, Vouched
  <2>4. ASSUME NEW s \in Slots, StartStore(s) PROVE ResetEmpty'
    <3> SUFFICES ASSUME Resetting PROVE ResetEmpty'
      BY <2>1 DEF ResetEmpty, Resetting
    <3>1. ~current' /\ early' = early \cup {s}
      BY <2>4 DEF StartStore
    <3>2. \A t \in Slots : /\ fresh'[t] => fresh[t]
                           /\ scanMark'[t] => scanMark[t] \/ t = s
      BY <2>4 DEF StartStore, TypeOK
    <3> QED
      BY <2>1, <3>1, <3>2 DEF ResetEmpty, Vouched
  <2> QED
    BY <1>1, <2>2, <2>3, <2>4, FrameDoneCases DEF DropFrame
<1>2. CASE StoreDone
  <2>1. /\ UNCHANGED <<current, scanMark, early, clearing, restarting, erasing, zeroing>>
        /\ fresh' = [fresh EXCEPT ![storeTo] = current]
    BY <1>2 DEF StoreDone, restartVars
  <2>2. ~current => \A t \in Slots : fresh'[t] => fresh[t]
    BY <2>1 DEF TypeOK
  <2> QED
    BY <2>1, <2>2 DEF ResetEmpty, Resetting, Vouched
<1>3. ASSUME NEW source \in Sources, RestartSource(source) PROVE ResetEmpty'
  BY <1>3 DEF RestartSource, Settled, Resetting, ResetEmpty
<1>4. CASE RestartIndices
  <2>1. ~current' /\ \A s \in Slots : ~fresh'[s] /\ ~(s < clearing')
    BY <1>4 DEF RestartIndices, Slots
  <2> QED
    BY <2>1 DEF ResetEmpty, Vouched
<1>5. CASE ClearMark
  <2>1. UNCHANGED <<current, fresh, early, restarting, erasing, zeroing>>
    BY <1>5 DEF ClearMark
  <2>2. \A s \in Slots : Vouched(s)' => Vouched(s)
    BY <1>5, FewerVouched
  <2> QED
    BY <2>1, <2>2 DEF ResetEmpty, Resetting
<1>6. CASE ResetScanData
  <2>1. ~current' /\ \A s \in Slots : ~fresh'[s] /\ ~(s < erasing')
    BY <1>6 DEF ResetScanData, Slots
  <2> QED
    BY <2>1 DEF ResetEmpty, Vouched
<1>7. CASE ResetMark
  <2>1. UNCHANGED <<current, fresh, early, restarting, clearing, zeroing>> /\ Resetting
    BY <1>7 DEF ResetMark, Resetting
  <2>2. \A s \in Slots : Vouched(s)' => Vouched(s)
    BY <1>7, FewerVouched
  <2> QED
    BY <2>1, <2>2 DEF ResetEmpty
<1>8. CASE ResetSlot
  BY <1>8 DEF ResetSlot, ResetEmpty, Resetting, Vouched
<1>9. CASE UNCHANGED <<current, scanMark, fresh, early, restartVars>>
  BY <1>9 DEF ResetEmpty, Resetting, Vouched, restartVars
<1>10. CASE Claim \/ UNCHANGED driverVars
  BY <1>9, <1>10 DEF Claim, driverVars, storeVars
<1> QED
  BY <1>1, <1>2, <1>3, <1>4, <1>5, <1>6, <1>7, <1>8, <1>10 DEF Next

\* The frame being stored stays the youngest.
LEMMA SlotsOlderStep ==
  ASSUME TypeOK, SourceKept, SlotsOlder, ResetEmpty, [Next]_driverVars
  PROVE  SlotsOlder'
<1> USE DriverAssumption
<1>1. ASSUME NEW enc \in EncoderCounts, FrameDone(enc) PROVE SlotsOlder'
  <2>0. counter \in Buffers /\ src \in Buffers /\ frames \in Nat
    BY DEF TypeOK
  <2>1. frames' = frames + 1 /\ store' = store
    BY <1>1, FrameDoneCases
  <2>2. CASE DropFrame
    <3>1. busy /\ UNCHANGED <<busy, src, fresh>>
      BY <2>2 DEF DropFrame
    <3>2. ring'[src'] = ring[src]
      BY <1>1, <2>0, <3>1, FrameDoneCases DEF SourceKept, SourceSafe, TypeOK
    <3> QED
      BY <2>0, <2>1, <3>1, <3>2 DEF SlotsOlder
  <2>3. CASE UNCHANGED <<timer, busy, scanMark, fresh, early>> /\ ~busy
    BY <2>0, <2>1, <2>3 DEF SlotsOlder
  <2>4. ASSUME NEW s \in Slots, ~busy, StartStore(s) PROVE SlotsOlder'
    <3>1. src' = counter /\ fresh' = [fresh EXCEPT ![s] = FALSE]
      BY <2>4 DEF StartStore
    <3>2. ring'[src'].id = frames + 1
      BY <1>1, <2>0, <3>1, FrameDoneCases DEF TypeOK
    <3>3. \A t \in Slots : fresh'[t] => fresh[t]
      BY <3>1 DEF TypeOK
    <3> QED
      BY <2>0, <2>1, <3>2, <3>3 DEF SlotsOlder
  <2> QED
    BY <1>1, <2>2, <2>3, <2>4, FrameDoneCases
<1>2. CASE StoreDone
  <2>1. /\ busy /\ ~busy' /\ frames' = frames
        /\ store' = [store EXCEPT ![storeTo] = IF torn THEN NoFrame ELSE ring[src]]
        /\ fresh' = [fresh EXCEPT ![storeTo] = current]
    BY <1>2 DEF StoreDone, ringVars
  <2>2. store'[storeTo].id \in 1 .. frames
    BY <2>1 DEF SourceKept, SourceSafe, TypeOK
  <2>3. \A t \in Slots : t # storeTo => fresh'[t] = fresh[t] /\ store'[t] = store[t]
    BY <2>1 DEF TypeOK
  <2> QED
    BY <2>1, <2>2, <2>3 DEF SlotsOlder
<1>3. CASE UNCHANGED <<ring, frames, busy, src, store, fresh>>
  BY <1>3 DEF SlotsOlder
<1>4. ASSUME \A t \in Slots : ~fresh'[t] PROVE SlotsOlder'
  BY <1>4 DEF SlotsOlder
<1>5. ASSUME NEW source \in Sources, RestartSource(source) PROVE SlotsOlder'
  BY <1>4, <1>5 DEF RestartSource
<1>6. CASE RestartIndices
  BY <1>4, <1>6 DEF RestartIndices
<1>7. CASE ClearMark
  BY <1>3, <1>7 DEF ClearMark, ringVars
<1>8. CASE ResetScanData
  BY <1>4, <1>8 DEF ResetScanData
<1>11. CASE ResetMark
  BY <1>3, <1>11 DEF ResetMark, ringVars
<1>12. CASE ResetSlot
  <2>1. Resetting /\ fresh' = fresh
    BY <1>12 DEF ResetSlot, Resetting
  <2> QED
    BY <1>4, <2>1 DEF ResetEmpty
<1>9. CASE Claim
  BY <1>3, <1>9 DEF Claim, storeVars
<1>10. CASE UNCHANGED driverVars
  BY <1>3, <1>10 DEF driverVars, ringVars, storeVars
<1> QED
  BY <1>1, <1>2, <1>5, <1>6, <1>7, <1>8, <1>9, <1>10, <1>11, <1>12 DEF Next

\* A store DMA begun since the restart stays on the slot that is due.
LEMMA StoreOnTargetStep ==
  ASSUME TypeOK, SourceKept, StoreOnTarget, [Next]_driverVars
  PROVE  StoreOnTarget'
<1> USE DriverAssumption
<1>1. ASSUME NEW enc \in EncoderCounts, FrameDone(enc) PROVE StoreOnTarget'
  <2>0. counter \in Buffers /\ src \in Buffers
    BY DEF TypeOK
  <2>1. scanSource' = scanSource
    BY <1>1, FrameDoneCases
  <2>2. CASE DropFrame
    <3>1. busy /\ UNCHANGED <<busy, src, fresh, storeTo, current, timer>>
      BY <2>2 DEF DropFrame
    <3>2. ring'[src'] = ring[src]
      BY <1>1, <2>0, <3>1, FrameDoneCases DEF SourceKept, SourceSafe, TypeOK
    <3> QED
      BY <2>1, <3>1, <3>2 DEF StoreOnTarget
  <2>3. CASE UNCHANGED <<timer, busy, scanMark, fresh, early>> /\ ~busy
    BY <2>3 DEF StoreOnTarget
  <2>4. ASSUME NEW s \in Slots, StartStore(s),
               scanSource = 0 => timer' = s,
               scanSource = 1 => s = EncoderIndex(enc)
        PROVE  StoreOnTarget'
    <3>1. src' = counter /\ storeTo' = s /\ fresh' = [fresh EXCEPT ![s] = FALSE]
      BY <2>4 DEF StartStore
    <3>2. ring'[src'].enc = enc
      BY <1>1, <2>0, <3>1, FrameDoneCases DEF TypeOK
    <3>3. ~fresh'[storeTo']
      BY <3>1 DEF TypeOK
    <3> QED
      BY <2>1, <2>4, <3>1, <3>2, <3>3 DEF StoreOnTarget
  <2> QED
    BY <1>1, <2>2, <2>3, <2>4, FrameDoneCases
<1>2. CASE StoreDone
  BY <1>2 DEF StoreDone, StoreOnTarget
<1>3. CASE UNCHANGED <<ring, scanSource, timer, busy, src, storeTo, current, fresh>>
  BY <1>3 DEF StoreOnTarget
<1>4. CASE ~current'
  BY <1>4 DEF StoreOnTarget
<1>5. ASSUME NEW source \in Sources, RestartSource(source) PROVE StoreOnTarget'
  BY <1>4, <1>5 DEF RestartSource
<1>6. CASE RestartIndices
  BY <1>4, <1>6 DEF RestartIndices
<1>7. CASE ClearMark
  BY <1>3, <1>7 DEF ClearMark, ringVars
<1>8. CASE ResetScanData
  BY <1>4, <1>8 DEF ResetScanData
<1>11. CASE ResetMark \/ ResetSlot
  BY <1>3, <1>11 DEF ResetMark, ResetSlot, ringVars
<1>9. CASE Claim
  BY <1>3, <1>9 DEF Claim, storeVars
<1>10. CASE UNCHANGED driverVars
  BY <1>3, <1>10 DEF driverVars, ringVars, storeVars
<1> QED
  BY <1>1, <1>2, <1>5, <1>6, <1>7, <1>8, <1>9, <1>10, <1>11 DEF Next

\* A store DMA begun before the restart is not taken for one begun since.
LEMMA StaleStoreStep ==
  ASSUME TypeOK, StaleStore, ResetEmpty, [Next]_driverVars
  PROVE  StaleStore'
<1> USE DriverAssumption
<1>1. ASSUME NEW enc \in EncoderCounts, FrameDone(enc) PROVE StaleStore'
  <2>1. UNCHANGED <<clearing, restarting, erasing, zeroing>>
    BY <1>1, FrameDoneCases
  <2>2. CASE DropFrame
    BY <2>1, <2>2 DEF DropFrame, StaleStore, Vouched
  <2>3. CASE UNCHANGED <<timer, busy, scanMark, fresh, early>> /\ ~busy
    BY <2>3 DEF StaleStore
  <2>4. ASSUME NEW s \in Slots, StartStore(s) PROVE StaleStore'
    <3>1. ~current' => Resetting'
      BY <2>1, <2>4 DEF StartStore, Resetting
    <3> QED
      BY <3>1, ResetEmptyStep DEF StaleStore, ResetEmpty
  <2> QED
    BY <1>1, <2>2, <2>3, <2>4, FrameDoneCases
<1>2. CASE StoreDone
  BY <1>2 DEF StoreDone, StaleStore
<1>3. CASE UNCHANGED <<busy, current, fresh, restarting, clearing, erasing, early, scanMark>>
  BY <1>3 DEF StaleStore, Vouched
<1>4. ASSUME NEW source \in Sources, RestartSource(source) PROVE StaleStore'
  BY <1>4 DEF RestartSource, StaleStore
<1>5. CASE RestartIndices
  <2>1. \A s \in Slots : ~fresh'[s] /\ ~(s < clearing')
    BY <1>5 DEF RestartIndices, Slots
  <2> QED
    BY <2>1 DEF StaleStore, Vouched
<1>6. CASE ClearMark
  <2>1. UNCHANGED <<busy, current, fresh, restarting>>
    BY <1>6 DEF ClearMark
  <2>2. \A s \in Slots : Vouched(s)' => Vouched(s)
    BY <1>6, FewerVouched
  <2> QED
    BY <2>1, <2>2 DEF StaleStore
<1>7. CASE ResetScanData
  <2>1. \A s \in Slots : ~fresh'[s] /\ ~(s < erasing')
    BY <1>7 DEF ResetScanData, Slots
  <2> QED
    BY <2>1 DEF StaleStore, Vouched
<1>10. CASE ResetMark
  <2>1. UNCHANGED <<busy, current, fresh, restarting>>
    BY <1>10 DEF ResetMark
  <2>2. \A s \in Slots : Vouched(s)' => Vouched(s)
    BY <1>10, FewerVouched
  <2> QED
    BY <2>1, <2>2 DEF StaleStore
<1>11. CASE ResetSlot
  BY <1>3, <1>11 DEF ResetSlot
<1>8. CASE Claim
  BY <1>3, <1>8 DEF Claim, storeVars, restartVars
<1>9. CASE UNCHANGED driverVars
  BY <1>3, <1>9 DEF driverVars, storeVars, restartVars
<1> QED
  BY <1>1, <1>2, <1>4, <1>5, <1>6, <1>7, <1>8, <1>9, <1>10, <1>11 DEF Next

(***************************************************************************)
(* The properties of the recording.                                        *)
(***************************************************************************)

\* Every step keeps a timer scan in time order.
LEMMA ChronologicalStep ==
  ASSUME TypeOK, SourceKept, ResetEmpty, SlotsOlder, StoreOnTarget, StaleStore,
         TimerChronological, [Next]_driverVars
  PROVE  TimerChronological'
<1> USE DriverAssumption
<1>1. ASSUME UNCHANGED <<scanSource, store, timer>>,
             \A s \in Slots : fresh'[s] => fresh[s]
      PROVE  TimerChronological'
  BY <1>1 DEF TimerChronological, Older
<1>2. ASSUME \A s \in Slots : ~fresh'[s] PROVE TimerChronological'
  BY <1>2 DEF TimerChronological
<1>3. ASSUME NEW enc \in EncoderCounts, FrameDone(enc) PROVE TimerChronological'
  <2>1. UNCHANGED <<scanSource, store>>
    BY <1>3, FrameDoneCases
  <2>2. CASE DropFrame
    BY <1>1, <2>1, <2>2 DEF DropFrame
  <2>3. CASE UNCHANGED <<timer, busy, scanMark, fresh, early>> /\ ~busy
    BY <1>1, <2>1, <2>3
  <2>4. ASSUME NEW s \in Slots, StartStore(s),
               scanSource = 0 => /\ timer' = s
                                 /\ timer = s \/ timer > MaxStoreIndex
                                 /\ timer > MaxStoreIndex => s = 0
        PROVE  TimerChronological'
    <3>1. \A t \in Slots : fresh'[t] => fresh[t]
      BY <2>4 DEF StartStore, TypeOK
    <3>2. scanSource = 0 =>
            \A t, u \in Slots : Older(t, u)' => Older(t, u)
      BY <2>4 DEF Older, Slots, TypeOK
    <3> QED
      BY <2>1, <3>1, <3>2 DEF TimerChronological
  <2> QED
    BY <1>3, <2>2, <2>3, <2>4, FrameDoneCases
<1>4. CASE StoreDone
  <2>1. /\ busy /\ UNCHANGED <<scanSource, storeTo>> /\ timer' = timer + 1
        /\ store' = [store EXCEPT ![storeTo] = IF torn THEN NoFrame ELSE ring[src]]
        /\ fresh' = [fresh EXCEPT ![storeTo] = current]
    BY <1>4 DEF StoreDone
  <2>2. CASE ~current
    BY <1>2, <2>1, <2>2 DEF StaleStore, TypeOK
  <2>3. CASE current /\ scanSource = 0
    <3>1. storeTo = timer /\ store'[storeTo] = ring[src]
      BY <2>1, <2>3 DEF StoreOnTarget, SourceKept, SourceSafe, TypeOK
    <3>2. \A t \in Slots : t # storeTo => fresh'[t] = fresh[t] /\ store'[t] = store[t]
      BY <2>1 DEF TypeOK
    <3>3. \A t \in Slots : ~Older(storeTo, t)'
      BY <2>1, <3>1 DEF Older, Slots, TypeOK
    <3>4. \A t, u \in Slots : /\ t # storeTo /\ u # storeTo /\ Older(t, u)'
                             => Older(t, u)
      BY <2>1, <3>1 DEF Older, Slots, TypeOK
    <3>5. SUFFICES ASSUME NEW t \in Slots, NEW u \in Slots,
                          fresh'[t], fresh'[u], Older(t, u)'
                   PROVE  store'[t].id < store'[u].id
      BY DEF TimerChronological, Older
    <3>6. t # storeTo
      BY <2>1, <3>3, <3>5 DEF Older
    <3>7. CASE u = storeTo
      BY <2>1, <3>1, <3>2, <3>5, <3>6, <3>7 DEF SlotsOlder
    <3>8. CASE u # storeTo
      BY <2>3, <3>2, <3>4, <3>5, <3>6, <3>8 DEF TimerChronological
    <3> QED
      BY <3>7, <3>8
  <2>4. CASE scanSource # 0
    BY <2>1, <2>4 DEF TimerChronological
  <2> QED
    BY <2>2, <2>3, <2>4
<1>5. ASSUME NEW source \in Sources, RestartSource(source) PROVE TimerChronological'
  BY <1>2, <1>5 DEF RestartSource
<1>6. CASE RestartIndices
  BY <1>2, <1>6 DEF RestartIndices
<1>7. CASE ClearMark
  BY <1>1, <1>7 DEF ClearMark
<1>8. CASE ResetScanData
  BY <1>2, <1>8 DEF ResetScanData
<1>11. CASE ResetMark
  BY <1>1, <1>11 DEF ResetMark
<1>12. CASE ResetSlot
  <2>1. Resetting /\ fresh' = fresh
    BY <1>12 DEF ResetSlot, Resetting
  <2> QED
    BY <1>2, <2>1 DEF ResetEmpty
<1>9. CASE Claim
  BY <1>1, <1>9 DEF Claim, storeVars
<1>10. CASE UNCHANGED driverVars
  BY <1>1, <1>10 DEF driverVars, storeVars
<1> QED
  BY <1>3, <1>4, <1>5, <1>6, <1>7, <1>8, <1>9, <1>10, <1>11, <1>12 DEF Next

\* Every step keeps the frames of an encoder scan at their own positions.
LEMMA OwnPositionStep ==
  ASSUME TypeOK, SourceKept, ResetEmpty, StoreOnTarget, StaleStore,
         EncoderAtOwnPosition, [Next]_driverVars
  PROVE  EncoderAtOwnPosition'
<1> USE DriverAssumption
<1>1. ASSUME UNCHANGED <<scanSource, store>>,
             \A s \in Slots : fresh'[s] => fresh[s]
      PROVE  EncoderAtOwnPosition'
  BY <1>1 DEF EncoderAtOwnPosition
<1>2. ASSUME \A s \in Slots : ~fresh'[s] PROVE EncoderAtOwnPosition'
  BY <1>2 DEF EncoderAtOwnPosition
<1>3. ASSUME NEW enc \in EncoderCounts, FrameDone(enc) PROVE EncoderAtOwnPosition'
  <2>1. UNCHANGED <<scanSource, store>>
    BY <1>3, FrameDoneCases
  <2>2. \A t \in Slots : fresh'[t] => fresh[t]
    <3>1. CASE DropFrame
      BY <3>1 DEF DropFrame
    <3>2. ASSUME NEW s \in Slots, StartStore(s)
          PROVE  \A t \in Slots : fresh'[t] => fresh[t]
      BY <3>2 DEF StartStore, TypeOK
    <3> QED
      BY <1>3, <3>1, <3>2, FrameDoneCases
  <2> QED
    BY <1>1, <2>1, <2>2
<1>4. CASE StoreDone
  <2>1. /\ busy /\ scanSource' = scanSource
        /\ store' = [store EXCEPT ![storeTo] = IF torn THEN NoFrame ELSE ring[src]]
        /\ fresh' = [fresh EXCEPT ![storeTo] = current]
    BY <1>4 DEF StoreDone
  <2>2. CASE ~current
    BY <1>2, <2>1, <2>2 DEF StaleStore, TypeOK
  <2>3. CASE current /\ scanSource = 1
    <3>1. EncoderIndex(ring[src].enc) = storeTo /\ store'[storeTo] = ring[src]
      BY <2>1, <2>3 DEF StoreOnTarget, SourceKept, SourceSafe, TypeOK
    <3>2. \A t \in Slots : t # storeTo => fresh'[t] = fresh[t] /\ store'[t] = store[t]
      BY <2>1 DEF TypeOK
    <3> QED
      BY <2>3, <3>1, <3>2 DEF EncoderAtOwnPosition
  <2>4. CASE scanSource # 1
    BY <2>1, <2>4 DEF EncoderAtOwnPosition
  <2> QED
    BY <2>2, <2>3, <2>4
<1>5. ASSUME NEW source \in Sources, RestartSource(source) PROVE EncoderAtOwnPosition'
  BY <1>2, <1>5 DEF RestartSource
<1>6. CASE RestartIndices
  BY <1>2, <1>6 DEF RestartIndices
<1>7. CASE ClearMark
  BY <1>1, <1>7 DEF ClearMark
<1>8. CASE ResetScanData
  BY <1>2, <1>8 DEF ResetScanData
<1>11. CASE ResetMark
  BY <1>1, <1>11 DEF ResetMark
<1>12. CASE ResetSlot
  <2>1. Resetting /\ fresh' = fresh
    BY <1>12 DEF ResetSlot, Resetting
  <2> QED
    BY <1>2, <2>1 DEF ResetEmpty
<1>9. CASE Claim
  BY <1>1, <1>9 DEF Claim, storeVars
<1>10. CASE UNCHANGED driverVars
  BY <1>1, <1>10 DEF driverVars, storeVars
<1> QED
  BY <1>3, <1>4, <1>5, <1>6, <1>7, <1>8, <1>9, <1>10, <1>11, <1>12 DEF Next

\* Every step keeps a mark where there is data, or soon will be.
LEMMA MarkedStep ==
  ASSUME TypeOK, StaleStore, MarkedIsRecorded, [Next]_driverVars
  PROVE  MarkedIsRecorded'
<1> USE DriverAssumption
<1>1. ASSUME NEW enc \in EncoderCounts, FrameDone(enc) PROVE MarkedIsRecorded'
  <2>1. UNCHANGED <<clearing, restarting, erasing>>
    BY <1>1, FrameDoneCases
  <2>2. CASE DropFrame
    BY <2>1, <2>2 DEF DropFrame, MarkedIsRecorded, Vouched
  <2>3. CASE UNCHANGED <<timer, busy, scanMark, fresh, early>> /\ ~busy
    BY <2>1, <2>3 DEF MarkedIsRecorded, Vouched
  <2>4. ASSUME NEW s \in Slots, ~busy, StartStore(s) PROVE MarkedIsRecorded'
    <3>1. busy' /\ storeTo' = s
      BY <2>4 DEF StartStore
    <3>2. \A t \in Slots : t # s => /\ fresh'[t] = fresh[t] /\ scanMark'[t] = scanMark[t]
                                    /\ t \in early' <=> t \in early
      BY <2>4 DEF StartStore, TypeOK
    <3> QED
      BY <2>1, <2>4, <3>1, <3>2 DEF MarkedIsRecorded, Vouched
  <2> QED
    BY <1>1, <2>2, <2>3, <2>4, FrameDoneCases
<1>2. CASE StoreDone
  <2>1. /\ busy /\ UNCHANGED <<restarting, clearing, erasing, early, scanMark>>
        /\ fresh' = [fresh EXCEPT ![storeTo] = current]
    BY <1>2 DEF StoreDone, restartVars
  <2>2. CASE ~current
    BY <2>1, <2>2 DEF StaleStore, MarkedIsRecorded, Vouched
  <2>3. CASE current
    <3>1. \A t \in Slots : fresh'[t] = (fresh[t] \/ t = storeTo)
      BY <2>1, <2>3 DEF TypeOK
    <3> QED
      BY <2>1, <3>1 DEF MarkedIsRecorded, Vouched
  <2> QED
    BY <2>2, <2>3
<1>3. ASSUME NEW source \in Sources, RestartSource(source) PROVE MarkedIsRecorded'
  BY <1>3 DEF RestartSource, MarkedIsRecorded
<1>4. CASE RestartIndices
  <2>1. \A s \in Slots : ~(s < clearing')
    BY <1>4 DEF RestartIndices, Slots
  <2> QED
    BY <2>1 DEF MarkedIsRecorded, Vouched
<1>5. CASE ClearMark
  <2>1. UNCHANGED <<busy, storeTo, fresh, restarting>>
    BY <1>5 DEF ClearMark
  <2>2. \A s \in Slots : Vouched(s)' => Vouched(s)
    BY <1>5, FewerVouched
  <2> QED
    BY <2>1, <2>2 DEF MarkedIsRecorded
<1>6. CASE ResetScanData
  <2>1. \A s \in Slots : ~(s < erasing')
    BY <1>6 DEF ResetScanData, Slots
  <2> QED
    BY <2>1 DEF MarkedIsRecorded, Vouched
<1>10. CASE ResetMark
  <2>1. UNCHANGED <<busy, storeTo, fresh, restarting>>
    BY <1>10 DEF ResetMark
  <2>2. \A s \in Slots : Vouched(s)' => Vouched(s)
    BY <1>10, FewerVouched
  <2> QED
    BY <2>1, <2>2 DEF MarkedIsRecorded
<1>7. CASE UNCHANGED <<busy, storeTo, fresh, scanMark, restarting, clearing, erasing, early>>
  BY <1>7 DEF MarkedIsRecorded, Vouched
<1>11. CASE ResetSlot
  BY <1>7, <1>11 DEF ResetSlot
<1>8. CASE Claim
  BY <1>7, <1>8 DEF Claim, storeVars, restartVars
<1>9. CASE UNCHANGED driverVars
  BY <1>7, <1>9 DEF driverVars, storeVars, restartVars
<1> QED
  BY <1>1, <1>2, <1>3, <1>4, <1>5, <1>6, <1>8, <1>9, <1>10, <1>11 DEF Next

\* What a timer scan leaves between its beginning and config[9]; no assumption on StoreLag.
LEMMA NoHolesStep ==
  ASSUME TypeOK, NoHoles, StoreMarked, [Next]_driverVars
  PROVE  NoHoles' /\ StoreMarked'
<1> USE DriverAssumption
<1>1. ASSUME NEW enc \in EncoderCounts, FrameDone(enc) PROVE NoHoles' /\ StoreMarked'
  <2> DEFINE f == [id |-> frames + 1, enc |-> enc]
  <2>1. /\ UNCHANGED <<scanSource, clearing, restarting, erasing, resetAt, settled>>
        /\ DropFrame \/ OutOfRange(f) \/ StoreAtEncoder(f) \/ StoreAtTimer
    BY <1>1 DEF FrameDone, restartVars
  <2>2. CASE DropFrame
    BY <2>1, <2>2 DEF DropFrame, NoHoles, StoreMarked, Recording
  <2>3. CASE OutOfRange(f)
    BY <2>1, <2>3 DEF OutOfRange, NoHoles, StoreMarked, Recording
  <2>4. CASE StoreAtEncoder(f)
    BY <2>1, <2>4 DEF StoreAtEncoder, NoHoles, StoreMarked, Recording
  <2>5. ASSUME StoreAtTimer, timer > MaxStoreIndex PROVE NoHoles' /\ StoreMarked'
    BY <2>5 DEF StoreAtTimer, NoHoles, StoreMarked, Recording
  <2>6. ASSUME StoreAtTimer, ~(timer > MaxStoreIndex) PROVE NoHoles' /\ StoreMarked'
    <3>1. timer \in Slots /\ TimerSlot = timer
      BY <2>6 DEF TimerSlot, TypeOK, Slots
    <3>2. /\ timer' = timer /\ circled' = circled
          /\ scanMark' = [scanMark EXCEPT ![timer] = TRUE]
      BY <2>6, <3>1 DEF StoreAtTimer, StartStore, TypeOK
    <3>3. scanMark'[timer] /\ \A s \in Slots : scanMark[s] => scanMark'[s]
      BY <3>1, <3>2 DEF TypeOK
    <3> QED
      BY <2>1, <3>1, <3>2, <3>3 DEF NoHoles, StoreMarked, Recording
  <2> QED
    BY <2>1, <2>2, <2>3, <2>4, <2>5, <2>6
<1>2. CASE StoreDone
  <2>1. /\ busy /\ ~busy' /\ timer' = timer + 1
        /\ UNCHANGED <<scanSource, circled, scanMark, clearing, restarting, erasing, resetAt,
                       settled>>
    BY <1>2 DEF StoreDone, restartVars
  <2>2. \A s \in Slots : s < timer + 1 => s < timer \/ s = timer
    BY DEF Slots, TypeOK
  <2>3. StoreMarked'
    BY <2>1 DEF StoreMarked
  <2>4. NoHoles'
    <3> SUFFICES ASSUME Recording, NEW s \in Slots, resetAt <= s, settled <= s, s < timer + 1
                 PROVE  scanMark[s]
      BY <2>1 DEF NoHoles, Recording
    <3>1. CASE s < timer
      BY <3>1 DEF NoHoles
    <3>2. CASE s = timer
      BY <2>1, <3>2 DEF StoreMarked, Slots, TypeOK
    <3> QED
      BY <2>2, <3>1, <3>2
  <2> QED
    BY <2>3, <2>4
<1>3. ASSUME NEW source \in Sources, RestartSource(source) PROVE NoHoles' /\ StoreMarked'
  BY <1>3 DEF RestartSource, NoHoles, StoreMarked, Recording
<1>4. CASE RestartIndices
  BY <1>4 DEF RestartIndices, NextRecorded, NoHoles, StoreMarked, Slots
<1>5. CASE ClearMark
  <2>1. /\ settled' = NextRecorded(timer)
        /\ UNCHANGED <<timer, busy>>
    BY <1>5 DEF ClearMark
  <2>2. \A s \in Slots : settled' <= s => ~(s < timer')
    BY <2>1 DEF NextRecorded, Slots, TypeOK
  <2>3. busy' => timer' < settled'
    BY <2>1 DEF NextRecorded, TypeOK
  <2> QED
    BY <2>2, <2>3 DEF NoHoles, StoreMarked
<1>6. CASE ResetScanData
  <2>1. /\ resetAt' = NextRecorded(timer)
        /\ UNCHANGED <<timer, busy>>
    BY <1>6 DEF ResetScanData
  <2>2. \A s \in Slots : resetAt' <= s => ~(s < timer')
    BY <2>1 DEF NextRecorded, Slots, TypeOK
  <2>3. busy' => timer' < resetAt'
    BY <2>1 DEF NextRecorded, TypeOK
  <2> QED
    BY <2>2, <2>3 DEF NoHoles, StoreMarked
<1>10. CASE ResetMark
  <2>1. /\ resetAt' = NextRecorded(timer)
        /\ UNCHANGED <<timer, busy>>
    BY <1>10 DEF ResetMark
  <2>2. \A s \in Slots : resetAt' <= s => ~(s < timer')
    BY <2>1 DEF NextRecorded, Slots, TypeOK
  <2>3. busy' => timer' < resetAt'
    BY <2>1 DEF NextRecorded, TypeOK
  <2> QED
    BY <2>2, <2>3 DEF NoHoles, StoreMarked
<1>7. CASE UNCHANGED <<busy, timer, circled, scanSource, scanMark, clearing, restarting,
                       erasing, resetAt, settled>>
  BY <1>7 DEF NoHoles, StoreMarked, Recording
<1>11. CASE ResetSlot
  BY <1>7, <1>11 DEF ResetSlot
<1>8. CASE Claim
  BY <1>7, <1>8 DEF Claim, storeVars, restartVars
<1>9. CASE UNCHANGED driverVars
  BY <1>7, <1>9 DEF driverVars, storeVars, restartVars
<1> QED
  BY <1>1, <1>2, <1>3, <1>4, <1>5, <1>6, <1>8, <1>9, <1>10, <1>11 DEF Next

\* A timer scan has no hole below config[9] but those of the last restart or reset, for
\* a store of any size and any StoreLag.
THEOREM Holes == Spec => []NoHoles
<1>1. Init => NoHoles /\ StoreMarked
  BY DEF Init, NoHoles, StoreMarked, Slots
<1>2. TypeOK /\ NoHoles /\ StoreMarked /\ [Next]_driverVars => NoHoles' /\ StoreMarked'
  BY NoHolesStep
<1> QED
  BY <1>1, <1>2, TypeCorrect, PTL DEF Spec

\* The strengthening of the invariants is inductive.
LEMMA DriverInvariant ==
  ASSUME StoreLag <= 1
  PROVE  Spec => []DriverInv
<1>1. Init => DriverInv
  <2> SUFFICES ASSUME Init PROVE DriverInv
    OBVIOUS
  <2>1. ~busy /\ \A s \in Slots : ~fresh[s] /\ ~scanMark[s]
    BY DEF Init
  <2>2. TypeOK
    BY InitTypeOK
  <2> QED
    BY <2>1, <2>2 DEF DriverInv, SourceKept, SourceSafe, SlotsOlder, StoreOnTarget, StaleStore,
                 ResetEmpty, Resetting, Init, TimerChronological, EncoderAtOwnPosition,
                 MarkedIsRecorded, Vouched
<1>2. DriverInv /\ [Next]_driverVars => DriverInv'
  BY TypeStep, SourceKeptStep, SlotsOlderStep, StoreOnTargetStep, StaleStoreStep,
     ResetEmptyStep, ChronologicalStep, OwnPositionStep, MarkedStep DEF DriverInv
<1> QED
  BY <1>1, <1>2, PTL DEF Spec

\* The draw thread, the restarts and the wrap of the store notwithstanding, a
\* recorded slot never holds a mixture of two frames.
THEOREM Whole ==
  ASSUME StoreLag <= 1
  PROVE  Spec => []RecordedWhole
<1>1. DriverInv => RecordedWhole
  BY DEF DriverInv, RecordedWhole, SlotsOlder
<1> QED
  BY <1>1, DriverInvariant, PTL

\* A timer scan is in time order, for a store of any size.
THEOREM Chronological ==
  ASSUME StoreLag <= 1
  PROVE  Spec => []TimerChronological
<1>1. DriverInv => TimerChronological
  BY DEF DriverInv
<1> QED
  BY <1>1, DriverInvariant, PTL

\* An encoder scan puts each frame where its encoder word says, whatever the
\* resolution, the origin and the encoder values.
THEOREM OwnPosition ==
  ASSUME StoreLag <= 1
  PROVE  Spec => []EncoderAtOwnPosition
<1>1. DriverInv => EncoderAtOwnPosition
  BY DEF DriverInv
<1> QED
  BY <1>1, DriverInvariant, PTL

\* A scan mark the restart has reached has its data, with any StoreLag.
THEOREM Marked == Spec => []MarkedIsRecorded
<1>1. Init => StaleStore /\ ResetEmpty /\ MarkedIsRecorded
  BY DEF Init, StaleStore, ResetEmpty, Resetting, MarkedIsRecorded, Vouched
<1>2. TypeOK /\ StaleStore /\ ResetEmpty /\ MarkedIsRecorded /\ [Next]_driverVars
        => StaleStore' /\ ResetEmpty' /\ MarkedIsRecorded'
  BY StaleStoreStep, ResetEmptyStep, MarkedStep
<1> QED
  BY <1>1, <1>2, TypeCorrect, PTL DEF Spec

\* The store channel runs one transfer at a time, with any StoreLag.
THEOREM Exclusive == Spec => StoreChannelExclusive
<1>1. TypeOK /\ [Next]_driverVars =>
        [busy /\ busy' => UNCHANGED <<src, storeTo>>]_driverVars
  <2> SUFFICES ASSUME TypeOK, Next, busy, busy'
               PROVE  UNCHANGED <<src, storeTo>>
    OBVIOUS
  <2>1. ASSUME NEW enc \in EncoderCounts, FrameDone(enc)
        PROVE  UNCHANGED <<src, storeTo>>
    BY <2>1, FrameDoneCases DEF DropFrame
  <2> QED
    BY <2>1 DEF Next, StoreDone, RestartSource, RestartIndices, ClearMark,
                ResetScanData, ResetMark, ResetSlot, Claim, storeVars
<1> QED
  BY <1>1, TypeCorrect, PTL DEF Spec, StoreChannelExclusive
=============================================================================

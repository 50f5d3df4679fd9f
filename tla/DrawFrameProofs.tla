-------------------------- MODULE DrawFrameProofs --------------------------
(***************************************************************************)
(* Proofs about the draw thread and the DMA ring.  At most one frame may   *)
(* end between the thread's read of config[1] and its write of config[2]   *)
(* (Window <= 1); the bounds on frames, toggles and store stay arbitrary.  *)
(***************************************************************************)
EXTENDS DrawFrame, DmaDriverProofs

(***************************************************************************)
(* Type correctness.                                                       *)
(***************************************************************************)

\* The draw thread leaves the driver's variables in their types.
LEMMA DrawDriverTypes ==
  ASSUME FrameTypeOK, DrawThread
  PROVE  TypeOK'
<1>1. /\ UNCHANGED <<counter, ring, frames, storeVars, restartVars>>
      /\ mark' \in {mark, FALSE}
      /\ \/ inUse' = inUse
         \/ inUse' = LatestBuffer(nCounter, inUse)
         \/ inUse' = (nCounter + 3) % 4
  BY DEF DrawThread, BeginRedraw, EndRedraw, TestMark, ClearFrameMark, ReadCounter,
         ClaimLatest, ClaimBuffer, EndDraw, TestFreeze, DrawRecalled,
         ReadCounterFrozen, ClaimFrozen, DriverUnchanged, ringVars
<1>2. inUse' \in Buffers /\ mark' \in BOOLEAN
  BY <1>1, RingArithmetic DEF FrameTypeOK, TypeOK, ReaderTypeOK
<1> QED
  BY <1>1, <1>2, Zenon DEF FrameTypeOK, TypeOK, storeVars, restartVars

\* The draw thread keeps its own variables in theirs.
LEMMA DrawReaderTypes ==
  ASSUME FrameTypeOK, DrawThread
  PROVE  ReaderTypeOK'
<1>1. \A b \in Buffers : ring[b].id \in Nat
  BY DEF FrameTypeOK, TypeOK, Frame
<1>2. /\ 0 \in Buffers /\ 0 \in Nat /\ frames \in Nat /\ counter \in Buffers
      /\ LatestBuffer(nCounter, inUse) \in Buffers
      /\ (nCounter + 3) % 4 \in Buffers
  BY RingArithmetic DEF FrameTypeOK, TypeOK, ReaderTypeOK, Buffers
<1>3. ReaderTypeOK
  BY DEF FrameTypeOK, ReaderTypeOK
<1>4. CASE BeginRedraw
  BY <1>1, <1>2, <1>3, <1>4, Zenon DEF BeginRedraw, uiVars, ReaderTypeOK, DrawStates
<1>5. CASE EndRedraw
  BY <1>3, <1>5, Zenon DEF EndRedraw, uiVars, ReaderTypeOK, DrawStates
<1>6. CASE TestMark
  <2>1. pc' \in DrawStates
    BY <1>6 DEF TestMark, DrawStates
  <2> QED
    BY <1>3, <1>6, <2>1, Zenon DEF TestMark, uiVars, ReaderTypeOK
<1>7. CASE ClearFrameMark
  BY <1>3, <1>7, Zenon DEF ClearFrameMark, uiVars, ReaderTypeOK, DrawStates
<1>8. CASE ReadCounter
  BY <1>2, <1>3, <1>8, Zenon DEF ReadCounter, uiVars, ReaderTypeOK, DrawStates
<1>9. CASE ClaimLatest
  <2>1. want' \in Nat
    BY <1>2, <1>9 DEF ClaimLatest
  <2> QED
    BY <1>1, <1>2, <1>3, <1>9, <2>1, Zenon
       DEF ClaimLatest, ClaimBuffer, uiVars, ReaderTypeOK, DrawStates
<1>10. CASE EndDraw
  BY <1>3, <1>10, Zenon DEF EndDraw, uiVars, ReaderTypeOK, DrawStates
<1>11. CASE TestFreeze
  <2>1. pc' \in DrawStates
    BY <1>11 DEF TestFreeze, DrawStates
  <2> QED
    BY <1>3, <1>11, <2>1, Zenon DEF TestFreeze, uiVars, ReaderTypeOK
<1>12. CASE DrawRecalled
  BY <1>1, <1>2, <1>3, <1>12, Zenon DEF DrawRecalled, uiVars, ReaderTypeOK, DrawStates
<1>13. CASE ReadCounterFrozen
  BY <1>2, <1>3, <1>13, Zenon DEF ReadCounterFrozen, uiVars, ReaderTypeOK, DrawStates
<1>14. CASE ClaimFrozen
  <2>1. want' \in Nat
    BY <1>2, <1>14 DEF ClaimFrozen
  <2> QED
    BY <1>1, <1>2, <1>3, <1>14, <2>1, Zenon
       DEF ClaimFrozen, ClaimBuffer, uiVars, ReaderTypeOK, DrawStates
<1> QED
  BY <1>4, <1>5, <1>6, <1>7, <1>8, <1>9, <1>10, <1>11, <1>12, <1>13, <1>14
     DEF DrawThread

\* So do the user's steps.
LEMMA UserTypes ==
  ASSUME FrameTypeOK,
         \/ \E key \in {"key", "menu"} : ToggleFreeze(key)
         \/ SwitchFpga \/ SwitchRecall \/ RequestRedraw \/ SwitchTransfer
         \/ \E s \in Slots : RecallSelect(s)
  PROVE  FrameTypeOK'
<1>1. TypeOK /\ ReaderTypeOK
  BY DEF FrameTypeOK
<1>0. toggles + 1 \in Nat
  BY <1>1 DEF ReaderTypeOK
<1>2. ASSUME UserUnchanged PROVE TypeOK'
  BY <1>1, <1>2, TypeStep DEF UserUnchanged, driverVars
<1>3. ASSUME NEW key \in {"key", "menu"}, ToggleFreeze(key) PROVE ReaderTypeOK'
  BY <1>0, <1>1, <1>3, Zenon DEF ToggleFreeze, UserUnchanged, drawVars, ReaderTypeOK
<1>4. ASSUME SwitchFpga PROVE ReaderTypeOK'
  <2>1. ui' \in {"idle", "recall"}
    BY <1>4 DEF SwitchFpga
  <2> QED
    BY <1>1, <1>4, <2>1, Zenon DEF SwitchFpga, UserUnchanged, drawVars, ReaderTypeOK
<1>5. ASSUME SwitchRecall PROVE ReaderTypeOK'
  BY <1>1, <1>5, Zenon DEF SwitchRecall, UserUnchanged, drawVars, ReaderTypeOK
<1>6. ASSUME RequestRedraw PROVE ReaderTypeOK'
  BY <1>0, <1>1, <1>6, Zenon DEF RequestRedraw, UserUnchanged, drawVars, ReaderTypeOK
<1>7. ASSUME SwitchTransfer PROVE ReaderTypeOK'
  BY <1>0, <1>1, <1>7, Zenon DEF SwitchTransfer, UserUnchanged, drawVars, ReaderTypeOK
<1>8. ASSUME NEW s \in Slots, RecallSelect(s) PROVE FrameTypeOK'
  <2>1. ReaderTypeOK'
    BY <1>0, <1>1, <1>8, Zenon DEF RecallSelect, drawVars, ReaderTypeOK
  <2>2. ring' \in [Buffers -> Frame]
    BY <1>1, <1>8, NoFrameInFrame DEF TypeOK, RecallSelect
  <2>4. timer' \in Nat
    BY <1>1, <1>8, DriverAssumption DEF TypeOK, RecallSelect, Slots
  <2>3. TypeOK'
    BY <1>1, <1>8, <2>2, <2>4, Zenon DEF RecallSelect, TypeOK, restartVars
  <2> QED
    BY <2>1, <2>3 DEF FrameTypeOK
<1> QED
  <2>1. ASSUME UserUnchanged, ReaderTypeOK' PROVE FrameTypeOK'
    BY <1>2, <2>1 DEF FrameTypeOK
  <2> QED
    BY <1>3, <1>4, <1>5, <1>6, <1>7, <1>8, <2>1
       DEF ToggleFreeze, SwitchFpga, SwitchRecall, RequestRedraw, SwitchTransfer

\* No step of the system leaves the declared types.
LEMMA FrameTypeStep ==
  ASSUME FrameTypeOK, [FrameNext]_frameVars
  PROVE  FrameTypeOK'
<1>1. TypeOK /\ ReaderTypeOK
  BY DEF FrameTypeOK
<1>2. ASSUME NEW enc \in EncoderCounts, FpgaFrame(enc) PROVE FrameTypeOK'
  <2>1. TypeOK'
    BY <1>1, <1>2, TypeStep DEF FpgaFrame, Next
  <2>2. window' \in Nat /\ recalled' \in BOOLEAN
    BY <1>1, <1>2 DEF FpgaFrame, ReaderTypeOK
  <2>3. ReaderTypeOK'
    BY <1>1, <1>2, <2>2, Zenon DEF FpgaFrame, ReaderTypeOK, uiVars
  <2> QED
    BY <2>1, <2>3 DEF FrameTypeOK
<1>3. CASE StoreFrame
  <2>1. TypeOK'
    BY <1>1, <1>3, TypeStep DEF StoreFrame, Next
  <2>2. ReaderTypeOK'
    BY <1>1, <1>3, Zenon DEF StoreFrame, ReaderTypeOK, uiVars, drawVars
  <2> QED
    BY <2>1, <2>2 DEF FrameTypeOK
<1>4. CASE DrawThread
  BY <1>4, DrawDriverTypes, DrawReaderTypes DEF FrameTypeOK
<1>5. CASE UNCHANGED frameVars
  <2>1. TypeOK'
    BY <1>1, <1>5, TypeStep DEF frameVars
  <2>2. ReaderTypeOK'
    BY <1>1, <1>5, Zenon DEF frameVars, ReaderTypeOK, uiVars, drawVars
  <2> QED
    BY <2>1, <2>2 DEF FrameTypeOK
<1> QED
  BY <1>2, <1>3, <1>4, <1>5, UserTypes DEF FrameNext

\* Nor does its initial state.
LEMMA FrameInitTypeOK ==
  ASSUME FrameInit
  PROVE  FrameTypeOK
<1>1. 0 \in Buffers /\ 0 \in Nat
  BY DEF Buffers
<1>2. ReaderTypeOK
  BY <1>1, Zenon DEF FrameInit, ReaderTypeOK, DrawStates
<1> QED
  BY <1>2, InitTypeOK DEF FrameInit, FrameTypeOK

\* Every state of the draw thread and the driver is of the declared types.
THEOREM FrameTypeCorrect == FrameSpec => []FrameTypeOK
<1>1. FrameInit => FrameTypeOK
  BY FrameInitTypeOK
<1>2. FrameTypeOK /\ [FrameNext]_frameVars => FrameTypeOK'
  BY FrameTypeStep
<1> QED
  BY <1>1, <1>2, PTL DEF FrameSpec

(***************************************************************************)
(* The claim.                                                              *)
(***************************************************************************)

\* The steps that touch neither the ring nor what the reader makes of it.
RingUntouched ==
  UNCHANGED <<counter, inUse, ring, frames, nCounter, i, shown, want, window,
              claimed, recalled>>

\* The draw thread's claim, live or frozen: a buffer that is not the target.
LEMMA ClaimCases ==
  ASSUME FrameTypeOK, ReadIsRecent, ClaimLatest \/ ClaimFrozen
  PROVE  /\ inUse' \in Buffers /\ inUse' # counter /\ i' = inUse'
         /\ shown' = ring[inUse'].id
         /\ claimed' /\ pc' \in {"draw", "frozenDraw"}
         /\ UNCHANGED <<counter, ring, frames, recalled>>
<1>1. nCounter \in Buffers /\ inUse \in Buffers /\ window \in Nat
  BY DEF FrameTypeOK, TypeOK, ReaderTypeOK
<1>2. /\ pc \in {"claim", "frozenClaim"}
      /\ inUse' \in {LatestBuffer(nCounter, inUse), (nCounter + 3) % 4}
      /\ i' = inUse' /\ shown' = ring[inUse'].id
      /\ claimed' /\ pc' \in {"draw", "frozenDraw"}
      /\ UNCHANGED <<counter, ring, frames, recalled>>
  BY DEF ClaimLatest, ClaimFrozen, ClaimBuffer
<1>3. counter \in {nCounter, NextTarget(nCounter, inUse)}
  BY <1>1, <1>2 DEF ReadIsRecent
<1>4. \A b \in {LatestBuffer(nCounter, inUse), (nCounter + 3) % 4} :
        b \in Buffers /\ b # nCounter /\ b # NextTarget(nCounter, inUse)
  BY <1>1, RingArithmetic
<1>5. inUse' \in Buffers /\ inUse' # counter
  BY <1>2, <1>3, <1>4
<1> QED
  BY <1>2, <1>5

\* A step of the system, as the ring and its reader see it.
LEMMA FrameNextCases ==
  ASSUME FrameTypeOK, [FrameNext]_frameVars
  PROVE  \/ \E enc \in EncoderCounts : FpgaFrame(enc)
         \/ ReadCounter \/ ReadCounterFrozen
         \/ ClaimLatest \/ ClaimFrozen
         \/ \E s \in Slots : RecallSelect(s)
         \/ RingUntouched /\ pc' = pc
         \/ RingUntouched /\ pc' \notin {"claim", "frozenClaim", "draw", "frozenDraw"}
         \/ /\ BeginRedraw \/ DrawRecalled
            /\ pc' \notin {"claim", "frozenClaim", "draw", "frozenDraw"}
            /\ UNCHANGED <<counter, inUse, ring, frames, claimed, recalled>>
<1>1. CASE StoreFrame
  BY <1>1 DEF StoreFrame, StoreDone, RingUntouched, ringVars, drawVars
<1>2. CASE \/ \E key \in {"key", "menu"} : ToggleFreeze(key)
           \/ SwitchFpga \/ SwitchRecall \/ RequestRedraw \/ SwitchTransfer
  BY <1>2 DEF ToggleFreeze, SwitchFpga, SwitchRecall, RequestRedraw, SwitchTransfer,
              UserUnchanged, RingUntouched, ringVars, drawVars
<1>3. CASE EndRedraw \/ TestMark \/ ClearFrameMark \/ EndDraw \/ TestFreeze
  BY <1>3 DEF EndRedraw, TestMark, ClearFrameMark, EndDraw, TestFreeze, RingUntouched,
              ringVars
<1>4. CASE BeginRedraw \/ DrawRecalled
  BY <1>4 DEF BeginRedraw, DrawRecalled, ringVars
<1>5. CASE UNCHANGED frameVars
  BY <1>5 DEF frameVars, driverVars, ringVars, drawVars, RingUntouched
<1> QED
  BY <1>1, <1>2, <1>3, <1>4, <1>5 DEF FrameNext, DrawThread

\* What the end of a frame does to the ring.
LEMMA FpgaFrameRing ==
  ASSUME FrameTypeOK, NEW enc \in EncoderCounts, FpgaFrame(enc)
  PROVE  /\ counter \in Buffers /\ inUse \in Buffers /\ frames \in Nat
         /\ counter' = NextTarget(counter, inUse) /\ inUse' = inUse
         /\ frames' = frames + 1
         /\ ring'[counter].id = frames + 1
         /\ UNCHANGED <<pc, nCounter, i, shown, want>>
<1>1. /\ ring' = [ring EXCEPT ![counter] = [id |-> frames + 1, enc |-> enc]]
      /\ counter' = NextTarget(counter, inUse) /\ inUse' = inUse
      /\ frames' = frames + 1
  BY DEF FpgaFrame, FrameDone
<1>2. UNCHANGED <<pc, nCounter, i, shown, want>>
  BY DEF FpgaFrame
<1> QED
  BY <1>1, <1>2 DEF FrameTypeOK, TypeOK

\* At most one frame ends between the draw thread's read of config[1] and its
\* claim, so that the target has moved once at most.
LEMMA ReadIsRecentStep ==
  ASSUME Window <= 1, FrameTypeOK, ReadIsRecent, [FrameNext]_frameVars
  PROVE  ReadIsRecent'
<1>1. ASSUME NEW enc \in EncoderCounts, FpgaFrame(enc) PROVE ReadIsRecent'
  <2>1. CASE pc \in {"claim", "frozenClaim"}
    <3>1. window < Window /\ window' = window + 1 /\ window \in Nat
      BY <1>1, <2>1 DEF FpgaFrame, FrameTypeOK, ReaderTypeOK
    <3>2. window = 0 /\ window' = 1 /\ counter = nCounter
      BY <2>1, <3>1, DrawAssumption DEF ReadIsRecent
    <3> QED
      BY <1>1, <3>2, FpgaFrameRing DEF ReadIsRecent
  <2>2. CASE pc \notin {"claim", "frozenClaim"}
    BY <1>1, <2>2, FpgaFrameRing DEF ReadIsRecent
  <2> QED
    BY <2>1, <2>2
<1>2. CASE ReadCounter \/ ReadCounterFrozen
  BY <1>2 DEF ReadCounter, ReadCounterFrozen, ReadIsRecent, ringVars
<1>3. CASE ClaimLatest \/ ClaimFrozen
  BY <1>3 DEF ClaimLatest, ClaimFrozen, ClaimBuffer, ReadIsRecent
<1>4. ASSUME NEW s \in Slots, RecallSelect(s) PROVE ReadIsRecent'
  BY <1>4 DEF RecallSelect, ReadIsRecent, drawVars
<1>5. CASE RingUntouched /\ pc' = pc
  BY <1>5 DEF RingUntouched, ReadIsRecent
<1>6. CASE pc' \notin {"claim", "frozenClaim"}
  BY <1>6 DEF ReadIsRecent
<1> QED
  BY <1>1, <1>2, <1>3, <1>4, <1>5, <1>6, FrameNextCases

\* The driver never leaves its target on the buffer in use, and no claim moves
\* the buffer in use onto the target.
LEMMA TargetNotInUseStep ==
  ASSUME FrameTypeOK, ReadIsRecent, TargetNotInUse, [FrameNext]_frameVars
  PROVE  TargetNotInUse'
<1>1. ASSUME NEW enc \in EncoderCounts, FpgaFrame(enc) PROVE TargetNotInUse'
  BY <1>1, FpgaFrameRing, RingArithmetic DEF TargetNotInUse
<1>2. CASE UNCHANGED <<counter, inUse, frames>>
  BY <1>2 DEF TargetNotInUse
<1>3. CASE ClaimLatest \/ ClaimFrozen
  BY <1>3, ClaimCases DEF TargetNotInUse
<1> QED
  BY <1>1, <1>2, <1>3, FrameNextCases
     DEF ReadCounter, ReadCounterFrozen, RecallSelect, RingUntouched, ringVars

\* The end of a frame leaves it where the draw thread will look for it, whether
\* or not the driver skipped a buffer.
LEMMA NewestWhereLookedStep ==
  ASSUME FrameTypeOK, ReadIsRecent, TargetNotInUse, NewestWhereLooked,
         [FrameNext]_frameVars
  PROVE  NewestWhereLooked'
<1>1. ASSUME NEW enc \in EncoderCounts, FpgaFrame(enc) PROVE NewestWhereLooked'
  <2>1. frames' > 1 => LatestBuffer(counter', inUse') = counter
    BY <1>1, FpgaFrameRing, RingArithmetic DEF TargetNotInUse
  <2> QED
    BY <1>1, <2>1, FpgaFrameRing DEF NewestWhereLooked
<1>2. CASE UNCHANGED <<counter, inUse, ring, frames, claimed, recalled>>
  BY <1>2 DEF NewestWhereLooked
<1>3. CASE ClaimLatest \/ ClaimFrozen
  BY <1>3, ClaimCases DEF NewestWhereLooked
<1>4. ASSUME NEW s \in Slots, RecallSelect(s) PROVE NewestWhereLooked'
  BY <1>4 DEF RecallSelect, NewestWhereLooked
<1> QED
  BY <1>1, <1>2, <1>3, <1>4, FrameNextCases
     DEF ReadCounter, ReadCounterFrozen, RingUntouched, ringVars

\* Every step keeps the claimed buffer out of the driver's way.
LEMMA ClaimedStep ==
  ASSUME FrameTypeOK, ReadIsRecent, ClaimedNotOverwritten, [FrameNext]_frameVars
  PROVE  ClaimedNotOverwritten'
<1>1. ASSUME NEW enc \in EncoderCounts, FpgaFrame(enc) PROVE ClaimedNotOverwritten'
  BY <1>1, FpgaFrameRing, RingArithmetic DEF ClaimedNotOverwritten
<1>2. CASE UNCHANGED <<counter, inUse, i, pc>>
  BY <1>2 DEF ClaimedNotOverwritten
<1>3. CASE ClaimLatest \/ ClaimFrozen
  BY <1>3, ClaimCases DEF ClaimedNotOverwritten
<1>4. CASE pc' \notin {"draw", "frozenDraw"}
  BY <1>4 DEF ClaimedNotOverwritten
<1> QED
  BY <1>1, <1>2, <1>3, <1>4, FrameNextCases
     DEF ReadCounter, ReadCounterFrozen, RecallSelect, drawVars, RingUntouched

\* Every step of the live branch ends on the newest frame.
LEMMA NewestShownStep ==
  ASSUME FrameTypeOK, ReadIsRecent, NewestWhereLooked, NewestShown,
         [FrameNext]_frameVars
  PROVE  NewestShown'
<1>1. CASE UNCHANGED <<pc, shown, want>>
  BY <1>1 DEF NewestShown
<1>2. CASE pc' # "draw"
  BY <1>2 DEF NewestShown
<1>3. CASE ClaimLatest
  <2>1. shown' = ring[LatestBuffer(nCounter, inUse)].id
    BY <1>3 DEF ClaimLatest, ClaimBuffer
  <2>2. want' > 0 => /\ window = 0 /\ ~claimed /\ ~recalled /\ frames > 1
                     /\ want' = frames
    BY <1>3 DEF ClaimLatest
  <2>3. window = 0 => counter = nCounter
    BY <1>3 DEF ReadIsRecent, ClaimLatest
  <2> QED
    BY <2>1, <2>2, <2>3 DEF NewestWhereLooked, NewestShown
<1>4. ASSUME NEW enc \in EncoderCounts, FpgaFrame(enc) PROVE NewestShown'
  BY <1>1, <1>4, FpgaFrameRing
<1> QED
  BY <1>1, <1>2, <1>3, <1>4, FrameNextCases
     DEF ReadCounter, ReadCounterFrozen, ClaimFrozen, ClaimBuffer, RecallSelect, drawVars,
         RingUntouched

\* The strengthening is inductive.
LEMMA ReaderInvariant ==
  ASSUME Window <= 1
  PROVE  FrameSpec => []ReaderInv
<1>1. FrameInit => ReaderInv
  <2> SUFFICES ASSUME FrameInit PROVE ReaderInv
    OBVIOUS
  <2>1. pc = "redraw" /\ frames = 0
    BY DEF FrameInit, Init
  <2>2. FrameTypeOK
    BY FrameInitTypeOK
  <2> QED
    BY <2>1, <2>2 DEF ReaderInv, ReadIsRecent, TargetNotInUse, NewestWhereLooked,
                      ClaimedNotOverwritten, NewestShown
<1>2. ReaderInv /\ [FrameNext]_frameVars => ReaderInv'
  BY FrameTypeStep, ReadIsRecentStep, TargetNotInUseStep, NewestWhereLookedStep,
     ClaimedStep, NewestShownStep DEF ReaderInv
<1> QED
  BY <1>1, <1>2, PTL DEF FrameSpec

\* The FPGA DMA never fills the buffer the draw thread has claimed and is
\* drawing, although the claim is not atomic.
THEOREM ClaimSafe ==
  ASSUME Window <= 1
  PROVE  FrameSpec => []ClaimedNotOverwritten
<1>1. ReaderInv => ClaimedNotOverwritten
  BY DEF ReaderInv
<1> QED
  BY <1>1, ReaderInvariant, PTL

\* The live branch shows the newest frame when no frame ends during the claim.
THEOREM ShowsNewest ==
  ASSUME Window <= 1
  PROVE  FrameSpec => []NewestShown
<1>1. ReaderInv => NewestShown
  BY DEF ReaderInv
<1> QED
  BY <1>1, ReaderInvariant, PTL
=============================================================================

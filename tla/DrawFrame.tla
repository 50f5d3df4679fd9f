------------------------------ MODULE DrawFrame ------------------------------
(***************************************************************************)
(* The draw thread's read side of the DMA ring (threads/threadDrawData.c:  *)
(* signal_scan_thread, RedrawCalc, DrawFrameBuffer, TransferDataToPC)      *)
(* against the driver, at the grain of the words they share: config[0] is  *)
(* cleared, config[1] read and config[2] written in separate steps, and    *)
(* the FPGA's callback may run between any two of them.                    *)
(*                                                                         *)
(* The other actors are the ones that change what the draw thread tests:   *)
(* the start/pause key and menu item, which stop the FPGA and may enter    *)
(* data recalling, the recall position spin button, the requests for a     *)
(* redraw, and the network command that diverts the frames to a PC.        *)
(***************************************************************************)
EXTENDS DmaDriver

CONSTANTS
  Window,     \* FPGA frames that may end between reading config[1] and writing config[2]
  MaxToggles  \* bound on start/pause, redraw and transfer requests

ASSUME DrawAssumption == Window \in Nat /\ MaxToggles \in Nat

VARIABLES
  pc,            \* where the draw thread is
  nCounter,      \* its local _nCounter
  i,             \* the ring buffer it draws or sends
  shown,         \* the frame it found there (history)
  want,          \* the frame it should have found, 0 when that is open (history)
  window,        \* frames ended since it read config[1] (history)
  claimed,       \* config[2] written since the last frame ended (history)
  bRefreshDraw,  \* pp->bRefreshDraw
  transfer,      \* g_bNetTransferData
  freeze,        \* TMP(freeze)
  fpga,          \* the FPGA is sending frames (GPIO_43 high)
  recalling,     \* TMP(dataRecalling)
  recalled,      \* ring buffer 0 holds recalled data (history)
  ui,            \* where the start/pause handler is
  toggles        \* number of user and network requests (bound)

drawVars  == <<pc, nCounter, i, shown, want, window>>
uiVars    == <<freeze, fpga, recalling, ui, toggles>>
frameVars == <<driverVars, drawVars, claimed, bRefreshDraw, transfer, recalled,
               uiVars>>

\* The draw thread's own variables and the words it shares change together in
\* the actions below; nothing else of the driver does.
DriverUnchanged == UNCHANGED <<storeVars, restartVars>>

-----------------------------------------------------------------------------
(***************************************************************************)
(* signal_scan_thread draws once, from buffer 0, before it looks at the    *)
(* ring.                                                                   *)
(***************************************************************************)
FrameInit ==
  /\ Init
  /\ pc = "redraw" /\ nCounter = 0 /\ i = 0
  /\ shown = 0 /\ want = 0 /\ window = 0 /\ claimed = FALSE
  /\ bRefreshDraw = TRUE /\ transfer = FALSE
  /\ freeze = FALSE /\ fpga = TRUE
  /\ recalling = FALSE /\ recalled = FALSE
  /\ ui = "idle" /\ toggles = 0

(***************************************************************************)
(* The kernel's callbacks.                                                 *)
(***************************************************************************)
FpgaFrame(enc) ==
  /\ fpga
  /\ FrameDone(enc)
  /\ pc \in {"claim", "frozenClaim"} => window < Window
  /\ window' = IF pc \in {"claim", "frozenClaim"} THEN window + 1 ELSE 0
  /\ claimed' = FALSE
  /\ recalled' = (recalled /\ counter # 0)
  /\ UNCHANGED <<pc, nCounter, i, shown, want, bRefreshDraw, transfer, uiVars>>

StoreFrame ==
  /\ StoreDone
  /\ UNCHANGED <<drawVars, claimed, bRefreshDraw, transfer, recalled, uiVars>>

(***************************************************************************)
(* RedrawCalc: draws buffer 0 without claiming it.                         *)
(***************************************************************************)
BeginRedraw ==
  /\ pc = "top" /\ ~transfer /\ bRefreshDraw
  /\ pc' = "redraw"
  /\ i' = 0
  /\ shown' = ring[0].id
  /\ want' = 0
  /\ UNCHANGED <<ringVars, nCounter, window, claimed, bRefreshDraw, transfer,
                 recalled, uiVars>>
  /\ DriverUnchanged

EndRedraw ==
  /\ pc = "redraw"
  /\ bRefreshDraw' = FALSE
  /\ pc' = "top"
  /\ UNCHANGED <<ringVars, nCounter, i, shown, want, window, claimed, transfer,
                 recalled, uiVars>>
  /\ DriverUnchanged

(***************************************************************************)
(* The live branch of DrawFrameBuffer, and TransferDataToPC, which differ  *)
(* in what they do with the buffer.                                        *)
(***************************************************************************)
\* Faulty variant: a frozen screen is looked at before the frame mark.
TestMarkThawed ==
  /\ pc = "top" /\ (transfer \/ ~bRefreshDraw)
  /\ pc' = IF freeze THEN "testFreeze" ELSE IF mark THEN "clear" ELSE "top"
  /\ UNCHANGED <<ringVars, nCounter, i, shown, want, window, claimed,
                 bRefreshDraw, transfer, recalled, uiVars>>
  /\ DriverUnchanged

TestMark ==
  /\ pc = "top" /\ (transfer \/ ~bRefreshDraw)
  /\ pc' = IF mark THEN "clear" ELSE IF transfer THEN "top" ELSE "testFreeze"
  /\ UNCHANGED <<ringVars, nCounter, i, shown, want, window, claimed,
                 bRefreshDraw, transfer, recalled, uiVars>>
  /\ DriverUnchanged

ClearFrameMark ==
  /\ pc = "clear"
  /\ mark' = FALSE
  /\ pc' = "read"
  /\ UNCHANGED <<counter, inUse, ring, frames, nCounter, i, shown, want, window,
                 claimed, bRefreshDraw, transfer, recalled, uiVars>>
  /\ DriverUnchanged

\* Faulty variant: the count is used without its mask.
ReadCounterUnmasked ==
  /\ pc = "read"
  /\ nCounter' = frames
  /\ window' = 0
  /\ pc' = "claim"
  /\ UNCHANGED <<ringVars, i, shown, want, claimed, bRefreshDraw, transfer,
                 recalled, uiVars>>
  /\ DriverUnchanged

ReadCounter ==
  /\ pc = "read"
  /\ nCounter' = counter
  /\ window' = 0
  /\ pc' = "claim"
  /\ UNCHANGED <<ringVars, i, shown, want, claimed, bRefreshDraw, transfer,
                 recalled, uiVars>>
  /\ DriverUnchanged

\* Claims buffer b for reading, then draws or sends it in the state next.
ClaimBuffer(b, next) ==
  /\ i' = b
  /\ inUse' = b
  /\ shown' = ring[b].id
  /\ claimed' = TRUE
  /\ pc' = next
  /\ UNCHANGED <<mark, counter, ring, frames, nCounter, window, bRefreshDraw,
                 transfer, recalled, uiVars>>
  /\ DriverUnchanged

ClaimLatest ==
  /\ pc = "claim"
  /\ ClaimBuffer(LatestBuffer(nCounter, inUse), "draw")
  /\ want' = IF window = 0 /\ ~claimed /\ ~recalled /\ frames > 1
             THEN frames ELSE 0

EndDraw ==
  /\ pc \in {"draw", "frozenDraw", "recallDraw"}
  /\ pc' = "top"
  /\ UNCHANGED <<ringVars, nCounter, i, shown, want, window, claimed,
                 bRefreshDraw, transfer, recalled, uiVars>>
  /\ DriverUnchanged

(***************************************************************************)
(* The frozen branch of DrawFrameBuffer.                                   *)
(***************************************************************************)
TestFreeze ==
  /\ pc = "testFreeze"
  /\ pc' = IF freeze THEN "testRecall" ELSE "top"
  /\ UNCHANGED <<ringVars, nCounter, i, shown, want, window, claimed,
                 bRefreshDraw, transfer, recalled, uiVars>>
  /\ DriverUnchanged

\* Recalled data is drawn from buffer 0, which is not claimed.
DrawRecalled ==
  /\ pc = "testRecall" /\ recalling
  /\ i' = 0
  /\ shown' = ring[0].id
  /\ want' = 0
  /\ pc' = "recallDraw"
  /\ UNCHANGED <<ringVars, nCounter, window, claimed, bRefreshDraw, transfer,
                 recalled, uiVars>>
  /\ DriverUnchanged

ReadCounterFrozen ==
  /\ pc = "testRecall" /\ ~recalling
  /\ nCounter' = counter
  /\ window' = 0
  /\ pc' = "frozenClaim"
  /\ UNCHANGED <<ringVars, i, shown, want, claimed, bRefreshDraw, transfer,
                 recalled, uiVars>>
  /\ DriverUnchanged

\* The buffer before the DMA target, whether or not the driver skipped it.
ClaimFrozen ==
  /\ pc = "frozenClaim"
  /\ ClaimBuffer((nCounter + 3) % 4, "frozenDraw")
  /\ want' = IF window = 0 /\ ~fpga /\ ~recalled THEN frames ELSE 0

DrawThread ==
  \/ BeginRedraw \/ EndRedraw
  \/ TestMark \/ ClearFrameMark \/ ReadCounter \/ ClaimLatest \/ EndDraw
  \/ TestFreeze \/ DrawRecalled \/ ReadCounterFrozen \/ ClaimFrozen

-----------------------------------------------------------------------------
(***************************************************************************)
(* The user.  data_731 (start/pause in the scan menu) toggles TMP(freeze)  *)
(* and then the FPGA; StartPause (the key) goes on to enter data recalling *)
(* when it has frozen the screen and to leave it when it has not.          *)
(***************************************************************************)
UserUnchanged ==
  UNCHANGED <<ringVars, drawVars, claimed, storeVars, restartVars>>

ToggleFreeze(key) ==
  /\ ui = "idle" /\ toggles < MaxToggles
  /\ toggles' = toggles + 1
  /\ freeze' = ~freeze
  /\ ui' = key
  /\ UserUnchanged
  /\ UNCHANGED <<bRefreshDraw, transfer, recalled, fpga, recalling>>

SwitchFpga ==
  /\ ui \in {"key", "menu"}
  /\ fpga' = ~freeze
  /\ ui' = IF ui = "key" THEN "recall" ELSE "idle"
  /\ UserUnchanged
  /\ UNCHANGED <<bRefreshDraw, transfer, recalled, freeze, recalling, toggles>>

SwitchRecall ==
  /\ ui = "recall"
  /\ recalling' = freeze
  /\ ui' = "idle"
  /\ UserUnchanged
  /\ UNCHANGED <<bRefreshDraw, transfer, recalled, freeze, fpga, toggles>>

(***************************************************************************)
(* data_3142: copy the store slot s into ring buffer 0; in a timer scan    *)
(* the slot also becomes the timer.  An unmarked slot shows as zeroes.     *)
(***************************************************************************)
RecallSelect(s) ==
  /\ ui = "idle" /\ recalling /\ toggles < MaxToggles
  /\ toggles' = toggles + 1
  /\ ring' = [ring EXCEPT ![0] = IF scanMark[s] THEN store[s] ELSE NoFrame]
  /\ timer' = IF scanSource = 0 THEN s ELSE timer
  /\ recalled' = TRUE
  /\ UNCHANGED <<mark, counter, inUse, frames, scanSource, circled, busy, src,
                 storeTo, lag, torn, current, scanMark, store, fresh, early,
                 restartVars, drawVars, claimed, bRefreshDraw, transfer,
                 freeze, fpga, recalling, ui>>

\* Any handler that changes what is drawn.
RequestRedraw ==
  /\ toggles < MaxToggles
  /\ toggles' = toggles + 1
  /\ bRefreshDraw' = TRUE
  /\ UserUnchanged
  /\ UNCHANGED <<transfer, recalled, freeze, fpga, recalling, ui>>

\* setup_CMD_ENABLE_DATA_TRANSFER
SwitchTransfer ==
  /\ toggles < MaxToggles
  /\ toggles' = toggles + 1
  /\ transfer' = ~transfer
  /\ UserUnchanged
  /\ UNCHANGED <<bRefreshDraw, recalled, freeze, fpga, recalling, ui>>

FrameNext ==
  \/ \E enc \in EncoderCounts : FpgaFrame(enc)
  \/ StoreFrame
  \/ DrawThread
  \/ \E key \in {"key", "menu"} : ToggleFreeze(key)
  \/ SwitchFpga
  \/ SwitchRecall
  \/ \E s \in Slots : RecallSelect(s)
  \/ RequestRedraw
  \/ SwitchTransfer

FrameSpec == FrameInit /\ [][FrameNext]_frameVars

\* The draw thread is a loop that only sleeps and waits for the draw mutex.
FairFrameSpec == FrameSpec /\ WF_frameVars(DrawThread)

-----------------------------------------------------------------------------
DrawStates == {"top", "redraw", "clear", "read", "claim", "draw", "testFreeze",
               "testRecall", "recallDraw", "frozenClaim", "frozenDraw"}

ReaderTypeOK ==
  /\ pc \in DrawStates
  /\ nCounter \in Buffers /\ i \in Buffers
  /\ shown \in Nat /\ want \in Nat /\ window \in Nat
  /\ claimed \in BOOLEAN /\ bRefreshDraw \in BOOLEAN /\ transfer \in BOOLEAN
  /\ freeze \in BOOLEAN /\ fpga \in BOOLEAN
  /\ recalling \in BOOLEAN /\ recalled \in BOOLEAN
  /\ ui \in {"idle", "key", "menu", "recall"}
  /\ toggles \in Nat

FrameTypeOK == TypeOK /\ ReaderTypeOK

(***************************************************************************)
(* While the draw thread reads a buffer it has claimed, the FPGA DMA fills *)
(* another one, although the claim is three separate accesses and the      *)
(* driver advances at any of them.                                         *)
(***************************************************************************)
ClaimedNotOverwritten ==
  pc \in {"draw", "frozenDraw"} => inUse = i /\ counter # i

(***************************************************************************)
(* The live branch draws the newest frame.  The buffer before the target   *)
(* may be the one the driver skipped, and the draw thread has to find out  *)
(* from config[2] alone; this holds for a claim during which no frame      *)
(* ended and that is the first since the last frame.  The very first frame *)
(* is the exception: config[2] = 0 then means "nothing in use".            *)
(***************************************************************************)
NewestShown == pc = "draw" /\ want > 0 => shown = want

(***************************************************************************)
(* Once a frame waits, the draw thread takes it, frozen or not, diverted   *)
(* to the network or not.                                                  *)
(***************************************************************************)
FrameTaken == mark ~> ~mark

(***************************************************************************)
(* threadDrawData.c:369 "show the buffer of the last DMA": with the FPGA   *)
(* stopped, the frozen branch draws the last frame.                        *)
(***************************************************************************)
FrozenShowsLast == pc = "frozenDraw" /\ want > 0 => shown = want

-----------------------------------------------------------------------------
(***************************************************************************)
(* The inductive strengthening of the two invariants, for Window <= 1.     *)
(***************************************************************************)

\* What the draw thread has read of config[1] is at most one frame old when
\* it claims.
ReadIsRecent ==
  pc \in {"claim", "frozenClaim"} =>
    /\ window <= 1
    /\ window = 0 => counter = nCounter
    /\ window = 1 => counter = NextTarget(nCounter, inUse)

\* Once a frame has ended, the DMA target is not the buffer in use, so the
\* driver's next skip can be told from config[2].
TargetNotInUse == frames > 0 => counter # inUse

\* Until the next claim, the newest frame is where the draw thread looks.
NewestWhereLooked ==
  ~claimed /\ ~recalled /\ frames > 1 => ring[LatestBuffer(counter, inUse)].id = frames

ReaderInv ==
  /\ FrameTypeOK
  /\ ReadIsRecent
  /\ TargetNotInUse
  /\ NewestWhereLooked
  /\ ClaimedNotOverwritten
  /\ NewestShown
=============================================================================

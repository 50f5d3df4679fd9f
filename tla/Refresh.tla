------------------------------ MODULE Refresh ------------------------------
(***************************************************************************)
(* The threads of the application and what they share outside the DMA      *)
(* ring: the refresh mailbox (REFRESH_REQUEST and the two statics of       *)
(* RefressFocalLaw), draw_thread_mutex and the GDK lock, TMP(freeze), the  *)
(* pin that lets the FPGA send, the encoder's pause bit, pp->bRefreshDraw  *)
(* and pp->bSaveDataProcessing.                                            *)
(*                                                                         *)
(* The threads are the GTK main thread, whose callbacks hold the GDK lock, *)
(* the refresh thread, the draw thread, the thread that reads the probe    *)
(* connector, and the network server.  The GDK lock is entered and left    *)
(* around steps that take no other lock; only a GTK callback holds it      *)
(* across the steps below.                                                 *)
(***************************************************************************)
EXTENDS Naturals, Sequences

CONSTANTS
  Marks,        \* the refresh marks in play: names of Responses
  NoMark,       \* REFRESH_REQUEST = 0
  MaxRequests,  \* bound on the number of requests
  UserActs,     \* what the user does besides: a subset of UserActions
  NetCommands   \* TRUE: the network server may handle commands

VARIABLES
  request,       \* REFRESH_REQUEST
  mark,          \* REFRESH_MARK
  response,      \* REFRESH_RESPONSE # 0
  rpc,           \* where the refresh thread is
  at,            \* the step of the response it is at
  enable,        \* the argument of the FreezeScreen it is in
  drawMutex,     \* the owner of draw_thread_mutex
  gdkHeld,       \* a GTK callback is running
  freeze,        \* TMP(freeze)
  fpga,          \* GPIO_43 is high: the FPGA sends
  encPaused,     \* the encoder's pause bit (scans driven by an encoder)
  crossed,       \* the last write of TMP(freeze) fell between another's and its pin (history)
  bRefreshDraw,  \* pp->bRefreshDraw
  owed,          \* the redraw last asked for by a response: none, owed or lost (history)
  saving,        \* pp->bSaveDataProcessing
  dpc,           \* where the draw thread is
  booting,       \* the draw thread has not reached its loop
  ui,            \* where the GTK callback is
  uiArg,         \* what it is about to write
  probe,         \* the probe thread is between the two steps of a request
  net,           \* where the network server is
  requests       \* number of requests (bound)

mailVars   == <<request, mark, response, rpc, at, enable>>
scanVars   == <<freeze, fpga, encPaused, crossed>>
drawVars   == <<bRefreshDraw, owed, saving, dpc, booting>>
callerVars == <<ui, uiArg, probe, net, requests>>
vars       == <<mailVars, drawMutex, gdkHeld, scanVars, drawVars, callerVars>>

(***************************************************************************)
(* The responses, by their shared effects in program order.  A step is     *)
(*   gdk     draw under the GDK lock       redraw  bRefreshDraw = TRUE     *)
(*   stop    FPGA pin low                  start   FPGA pin high           *)
(*   thaw, keep, hold  the argument of FreezeScreen: FALSE, TMP(freeze) as *)
(*           it is now, TRUE               freeze  TMP(freeze) = argument  *)
(*   pin     FPGA pin by the argument      encoder the pause bit off       *)
(***************************************************************************)

\* Faulty variant: the icon and the flag change, the pin is forgotten.
FreezeScreenNoPin(arg) == <<arg, "gdk", "freeze">>

FreezeScreen(arg) == <<arg, "gdk", "freeze", "pin">>

\* write_focal_data stops and starts the FPGA around each law it sends.
SendFocal == <<"stop", "start">>

\* The layout changes: sample start and range, points, groups, calibration.
ResponseForSampleStartChanged == <<"gdk", "redraw">> \o FreezeScreen("thaw")

ResponseForGateChange == FreezeScreen("keep")

\* The focal laws of the group are generated again and sent.
ResponseForVelocityChanged ==
  <<"gdk">> \o SendFocal \o <<"redraw">> \o FreezeScreen("thaw")

ResponseForAngleChanged == ResponseForVelocityChanged

ResponseForElmentQtyChanged == ResponseForVelocityChanged

RespnseForFocusDepthChanged ==
  <<"gdk">> \o SendFocal \o <<"redraw">> \o FreezeScreen("keep")

\* A setup file was loaded; for a scan driven by an encoder its pause bit is
\* cleared.
SetupReload == ResponseForVelocityChanged \o <<"encoder">>

ResponseForPrf == <<"gdk", "redraw">> \o FreezeScreen("keep")

ResponseForPartPositionChanged ==
  SendFocal \o <<"gdk", "redraw">> \o FreezeScreen("keep")

\* A recorded scan was loaded: the FPGA stays off.
ResponseForDataLoad ==
  SendFocal \o <<"stop", "gdk", "redraw">> \o FreezeScreen("hold")

ResponseForPorbeLoad ==
  SendFocal \o <<"gdk", "redraw">> \o FreezeScreen("thaw")

ResponseForCurrentLawChanged == <<"gdk">> \o FreezeScreen("keep")

ResponseForFreq == <<"gdk">> \o SendFocal \o FreezeScreen("keep")

\* One mark for each response; REFRESH_RANGE_MARK and others that differ from
\* one of these only in the parameters they recompute are that mark.
Responses == [
  start      |-> ResponseForSampleStartChanged,
  velocity   |-> ResponseForVelocityChanged,
  angle      |-> ResponseForAngleChanged,
  element    |-> ResponseForElmentQtyChanged,
  focalDepth |-> RespnseForFocusDepthChanged,
  gate       |-> ResponseForGateChange,
  setup      |-> SetupReload,
  prf        |-> ResponseForPrf,
  part       |-> ResponseForPartPositionChanged,
  scanData   |-> ResponseForDataLoad,
  probeLoad  |-> ResponseForPorbeLoad,
  currentLaw |-> ResponseForCurrentLawChanged,
  frequency  |-> ResponseForFreq]

\* Refresh_all ends with RefreshPrfMark, under the GDK lock.
Program(m) == Responses[m] \o <<"gdk">>

\* Start or pause the scan, choose the pulser element, change what is drawn,
\* save the recording.
UserActions == {"toggle", "focal", "redraw", "save"}

ASSUME RefreshAssumption ==
  /\ Marks \subseteq DOMAIN Responses
  /\ NoMark \notin Marks
  /\ MaxRequests \in Nat
  /\ UserActs \subseteq UserActions
  /\ NetCommands \in BOOLEAN

-----------------------------------------------------------------------------
(***************************************************************************)
(* After MainInit: the draw thread is about to redraw for the first time.  *)
(***************************************************************************)
Init ==
  /\ request = NoMark /\ mark = NoMark /\ response = FALSE
  /\ rpc = "poll" /\ at = 1 /\ enable = FALSE
  /\ drawMutex = "none" /\ gdkHeld = FALSE
  /\ freeze = FALSE /\ fpga = TRUE /\ encPaused = FALSE /\ crossed = FALSE
  /\ bRefreshDraw = TRUE /\ owed = "none" /\ saving = FALSE
  /\ dpc = "redrawLock" /\ booting = TRUE
  /\ ui = "idle" /\ uiArg = NoMark /\ probe = "idle" /\ net = "idle"
  /\ requests = 0

(***************************************************************************)
(* RefressFocalLaw.  A poll that finds a request takes it, then clears it; *)
(* a poll that finds none responds to the mark taken last.                 *)
(***************************************************************************)
Take ==
  /\ rpc = "poll" /\ request # NoMark
  /\ mark' = request
  /\ response' = TRUE
  /\ rpc' = "clear"
  /\ UNCHANGED <<request, at, enable, drawMutex, gdkHeld, scanVars, drawVars,
                 callerVars>>

ClearRequest ==
  /\ rpc = "clear"
  /\ request' = NoMark
  /\ rpc' = "poll"
  /\ UNCHANGED <<mark, response, at, enable, drawMutex, gdkHeld, scanVars,
                 drawVars, callerVars>>

\* Faulty variant: every poll that finds no request responds.
DecideAlways ==
  /\ rpc = "poll" /\ request = NoMark
  /\ rpc' = "lock"
  /\ UNCHANGED <<request, mark, response, at, enable, drawMutex, gdkHeld,
                 scanVars, drawVars, callerVars>>

Decide ==
  /\ rpc = "poll" /\ request = NoMark /\ response
  /\ rpc' = "lock"
  /\ UNCHANGED <<request, mark, response, at, enable, drawMutex, gdkHeld,
                 scanVars, drawVars, callerVars>>

\* Faulty variant: the response is not struck off.
BeginResponseAgain ==
  /\ rpc = "lock" /\ drawMutex = "none"
  /\ drawMutex' = "refresh"
  /\ rpc' = "run"
  /\ at' = 1
  /\ UNCHANGED <<request, mark, response, enable, gdkHeld, scanVars, drawVars,
                 callerVars>>

BeginResponse ==
  /\ rpc = "lock" /\ drawMutex = "none"
  /\ drawMutex' = "refresh"
  /\ response' = FALSE
  /\ rpc' = "run"
  /\ at' = 1
  /\ UNCHANGED <<request, mark, enable, gdkHeld, scanVars, drawVars,
                 callerVars>>

(***************************************************************************)
(* Refresh_all: one step of the response.                                  *)
(***************************************************************************)
Respond ==
  LET step == Program(mark)[at] IN
    /\ rpc = "run" /\ at <= Len(Program(mark))
    /\ step = "gdk" => ~gdkHeld
    /\ at' = at + 1
    /\ enable' = CASE step = "thaw" -> FALSE
                   [] step = "hold" -> TRUE
                   [] step = "keep" -> freeze
                   [] OTHER -> enable
    /\ freeze' = IF step = "freeze" THEN enable ELSE freeze
    /\ fpga' = CASE step = "stop"  -> FALSE
                 [] step = "start" -> TRUE
                 [] step = "pin"   -> ~enable
                 [] OTHER -> fpga
    /\ encPaused' = (encPaused /\ step # "encoder")
    /\ crossed' = IF step = "freeze" THEN ui \in {"resume", "pause"} ELSE crossed
    /\ bRefreshDraw' = (bRefreshDraw \/ step = "redraw")
    /\ owed' = IF step = "redraw" THEN "owed" ELSE owed
    /\ UNCHANGED <<request, mark, response, rpc, drawMutex, gdkHeld, saving,
                   dpc, booting, callerVars>>

EndResponse ==
  /\ rpc = "run" /\ at > Len(Program(mark))
  /\ drawMutex' = "none"
  /\ rpc' = "poll"
  /\ UNCHANGED <<request, mark, response, at, enable, gdkHeld, scanVars,
                 drawVars, callerVars>>

RefreshThread ==
  Take \/ ClearRequest \/ Decide \/ BeginResponse \/ Respond \/ EndResponse

-----------------------------------------------------------------------------
(***************************************************************************)
(* The draw thread.  UNCHANGED for what it never writes.                   *)
(***************************************************************************)
DrawUnchanged == UNCHANGED <<mailVars, gdkHeld, freeze, encPaused, crossed, callerVars>>

\* The loop of signal_scan_thread and the tests of DrawFrameBuffer.  A frame
\* or a frozen screen may give it something to draw at any time.
ChooseWork ==
  /\ dpc = "top"
  /\ dpc' = IF saving THEN "saveLock"
            ELSE IF bRefreshDraw THEN "redrawLock" ELSE "frameLock"
  /\ UNCHANGED <<drawMutex, fpga, bRefreshDraw, owed, saving, booting>>
  /\ DrawUnchanged

\* Faulty variant: the frame is drawn without the mutex.
LockToDrawFrameless ==
  /\ \/ /\ dpc = "frameLock"
        /\ dpc' = "frame"
        /\ UNCHANGED <<drawMutex, owed>>
     \/ /\ dpc = "redrawLock" /\ drawMutex = "none"
        /\ drawMutex' = "draw"
        /\ dpc' = "redraw"
        /\ owed' = "none"
  /\ UNCHANGED <<fpga, bRefreshDraw, saving, booting>>
  /\ DrawUnchanged

\* Faulty variant: the layout is redrawn without the mutex.
LockToDrawLayoutless ==
  /\ \/ /\ dpc = "frameLock" /\ drawMutex = "none"
        /\ drawMutex' = "draw"
        /\ dpc' = "frame"
        /\ UNCHANGED owed
     \/ /\ dpc = "redrawLock"
        /\ dpc' = "redraw"
        /\ owed' = "none"
        /\ UNCHANGED drawMutex
  /\ UNCHANGED <<fpga, bRefreshDraw, saving, booting>>
  /\ DrawUnchanged

LockToDraw ==
  /\ drawMutex = "none"
  /\ drawMutex' = "draw"
  /\ \/ dpc = "frameLock"  /\ dpc' = "frame"  /\ UNCHANGED owed
     \/ dpc = "redrawLock" /\ dpc' = "redraw" /\ owed' = "none"
  /\ UNCHANGED <<fpga, bRefreshDraw, saving, booting>>
  /\ DrawUnchanged

\* draw_frame_thread shows the field values under the GDK lock.
DrawTheFrame ==
  /\ dpc = "frame" /\ ~gdkHeld
  /\ dpc' = "top"
  /\ drawMutex' = IF drawMutex = "draw" THEN "none" ELSE drawMutex
  /\ UNCHANGED <<fpga, bRefreshDraw, owed, saving, booting>>
  /\ DrawUnchanged

Redraw ==
  /\ dpc = "redraw" /\ ~gdkHeld
  /\ bRefreshDraw' = TRUE
  /\ dpc' = "redrawn"
  /\ UNCHANGED <<drawMutex, fpga, owed, saving, booting>>
  /\ DrawUnchanged

EndRedraw ==
  /\ dpc = "redrawn"
  /\ bRefreshDraw' = FALSE
  /\ drawMutex' = "none"
  /\ dpc' = IF booting THEN "booted" ELSE "top"
  /\ UNCHANGED <<fpga, owed, saving, booting>>
  /\ DrawUnchanged

\* signal_scan_thread clears the flag once more before its loop, without the mutex: a
\* redraw that a response has asked for since is lost.
EnterLoop ==
  /\ dpc = "booted"
  /\ bRefreshDraw' = FALSE
  /\ owed' = IF owed = "owed" THEN "lost" ELSE owed
  /\ booting' = FALSE
  /\ dpc' = "top"
  /\ UNCHANGED <<drawMutex, fpga, saving>>
  /\ DrawUnchanged

(***************************************************************************)
(* SaveDataInThread.                                                       *)
(***************************************************************************)

\* Faulty variant: the mutex is not taken.
LockToSaveNot ==
  /\ dpc = "saveLock"
  /\ dpc' = "saveStop"
  /\ UNCHANGED <<drawMutex, fpga, bRefreshDraw, owed, saving, booting>>
  /\ DrawUnchanged

LockToSave ==
  /\ dpc = "saveLock" /\ drawMutex = "none"
  /\ drawMutex' = "draw"
  /\ dpc' = "saveStop"
  /\ UNCHANGED <<fpga, bRefreshDraw, owed, saving, booting>>
  /\ DrawUnchanged

StopToSave ==
  /\ dpc = "saveStop"
  /\ fpga' = (fpga /\ freeze)
  /\ dpc' = "saveData"
  /\ UNCHANGED <<drawMutex, bRefreshDraw, owed, saving, booting>>
  /\ DrawUnchanged

\* SaveDataAll, then the message under the GDK lock.
SaveData ==
  /\ dpc = "saveData" /\ ~gdkHeld
  /\ dpc' = "saved"
  /\ UNCHANGED <<drawMutex, fpga, bRefreshDraw, owed, saving, booting>>
  /\ DrawUnchanged

EndSave ==
  /\ dpc = "saved"
  /\ saving' = FALSE
  /\ dpc' = "saveStart"
  /\ UNCHANGED <<drawMutex, fpga, bRefreshDraw, owed, booting>>
  /\ DrawUnchanged

StartAfterSave ==
  /\ dpc = "saveStart"
  /\ fpga' = (fpga \/ ~freeze)
  /\ drawMutex' = IF drawMutex = "draw" THEN "none" ELSE drawMutex
  /\ dpc' = "top"
  /\ UNCHANGED <<bRefreshDraw, owed, saving, booting>>
  /\ DrawUnchanged

DrawThread ==
  \/ ChooseWork \/ LockToDraw \/ DrawTheFrame \/ Redraw \/ EndRedraw \/ EnterLoop
  \/ LockToSave \/ StopToSave \/ SaveData \/ EndSave \/ StartAfterSave

-----------------------------------------------------------------------------
(***************************************************************************)
(* The GTK main thread.  request_refresh stops the FPGA and then leaves    *)
(* its mark; data_731 sets TMP(freeze), the pin and the encoder.           *)
(***************************************************************************)
RequestStop(m) ==
  /\ ui = "idle" /\ requests < MaxRequests
  /\ requests' = requests + 1
  /\ gdkHeld' = TRUE
  /\ fpga' = FALSE
  /\ ui' = "request" /\ uiArg' = m
  /\ UNCHANGED <<mailVars, drawMutex, freeze, encPaused, crossed, drawVars, probe, net>>

\* Faulty variant: the callback waits until nothing is being drawn.
RequestPostWaiting ==
  /\ ui = "request"
  /\ drawMutex = "none"
  /\ request' = uiArg
  /\ gdkHeld' = FALSE
  /\ ui' = "idle"
  /\ UNCHANGED <<mark, response, rpc, at, enable, drawMutex, scanVars,
                 drawVars, uiArg, probe, net, requests>>

RequestPost ==
  /\ ui = "request"
  /\ request' = uiArg
  /\ gdkHeld' = FALSE
  /\ ui' = "idle"
  /\ UNCHANGED <<mark, response, rpc, at, enable, drawMutex, scanVars,
                 drawVars, uiArg, probe, net, requests>>

ToggleFreeze ==
  /\ "toggle" \in UserActs /\ ui = "idle"
  /\ gdkHeld' = TRUE
  /\ freeze' = ~freeze
  /\ ui' = IF freeze THEN "resume" ELSE "pause"
  /\ crossed' = (rpc = "run" /\ at <= Len(Program(mark)) /\ Program(mark)[at] = "pin")
  /\ UNCHANGED <<mailVars, drawMutex, fpga, encPaused, drawVars, uiArg, probe,
                 net, requests>>

ToggleFpga ==
  /\ ui \in {"resume", "pause"}
  /\ fpga' = (ui = "resume")
  /\ encPaused' = (ui = "pause")
  /\ gdkHeld' = FALSE
  /\ ui' = "idle"
  /\ UNCHANGED <<mailVars, drawMutex, freeze, crossed, drawVars, uiArg, probe, net,
                 requests>>

\* The callbacks of a conventional group's pulser and receiver send the focal
\* laws themselves and leave no mark.
UserFocalStop ==
  /\ "focal" \in UserActs /\ ui = "idle"
  /\ gdkHeld' = TRUE
  /\ fpga' = FALSE
  /\ ui' = "focal"
  /\ UNCHANGED <<mailVars, drawMutex, freeze, encPaused, crossed, drawVars, uiArg,
                 probe, net, requests>>

UserFocalStart ==
  /\ ui = "focal"
  /\ fpga' = TRUE
  /\ gdkHeld' = FALSE
  /\ ui' = "idle"
  /\ UNCHANGED <<mailVars, drawMutex, freeze, encPaused, crossed, drawVars, uiArg,
                 probe, net, requests>>

\* Any callback that changes what is drawn.
UserRedraw ==
  /\ "redraw" \in UserActs /\ ui = "idle"
  /\ bRefreshDraw' = TRUE
  /\ UNCHANGED <<mailVars, drawMutex, gdkHeld, scanVars, owed, saving, dpc,
                 booting, callerVars>>

\* SaveDataProcess
UserSave ==
  /\ "save" \in UserActs /\ ui = "idle" /\ ~saving
  /\ saving' = TRUE
  /\ UNCHANGED <<mailVars, drawMutex, gdkHeld, scanVars, bRefreshDraw, owed,
                 dpc, booting, callerVars>>

(***************************************************************************)
(* battery_information_read_thread requests a refresh when a probe is      *)
(* plugged in, without the GDK lock.                                       *)
(***************************************************************************)
ProbeStop ==
  /\ probe = "idle" /\ requests < MaxRequests
  /\ "probeLoad" \in Marks
  /\ requests' = requests + 1
  /\ fpga' = FALSE
  /\ probe' = "request"
  /\ UNCHANGED <<mailVars, drawMutex, gdkHeld, freeze, encPaused, crossed, drawVars,
                 ui, uiArg, net>>

ProbePost ==
  /\ probe = "request"
  /\ request' = "probeLoad"
  /\ probe' = "idle"
  /\ UNCHANGED <<mark, response, rpc, at, enable, drawMutex, gdkHeld, scanVars,
                 drawVars, ui, uiArg, net, requests>>

(***************************************************************************)
(* A command of the network server: stop the FPGA, do the work under the   *)
(* GDK lock, start the FPGA.                                               *)
(***************************************************************************)
NetStop ==
  /\ NetCommands /\ net = "idle"
  /\ fpga' = FALSE
  /\ net' = "work"
  /\ UNCHANGED <<mailVars, drawMutex, gdkHeld, freeze, encPaused, crossed, drawVars,
                 ui, uiArg, probe, requests>>

NetWork ==
  /\ net = "work" /\ ~gdkHeld
  /\ net' = "start"
  /\ UNCHANGED <<mailVars, drawMutex, gdkHeld, scanVars, drawVars, ui, uiArg,
                 probe, requests>>

NetStart ==
  /\ net = "start"
  /\ fpga' = TRUE
  /\ net' = "idle"
  /\ UNCHANGED <<mailVars, drawMutex, gdkHeld, freeze, encPaused, crossed, drawVars,
                 ui, uiArg, probe, requests>>

-----------------------------------------------------------------------------
Next ==
  \/ RefreshThread
  \/ DrawThread
  \/ \E m \in Marks : RequestStop(m)
  \/ RequestPost
  \/ ToggleFreeze \/ ToggleFpga
  \/ UserFocalStop \/ UserFocalStart
  \/ UserRedraw
  \/ UserSave
  \/ ProbeStop \/ ProbePost
  \/ NetStop \/ NetWork \/ NetStart

Spec == Init /\ [][Next]_vars

(***************************************************************************)
(* Every thread runs, a callback or a command ends, and a thread that      *)
(* waits for a lock that is released again and again gets it: both threads *)
(* that use draw_thread_mutex sleep after they release it.                 *)
(***************************************************************************)
Fairness ==
  /\ SF_vars(RefreshThread)
  /\ SF_vars(DrawThread)
  /\ WF_vars(RequestPost \/ ToggleFpga \/ UserFocalStart)
  /\ WF_vars(ProbePost)
  /\ SF_vars(NetWork \/ NetStart)

FairSpec == Spec /\ Fairness

-----------------------------------------------------------------------------
MailTypeOK ==
  /\ request \in Marks \cup {NoMark}
  /\ mark \in Marks \cup {NoMark}
  /\ response \in BOOLEAN
  /\ rpc \in {"poll", "clear", "lock", "run"}
  /\ rpc = "run" => mark \in Marks
  /\ at \in Nat \ {0}
  /\ enable \in BOOLEAN

ScanTypeOK == {freeze, fpga, encPaused, crossed} \subseteq BOOLEAN

DrawTypeOK ==
  /\ bRefreshDraw \in BOOLEAN /\ owed \in {"none", "owed", "lost"} /\ saving \in BOOLEAN
  /\ booting \in BOOLEAN
  /\ dpc \in {"top", "frameLock", "frame", "redrawLock", "redraw", "redrawn",
              "booted", "saveLock", "saveStop", "saveData", "saved",
              "saveStart"}

CallerTypeOK ==
  /\ ui \in {"idle", "request", "resume", "pause", "focal"}
  /\ uiArg \in Marks \cup {NoMark}
  /\ probe \in {"idle", "request"}
  /\ net \in {"idle", "work", "start"}
  /\ requests \in Nat

\* The types; a response under way is a response to some mark.
TypeOK ==
  /\ MailTypeOK /\ ScanTypeOK /\ DrawTypeOK /\ CallerTypeOK
  /\ drawMutex \in {"none", "draw", "refresh"}
  /\ gdkHeld \in BOOLEAN

(***************************************************************************)
(* Refresh_all rebuilds the focal laws, the beam counts and the layout     *)
(* that the draw thread reads; no frame is drawn and no file written in    *)
(* the meantime.                                                           *)
(***************************************************************************)
NoDrawingDuringResponse ==
  rpc = "run" => dpc \notin {"frame", "redraw", "redrawn", "saveStop",
                             "saveData", "saved", "saveStart"}

(***************************************************************************)
(* A redraw that a response asks for is not lost once the draw thread is   *)
(* in its loop: the flag stays up until a redraw that starts after it,     *)
(* although RedrawCalc lowers the flag at its end without looking.  One    *)
(* asked for after the first RedrawCalc and before the loop may be lost:   *)
(* there the flag is lowered without the mutex (threadDrawData.c:473).  (A *)
(* callback's redraw, asked for outside the mutex, can always be lost.)    *)
(***************************************************************************)
OwedRedraw == owed = "owed" => bRefreshDraw

(***************************************************************************)
(* While the recording is being written to a file the FPGA adds nothing to *)
(* it, although a response may be due that pulses the pin: a save of a     *)
(* running scan begins with the FPGA stopped, and only what a save does    *)
(* not hold back starts it before the end: a network command, a            *)
(* start/pause, and focal laws sent by a callback.  (A save of a paused    *)
(* scan takes the FPGA as stopped.)                                        *)
(***************************************************************************)
Saving(pc) == pc \in {"saveData", "saved"}

SaveQuiet ==
  [][Saving(dpc') /\ fpga' =>
       IF Saving(dpc) THEN fpga \/ NetStart \/ ToggleFpga \/ UserFocalStart ELSE freeze]_vars

\* The mailbox as its callers see it.
Box ==
  IF rpc = "clear" THEN mark
  ELSE IF request # NoMark THEN request
  ELSE IF response /\ rpc = "poll" THEN mark
  ELSE NoMark

Serving == IF rpc \in {"lock", "run"} THEN mark ELSE NoMark

Service == INSTANCE RefreshService WITH box <- Box, serving <- Serving

(***************************************************************************)
(* The mailbox of three words, cleared while others write to it, keeps the *)
(* promise of RefreshService: a request that lands between the thread's    *)
(* read and clear of REFRESH_REQUEST is lost, but only in favour of the    *)
(* one in hand, and every request is followed by a response.               *)
(***************************************************************************)
MailboxSafety == Service!Safety
MailboxService == Service!Spec

(***************************************************************************)
(* request_refresh stops the FPGA and relies on the response to start it   *)
(* again: whoever stops it, and whatever is lost on the way, the FPGA runs *)
(* again unless the screen is frozen.  Nothing is promised when a          *)
(* start/pause and a response's FreezeScreen have written TMP(freeze) and  *)
(* the pin crosswise (drawui.c:216, 217 outside every lock): the FPGA may  *)
(* then stay stopped under a screen that is not frozen.                    *)
(***************************************************************************)
FpgaResumes == ~fpga ~> fpga \/ freeze \/ crossed

(***************************************************************************)
(* A save ends, whatever the draw mutex and the GDK lock are used for in   *)
(* the meantime: no thread waits for one while the other's holder waits    *)
(* for it.                                                                 *)
(***************************************************************************)
SaveEnds == saving ~> ~saving

Quiet ==
  /\ rpc = "poll" /\ request = NoMark /\ ~response
  /\ ui = "idle" /\ probe = "idle" /\ net = "idle" /\ ~saving /\ dpc = "top"

(***************************************************************************)
(* keyHandler.c:239 "encoder start or pause": when nothing is under way    *)
(* the encoder is paused just when the scan is.                            *)
(***************************************************************************)
EncoderFollowsFreeze == Quiet => encPaused = freeze

(***************************************************************************)
(* keyHandler.c:455, the key "冻结" (freeze): while the screen is frozen the *)
(* FPGA does not send, and otherwise it does.                              *)
(***************************************************************************)
FpgaFollowsFreeze == Quiet => fpga = ~freeze
=============================================================================

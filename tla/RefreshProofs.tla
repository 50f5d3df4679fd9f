--------------------------- MODULE RefreshProofs ---------------------------
(***************************************************************************)
(* Proofs about Refresh: for every set of marks, every bound on the        *)
(* requests and whatever the user and the network may do.                  *)
(***************************************************************************)
EXTENDS Refresh, TLAPS

DrawHolds ==
  {"frame", "redraw", "redrawn", "saveStop", "saveData", "saved", "saveStart"}

\* A thread is inside its critical section just when it owns the mutex.
LockInv ==
  /\ dpc \in DrawHolds <=> drawMutex = "draw"
  /\ rpc = "run" <=> drawMutex = "refresh"

\* The words of the mailbox agree with where its thread is, and a caller that
\* is about to leave a mark has one.
MailInv ==
  /\ response \/ rpc # "poll" => mark \in Marks
  /\ rpc = "clear" => response
  /\ rpc = "run" => ~response
  /\ ui = "request" => uiArg \in Marks
  /\ probe = "request" => "probeLoad" \in Marks

\* Nothing is owed while a redraw is under way.
OwedInv ==
  /\ owed = "owed" => bRefreshDraw
  /\ dpc \in {"redraw", "redrawn"} => owed # "owed"

-----------------------------------------------------------------------------
\* Init establishes the mutex discipline.
LEMMA LockInit == Init => LockInv
BY DEF Init, LockInv, DrawHolds

\* Every step keeps it: a critical section is entered by taking the free
\* mutex and left by giving it back.
LEMMA LockStep == LockInv /\ [Next]_vars => LockInv'
<1> SUFFICES ASSUME LockInv, [Next]_vars PROVE LockInv'
  OBVIOUS
<1> USE DEF LockInv, DrawHolds
<1>1. CASE RefreshThread
  BY <1>1 DEF RefreshThread, Take, ClearRequest, Decide, BeginResponse, Respond,
              EndResponse, drawVars
<1>2. CASE ChooseWork \/ LockToDraw \/ DrawTheFrame \/ Redraw \/ EndRedraw
           \/ EnterLoop
  BY <1>2 DEF ChooseWork, LockToDraw, DrawTheFrame, Redraw, EndRedraw,
              EnterLoop, DrawUnchanged, mailVars
<1>3. CASE LockToSave \/ StopToSave \/ SaveData \/ EndSave \/ StartAfterSave
  BY <1>3 DEF LockToSave, StopToSave, SaveData, EndSave, StartAfterSave,
              DrawUnchanged, mailVars
<1>4. ASSUME NEW m \in Marks, RequestStop(m) PROVE LockInv'
  BY <1>4 DEF RequestStop, mailVars, drawVars
<1>5. CASE RequestPost \/ ToggleFreeze \/ ToggleFpga \/ UserFocalStop
           \/ UserFocalStart \/ UserRedraw \/ UserSave
  BY <1>5 DEF RequestPost, ToggleFreeze, ToggleFpga, UserFocalStop,
              UserFocalStart, UserRedraw, UserSave, mailVars, drawVars
<1>6. CASE ProbeStop \/ ProbePost \/ NetStop \/ NetWork \/ NetStart
  BY <1>6 DEF ProbeStop, ProbePost, NetStop, NetWork, NetStart, mailVars,
              drawVars
<1>7. CASE UNCHANGED vars
  BY <1>7 DEF vars, mailVars, drawVars
<1> QED
  BY <1>1, <1>2, <1>3, <1>4, <1>5, <1>6, <1>7 DEF Next, DrawThread

\* Hence the discipline holds for ever.
THEOREM MutexDiscipline == Spec => []LockInv
BY LockInit, LockStep, PTL DEF Spec

(***************************************************************************)
(* Nothing is drawn and no file written while a response rebuilds what the *)
(* draw thread reads (threadRefresh.c Refresh_all, threadDrawData.c).      *)
(***************************************************************************)
THEOREM DrawingExcluded == Spec => []NoDrawingDuringResponse
<1>1. LockInv => NoDrawingDuringResponse
  BY DEF LockInv, DrawHolds, NoDrawingDuringResponse
<1> QED
  BY <1>1, MutexDiscipline, PTL

-----------------------------------------------------------------------------
\* A save begins by stopping the FPGA of a running scan.
LEMMA SaveBegins ==
  ASSUME [Next]_vars, ~Saving(dpc), Saving(dpc')
  PROVE  fpga' = (fpga /\ freeze)
BY DEF Saving, vars, drawVars, Next, RefreshThread, Take, ClearRequest, Decide, BeginResponse,
       Respond, EndResponse, DrawThread, ChooseWork, LockToDraw, DrawTheFrame, Redraw,
       EndRedraw, EnterLoop, LockToSave, StopToSave, SaveData, EndSave, StartAfterSave,
       RequestStop, RequestPost, ToggleFreeze, ToggleFpga, UserFocalStop, UserFocalStart,
       UserRedraw, UserSave, ProbeStop, ProbePost, NetStop, NetWork, NetStart

\* While it lasts no response is running, and only callers that do not look start the FPGA.
LEMMA SaveLasts ==
  ASSUME LockInv, [Next]_vars, Saving(dpc), Saving(dpc'),
         ~NetStart, ~ToggleFpga, ~UserFocalStart
  PROVE  fpga' \in {fpga, FALSE}
<1>1. rpc # "run"
  BY DEF LockInv, DrawHolds, Saving
<1> QED
  BY <1>1
     DEF Saving, vars, scanVars, Next, RefreshThread, Take, ClearRequest, Decide,
         BeginResponse, Respond, EndResponse, DrawThread, ChooseWork, LockToDraw, DrawTheFrame,
         Redraw, EndRedraw, EnterLoop, LockToSave, StopToSave, SaveData, EndSave,
         StartAfterSave, RequestStop, RequestPost, ToggleFreeze, UserFocalStop, UserRedraw,
         UserSave, ProbeStop, ProbePost, NetStop, NetWork

(***************************************************************************)
(* A save of a running scan begins with the FPGA stopped, and while the    *)
(* recording is being written only a network command, a start/pause or     *)
(* focal laws sent by a callback start it, never a response                *)
(* (SaveDataInThread in threadDrawData.c).                                 *)
(***************************************************************************)
THEOREM QuietSave == Spec => SaveQuiet
<1>1. LockInv /\ [Next]_vars =>
        [Saving(dpc') /\ fpga' =>
           IF Saving(dpc) THEN fpga \/ NetStart \/ ToggleFpga \/ UserFocalStart ELSE freeze]_vars
  BY SaveBegins, SaveLasts, Zenon
<1> QED
  BY <1>1, MutexDiscipline, PTL DEF Spec, SaveQuiet
-----------------------------------------------------------------------------
\* Init owes nothing.
LEMMA OwedInit == Init => OwedInv
BY DEF Init, OwedInv

\* Every step of the refresh thread keeps the debt consistent: it runs a
\* response only while it owns the mutex, so no redraw is under way.
LEMMA OwedRefresh ==
  ASSUME LockInv, OwedInv, RefreshThread PROVE OwedInv'
<1> USE DEF OwedInv
<1>1. CASE Take \/ ClearRequest \/ Decide \/ BeginResponse \/ EndResponse
  BY <1>1 DEF Take, ClearRequest, Decide, BeginResponse, EndResponse, drawVars
<1>2. CASE Respond
  <2>1. dpc \notin {"redraw", "redrawn"}
    BY <1>2 DEF Respond, LockInv, DrawHolds
  <2>2. /\ dpc' = dpc /\ booting' = booting
        /\ bRefreshDraw' = (bRefreshDraw \/ Program(mark)[at] = "redraw")
        /\ owed' = IF Program(mark)[at] = "redraw" THEN "owed" ELSE owed
    BY <1>2, Zenon DEF Respond
  <2> QED
    BY <2>1, <2>2
<1> QED
  BY <1>1, <1>2 DEF RefreshThread

\* Every step of the draw thread keeps it: the flag goes down only at the end
\* of a redraw, which began by settling the debt, or before the loop.
LEMMA OwedDraw ==
  ASSUME OwedInv, DrawThread PROVE OwedInv'
<1> USE DEF OwedInv
<1>1. CASE ChooseWork
  BY <1>1 DEF ChooseWork
<1>2. CASE LockToDraw
  BY <1>2 DEF LockToDraw
<1>3. CASE DrawTheFrame \/ Redraw \/ EndRedraw \/ EnterLoop
  BY <1>3 DEF DrawTheFrame, Redraw, EndRedraw, EnterLoop
<1>4. CASE LockToSave \/ StopToSave \/ SaveData \/ EndSave \/ StartAfterSave
  BY <1>4 DEF LockToSave, StopToSave, SaveData, EndSave, StartAfterSave
<1> QED
  BY <1>1, <1>2, <1>3, <1>4 DEF DrawThread

\* The other threads only raise the flag.
LEMMA OwedOthers ==
  ASSUME OwedInv, Next, ~RefreshThread, ~DrawThread PROVE OwedInv'
<1> USE DEF OwedInv
<1>1. ASSUME NEW m \in Marks, RequestStop(m) PROVE OwedInv'
  BY <1>1 DEF RequestStop, drawVars
<1>2. CASE RequestPost \/ ToggleFreeze \/ ToggleFpga \/ UserFocalStop
           \/ UserFocalStart
  BY <1>2 DEF RequestPost, ToggleFreeze, ToggleFpga, UserFocalStop,
              UserFocalStart, drawVars
<1>3. CASE UserRedraw \/ UserSave
  BY <1>3 DEF UserRedraw, UserSave
<1>4. CASE ProbeStop \/ ProbePost \/ NetStop \/ NetWork \/ NetStart
  BY <1>4 DEF ProbeStop, ProbePost, NetStop, NetWork, NetStart, drawVars
<1> QED
  BY <1>1, <1>2, <1>3, <1>4 DEF Next

(***************************************************************************)
(* No redraw asked for by a response is lost once the draw thread is in    *)
(* its loop, although RedrawCalc lowers the flag at its end without        *)
(* looking (threadDrawData.c:341).                                         *)
(***************************************************************************)
THEOREM RedrawNotLost == Spec => []OwedRedraw
<1>1. LockInv /\ OwedInv /\ [Next]_vars => OwedInv'
  <2> SUFFICES ASSUME LockInv, OwedInv, [Next]_vars PROVE OwedInv'
    OBVIOUS
  <2>1. CASE UNCHANGED vars
    BY <2>1 DEF vars, drawVars, OwedInv
  <2> QED
    BY <2>1, OwedRefresh, OwedDraw, OwedOthers
<1>2. OwedInv => OwedRedraw
  BY DEF OwedInv, OwedRedraw
<1> QED
  BY <1>1, <1>2, OwedInit, MutexDiscipline, PTL DEF Spec
-----------------------------------------------------------------------------
\* Before the first request the mailbox is consistent.
LEMMA MailInit == Init => MailInv
BY DEF Init, MailInv

\* The refresh thread keeps the words of the mailbox consistent.
LEMMA MailRefresh ==
  ASSUME request \in Marks \cup {NoMark}, MailInv, RefreshThread
  PROVE  MailInv'
<1> USE DEF MailInv, callerVars
<1>1. CASE Take
  BY <1>1, Zenon DEF Take
<1>2. CASE ClearRequest
  BY <1>2, Zenon DEF ClearRequest
<1>3. CASE Decide
  BY <1>3, Zenon DEF Decide
<1>4. CASE BeginResponse
  BY <1>4, Zenon DEF BeginResponse
<1>5. CASE Respond
  <2>1. UNCHANGED <<request, mark, response, rpc, callerVars>>
    BY <1>5, Zenon DEF Respond
  <2> QED
    BY <2>1, Zenon
<1>6. CASE EndResponse
  BY <1>6, Zenon DEF EndResponse
<1> QED
  BY <1>1, <1>2, <1>3, <1>4, <1>5, <1>6 DEF RefreshThread
\* So do the draw thread and the callers: a caller that starts a request
\* holds a mark.
LEMMA MailOthers ==
  ASSUME MailInv, Next, ~RefreshThread PROVE MailInv'
<1> USE DEF MailInv, mailVars
<1>1. CASE DrawThread
  <2>1. UNCHANGED <<mailVars, callerVars>>
    BY <1>1 DEF DrawThread, ChooseWork, LockToDraw, DrawTheFrame, Redraw,
                EndRedraw, EnterLoop, LockToSave, StopToSave, SaveData,
                EndSave, StartAfterSave, DrawUnchanged
  <2> QED
    BY <2>1, Zenon DEF callerVars
<1>2. ASSUME NEW m \in Marks, RequestStop(m) PROVE MailInv'
  BY <1>2, Zenon DEF RequestStop
<1>3. CASE RequestPost
  <2>1. ui' # "request"
    BY <1>3 DEF RequestPost
  <2> QED
    BY <1>3, <2>1, Zenon DEF RequestPost
<1>4. CASE ToggleFreeze \/ ToggleFpga \/ UserFocalStop \/ UserFocalStart
  <2>1. ui' # "request" /\ UNCHANGED <<mailVars, probe>>
    BY <1>4 DEF ToggleFreeze, ToggleFpga, UserFocalStop, UserFocalStart
  <2> QED
    BY <2>1, Zenon
<1>5. CASE UserRedraw \/ UserSave \/ NetStop \/ NetWork \/ NetStart
  <2>1. UNCHANGED <<mailVars, ui, uiArg, probe>>
    BY <1>5 DEF UserRedraw, UserSave, NetStop, NetWork, NetStart, callerVars
  <2> QED
    BY <2>1, Zenon
<1>6. CASE ProbeStop
  BY <1>6, Zenon DEF ProbeStop
<1>7. CASE ProbePost
  <2>1. probe' # "request"
    BY <1>7 DEF ProbePost
  <2> QED
    BY <1>7, <2>1, Zenon DEF ProbePost
<1> QED
  BY <1>1, <1>2, <1>3, <1>4, <1>5, <1>6, <1>7, Zenon DEF Next
-----------------------------------------------------------------------------
\* REFRESH_REQUEST holds a mark or nothing.
RequestInv == request \in Marks \cup {NoMark} /\ MailInv

\* The mailbox is consistent for ever.
THEOREM MailboxConsistent == Spec => []RequestInv
<1>1. Init => RequestInv
  BY MailInit DEF Init, RequestInv
<1>2. RequestInv /\ [Next]_vars => RequestInv'
  <2> SUFFICES ASSUME RequestInv, [Next]_vars PROVE RequestInv'
    OBVIOUS
  <2>1. MailInv'
    <3>1. CASE UNCHANGED vars
      BY <3>1, Zenon DEF vars, mailVars, callerVars, MailInv, RequestInv
    <3> QED
      BY <3>1, MailRefresh, MailOthers, Zenon DEF RequestInv
  <2>2. \/ request' \in {request, NoMark}
        \/ ui = "request" /\ request' = uiArg
        \/ probe = "request" /\ request' = "probeLoad"
    BY DEF vars, mailVars, Next, RefreshThread, Take, ClearRequest, Decide,
           BeginResponse, Respond, EndResponse, DrawThread, ChooseWork,
           LockToDraw, DrawTheFrame, Redraw, EndRedraw, EnterLoop, LockToSave,
           StopToSave, SaveData, EndSave, StartAfterSave, DrawUnchanged,
           RequestStop, RequestPost, ToggleFreeze, ToggleFpga, UserFocalStop,
           UserFocalStart, UserRedraw, UserSave, ProbeStop, ProbePost, NetStop,
           NetWork, NetStart
  <2>3. request' \in Marks \cup {NoMark}
    BY <2>2 DEF RequestInv, MailInv
  <2> QED
    BY <2>1, <2>3, Zenon DEF RequestInv
<1> QED
  BY <1>1, <1>2, PTL DEF Spec
-----------------------------------------------------------------------------
\* The steps of the mailbox are steps of RefreshService.
LEMMA ServiceRefresh ==
  ASSUME RequestInv, RefreshThread
  PROVE  [Service!Next]_Service!serviceVars
<1> USE RefreshAssumption DEF RequestInv, MailInv, Box, Serving, callerVars,
        Service!serviceVars
<1>1. CASE Take
  BY <1>1 DEF Take
<1>2. CASE ClearRequest
  BY <1>2 DEF ClearRequest
<1>3. CASE Decide
  <2>1. Service!Serve
    BY <1>3 DEF Decide, Service!Serve
  <2> QED
    BY <2>1 DEF Service!Next
<1>4. CASE BeginResponse
  BY <1>4 DEF BeginResponse
<1>5. CASE Respond
  <2>1. UNCHANGED <<request, mark, response, rpc>>
    BY <1>5, Zenon DEF Respond
  <2> QED
    BY <2>1
<1>6. CASE EndResponse
  <2>1. Service!Finish
    BY <1>6 DEF EndResponse, Service!Finish
  <2> QED
    BY <2>1 DEF Service!Next
<1> QED
  BY <1>1, <1>2, <1>3, <1>4, <1>5, <1>6 DEF RefreshThread

\* A request reaches the box at once, or is forgotten for the one in hand.
LEMMA ServiceRequest ==
  ASSUME RequestInv, NEW m \in Marks, request' = m,
         UNCHANGED <<mark, response, rpc>>
  PROVE  Service!Request(m)
<1>1. rpc = "clear" => mark # NoMark
  BY RefreshAssumption DEF RequestInv, MailInv
<1> QED
  BY <1>1, RefreshAssumption
     DEF Service!Request, Box, Serving, RequestInv, MailInv

(***************************************************************************)
(* The mailbox of three words, read and cleared by one thread while others *)
(* write to it, implements RefreshService.                                 *)
(***************************************************************************)
THEOREM MailboxIsService == Spec => MailboxSafety
<1>1. Init => Service!Init
  BY DEF Init, Service!Init, Box, Serving
<1>2. RequestInv /\ [Next]_vars => [Service!Next]_Service!serviceVars
  <2> SUFFICES ASSUME RequestInv, [Next]_vars
               PROVE  [Service!Next]_Service!serviceVars
    OBVIOUS
  <2>1. CASE RefreshThread
    BY <2>1, ServiceRefresh
  <2>2. CASE RequestPost
    <3>1. uiArg \in Marks /\ request' = uiArg /\ UNCHANGED <<mark, response, rpc>>
      BY <2>2 DEF RequestPost, RequestInv, MailInv
    <3> QED
      BY <3>1, ServiceRequest DEF Service!Next
  <2>3. CASE ProbePost
    <3>1. /\ "probeLoad" \in Marks /\ request' = "probeLoad"
          /\ UNCHANGED <<mark, response, rpc>>
      BY <2>3 DEF ProbePost, RequestInv, MailInv
    <3> QED
      BY <3>1, ServiceRequest DEF Service!Next
  <2>4. CASE ~RefreshThread /\ ~RequestPost /\ ~ProbePost
    <3>1. UNCHANGED <<request, mark, response, rpc>>
      BY <2>4 DEF vars, mailVars, Next, DrawThread, ChooseWork, LockToDraw,
         DrawTheFrame, Redraw, EndRedraw, EnterLoop, LockToSave, StopToSave,
         SaveData, EndSave, StartAfterSave, DrawUnchanged, RequestStop,
         ToggleFreeze, ToggleFpga, UserFocalStop, UserFocalStart, UserRedraw,
         UserSave, ProbeStop, NetStop, NetWork, NetStart
    <3> QED
      BY <3>1 DEF Service!serviceVars, Box, Serving
  <2> QED
    BY <2>1, <2>2, <2>3, <2>4
<1> QED
  BY <1>1, <1>2, MailboxConsistent, PTL DEF Spec, MailboxSafety, Service!Safety
-----------------------------------------------------------------------------
\* The mutex and the GDK lock keep their types in every step.
LEMMA LockTypes ==
  ASSUME TypeOK, Next
  PROVE  drawMutex' \in {"none", "draw", "refresh"} /\ gdkHeld' \in BOOLEAN
<1>1. /\ drawMutex' \in {drawMutex, "none", "draw", "refresh"}
      /\ gdkHeld' \in {gdkHeld, FALSE, TRUE}
  BY DEF Next, RefreshThread, Take, ClearRequest, Decide, BeginResponse,
         Respond, EndResponse, DrawThread, ChooseWork, LockToDraw,
         DrawTheFrame, Redraw, EndRedraw, EnterLoop, LockToSave, StopToSave,
         SaveData, EndSave, StartAfterSave, DrawUnchanged, RequestStop,
         RequestPost, ToggleFreeze, ToggleFpga, UserFocalStop, UserFocalStart,
         UserRedraw, UserSave, ProbeStop, ProbePost, NetStop, NetWork, NetStart
<1> QED
  BY <1>1, Zenon DEF TypeOK

\* The refresh thread keeps the types of the mailbox between responses.
LEMMA MailTypes ==
  ASSUME MailTypeOK, MailInv, RefreshThread, ~Respond PROVE MailTypeOK'
<1> USE DEF MailTypeOK
<1>1. CASE Take
  BY <1>1, Zenon DEF Take
<1>2. CASE ClearRequest
  BY <1>2, Zenon DEF ClearRequest
<1>3. CASE Decide
  BY <1>3, Zenon DEF Decide
<1>4. CASE BeginResponse
  <2>1. at' \in Nat \ {0}
    BY <1>4 DEF BeginResponse
  <2> QED
    BY <1>4, <2>1, Zenon DEF BeginResponse, MailInv
<1>5. CASE EndResponse
  BY <1>5, Zenon DEF EndResponse
<1> QED
  BY <1>1, <1>2, <1>3, <1>4, <1>5 DEF RefreshThread

\* One step of a response keeps every type.
LEMMA RespondTypes ==
  ASSUME TypeOK, Respond
  PROVE  MailTypeOK' /\ ScanTypeOK' /\ DrawTypeOK' /\ CallerTypeOK'
<1>1. at' \in Nat \ {0}
  BY DEF Respond, TypeOK, MailTypeOK
<1>2. /\ enable' \in BOOLEAN /\ freeze' \in BOOLEAN
      /\ fpga' \in BOOLEAN /\ encPaused' \in BOOLEAN
      /\ crossed' \in BOOLEAN
  <2>1. enable' \in {FALSE, TRUE, freeze, enable}
    BY Zenon DEF Respond
  <2>2. freeze' \in {enable, freeze}
    BY Zenon DEF Respond
  <2>3. fpga' \in {FALSE, TRUE, ~enable, fpga}
    BY Zenon DEF Respond
  <2>4. encPaused' \in BOOLEAN
    BY Zenon DEF Respond
  <2>5. crossed' = IF Program(mark)[at] = "freeze" THEN ui \in {"resume", "pause"} ELSE crossed
    BY Zenon DEF Respond
  <2>6. crossed' \in BOOLEAN
    <3> DEFINE toggling == ui \in {"resume", "pause"}
    <3>1. toggling \in BOOLEAN
      OBVIOUS
    <3>2. crossed \in BOOLEAN
      BY DEF TypeOK, ScanTypeOK
    <3>3. crossed' = toggling \/ crossed' = crossed
      BY <2>5
    <3> HIDE DEF toggling
    <3> QED
      BY <3>1, <3>2, <3>3
  <2> QED
    BY <2>1, <2>2, <2>3, <2>4, <2>6, Zenon DEF TypeOK, MailTypeOK, ScanTypeOK
<1>3. bRefreshDraw' \in BOOLEAN /\ owed' \in {"none", "owed", "lost"}
  <2>1. bRefreshDraw' \in BOOLEAN /\ owed' \in {"owed", owed}
    BY Zenon DEF Respond
  <2> QED
    BY <2>1 DEF TypeOK, DrawTypeOK
<1>4. UNCHANGED <<request, mark, response, rpc, saving, dpc, booting, callerVars>>
  BY Zenon DEF Respond
<1>5. MailTypeOK'
  BY <1>1, <1>2, <1>4, Zenon DEF TypeOK, MailTypeOK
<1>6. DrawTypeOK'
  BY <1>3, <1>4, Zenon DEF TypeOK, DrawTypeOK
<1>7. CallerTypeOK'
  BY <1>4, Zenon DEF TypeOK, CallerTypeOK, callerVars
<1> QED
  BY <1>2, <1>5, <1>6, <1>7, Zenon DEF ScanTypeOK

\* The other steps of the refresh thread touch nothing but the mailbox.
LEMMA RefreshTypes ==
  ASSUME TypeOK, MailInv, RefreshThread
  PROVE  MailTypeOK' /\ ScanTypeOK' /\ DrawTypeOK' /\ CallerTypeOK'
<1>1. CASE Respond
  BY <1>1, RespondTypes
<1>2. CASE ~Respond
  <2>1. UNCHANGED <<scanVars, drawVars, callerVars>>
    BY <1>2 DEF RefreshThread, Take, ClearRequest, Decide, BeginResponse,
                EndResponse
  <2>2. /\ ScanTypeOK'
        /\ DrawTypeOK'
        /\ CallerTypeOK'
    <3>1. ScanTypeOK'
      BY <2>1, Zenon DEF TypeOK, ScanTypeOK, scanVars
    <3>2. DrawTypeOK'
      BY <2>1, Zenon DEF TypeOK, DrawTypeOK, drawVars
    <3>3. CallerTypeOK'
      BY <2>1, Zenon DEF TypeOK, CallerTypeOK, callerVars
    <3> QED
      BY <3>1, <3>2, <3>3
  <2>3. MailTypeOK'
    BY <1>2, MailTypes, Zenon DEF TypeOK
  <2> QED
    BY <2>2, <2>3
<1> QED
  BY <1>1, <1>2

\* The draw thread keeps its own types and the pin's.
LEMMA DrawTypes ==
  ASSUME TypeOK, DrawThread
  PROVE  MailTypeOK' /\ ScanTypeOK' /\ DrawTypeOK' /\ CallerTypeOK'
<1>1. UNCHANGED <<mailVars, freeze, encPaused, crossed, callerVars>>
  BY DEF DrawThread, ChooseWork, LockToDraw, DrawTheFrame, Redraw, EndRedraw,
         EnterLoop, LockToSave, StopToSave, SaveData, EndSave, StartAfterSave,
         DrawUnchanged
<1>2. fpga' \in {fpga, fpga /\ freeze, fpga \/ ~freeze}
  BY DEF DrawThread, ChooseWork, LockToDraw, DrawTheFrame, Redraw, EndRedraw,
         EnterLoop, LockToSave, StopToSave, SaveData, EndSave, StartAfterSave
<1>3. /\ bRefreshDraw' \in {bRefreshDraw, FALSE, TRUE}
      /\ owed' \in {owed, "none", "lost"}
      /\ saving' \in {saving, FALSE}
      /\ booting' \in {booting, FALSE}
      /\ dpc' \in {"top", "frameLock", "frame", "redrawLock", "redraw",
                   "redrawn", "booted", "saveLock", "saveStop", "saveData",
                   "saved", "saveStart"}
  BY DEF DrawThread, ChooseWork, LockToDraw, DrawTheFrame, Redraw, EndRedraw,
         EnterLoop, LockToSave, StopToSave, SaveData, EndSave, StartAfterSave
<1>4. MailTypeOK' /\ CallerTypeOK'
  BY <1>1, Zenon DEF TypeOK, MailTypeOK, CallerTypeOK, mailVars, callerVars
<1>5. ScanTypeOK'
  BY <1>1, <1>2, Zenon DEF TypeOK, ScanTypeOK
<1>6. DrawTypeOK'
  BY <1>3, Zenon DEF TypeOK, DrawTypeOK
<1> QED
  BY <1>4, <1>5, <1>6
\* A caller's step keeps the types: it writes Booleans and marks.
LEMMA CallerTypes ==
  ASSUME TypeOK, MailInv, Next, ~RefreshThread, ~DrawThread
  PROVE  MailTypeOK' /\ ScanTypeOK' /\ DrawTypeOK' /\ CallerTypeOK'
<1> USE DEF Next, RequestStop, RequestPost, ToggleFreeze, ToggleFpga,
        UserFocalStop, UserFocalStart, UserRedraw, UserSave, ProbeStop,
        ProbePost, NetStop, NetWork, NetStart
<1>1. UNCHANGED <<mark, response, rpc, at, enable, owed, booting, dpc>>
  BY DEF mailVars, drawVars
<1>2. request' \in Marks \cup {request}
  BY DEF mailVars, MailInv
<1>3. /\ freeze' \in {freeze, ~freeze}
      /\ fpga' \in {fpga, FALSE, TRUE}
  BY DEF scanVars
<1>4. /\ encPaused' \in {encPaused, FALSE, TRUE}
      /\ crossed' \in {crossed, FALSE, TRUE}
  BY DEF scanVars
<1>5. bRefreshDraw' \in {bRefreshDraw, TRUE} /\ saving' \in {saving, TRUE}
  BY DEF drawVars
<1>6. uiArg' \in Marks \cup {uiArg} /\ requests' \in {requests, requests + 1}
  BY DEF callerVars
<1>7. /\ ui' \in {ui, "idle", "request", "resume", "pause", "focal"}
      /\ probe' \in {probe, "idle", "request"}
      /\ net' \in {net, "idle", "work", "start"}
  BY DEF callerVars
<1> HIDE DEF Next
<1>8. MailTypeOK'
  BY <1>1, <1>2, Zenon DEF TypeOK, MailTypeOK
<1>9. ScanTypeOK'
  BY <1>3, <1>4, Zenon DEF TypeOK, ScanTypeOK
<1>10. DrawTypeOK'
  BY <1>1, <1>5, Zenon DEF TypeOK, DrawTypeOK
<1>11. CallerTypeOK'
  <2>1. requests' \in Nat
    BY <1>6 DEF TypeOK, CallerTypeOK
  <2> QED
    BY <1>6, <1>7, <2>1, Zenon DEF TypeOK, CallerTypeOK
<1> QED
  BY <1>8, <1>9, <1>10, <1>11

(***************************************************************************)
(* Type correctness.  A response under way is a response to a mark.        *)
(***************************************************************************)
THEOREM TypeCorrect == Spec => []TypeOK
<1>1. Init => TypeOK
  <2>1. Init => MailTypeOK
    <3>1. 1 \in Nat \ {0} /\ "poll" # "run"
      OBVIOUS
    <3> QED
      BY <3>1, Zenon DEF Init, MailTypeOK
  <2>2. Init => ScanTypeOK
    BY DEF Init, ScanTypeOK
  <2>3. Init => DrawTypeOK
    BY DEF Init, DrawTypeOK
  <2>4. Init => CallerTypeOK
    BY DEF Init, CallerTypeOK
  <2> QED
    BY <2>1, <2>2, <2>3, <2>4 DEF Init, TypeOK
<1>2. TypeOK /\ RequestInv /\ [Next]_vars => TypeOK'
  <2> SUFFICES ASSUME TypeOK, MailInv, [Next]_vars PROVE TypeOK'
    BY DEF RequestInv
  <2>1. CASE UNCHANGED vars
    <3>1. UNCHANGED <<mailVars, scanVars, drawVars, callerVars, drawMutex, gdkHeld>>
      BY <2>1, Zenon DEF vars
    <3>2. MailTypeOK'
      BY <3>1, Zenon DEF TypeOK, MailTypeOK, mailVars
    <3>3. ScanTypeOK'
      BY <3>1, Zenon DEF TypeOK, ScanTypeOK, scanVars
    <3>4. DrawTypeOK'
      BY <3>1, Zenon DEF TypeOK, DrawTypeOK, drawVars
    <3>5. CallerTypeOK'
      BY <3>1, Zenon DEF TypeOK, CallerTypeOK, callerVars
    <3> QED
      BY <3>1, <3>2, <3>3, <3>4, <3>5, Zenon DEF TypeOK
  <2>2. CASE Next
    <3>1. MailTypeOK' /\ ScanTypeOK' /\ DrawTypeOK' /\ CallerTypeOK'
      BY <2>2, RefreshTypes, DrawTypes, CallerTypes
    <3> QED
      BY <2>2, <3>1, LockTypes, Zenon DEF TypeOK
  <2> QED
    BY <2>1, <2>2
<1> QED
  BY <1>1, <1>2, MailboxConsistent, PTL DEF Spec
=============================================================================

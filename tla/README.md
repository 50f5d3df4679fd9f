# Verification of Voice-gtk

Voice-gtk is the application of a portable phased-array ultrasonic flaw
detector: a GTK 2 program for a one-core ARM board, and the kernel module that
moves ultrasonic frames from the FPGA into memory. This directory holds TLA+
models of its concurrent core, the TLC runs that check them, and proofs checked
by TLAPS.

Paths below are relative to the repository.

## 1. The system

Five threads and two interrupt callbacks share a few words of memory.

    FPGA --DMA--> ring of 4 buffers --DMA--> scan store (one slot per position)
      ^                 |                          |
      | GPIO_43         | draw thread              | recall, save
      |                 v                          v
    FreezingFPGA     screen / UDP            ring buffer 0 / file
      ^
      |  callbacks (GTK main thread), refresh thread, probe thread, network server

- `config[0..10]` in the driver is `DMA_MARK[0..10]` in the application, the same
  page mapped on both sides without any lock.
- `draw_thread_mutex` is taken by the draw thread for a frame, a redraw or a save,
  and by the refresh thread for a response. The GDK lock is taken inside it.
- `REFRESH_REQUEST` is a mailbox of one word. `request_refresh` first stops the FPGA and
  then leaves a mark; the refresh thread polls it every 300 ms and rebuilds
  whatever the mark says has changed, ending with the FPGA on or off.

### Inventory

| Component (files) | State it keeps | Operations | What is hard | Correct when |
|---|---|---|---|---|
| DMA driver (`driver/DmaDoppler.c`) | `config[0..10]`, the ring, the store, the scan marks, `dma_transfer`, `bDmaStoreProcessing` | the two DMA completion callbacks | both run between any two instructions of the application; the store DMA reads a ring buffer nothing protects | recorded frames are whole, in time order or at their own position, and marked |
| Draw thread (`src/threads/threadDrawData.c`) | its local `i`, `config[0]`, `config[2]`, `bRefreshDraw`, `bSaveDataProcessing` | redraw, draw a live, frozen or recalled frame, send it to a PC, save | claims a ring buffer by three separate accesses | never reads the buffer being filled, shows the newest frame, takes every frame |
| Refresh thread, mailbox (`src/threads/threadRefresh.c`, `request_refresh`) | `REFRESH_REQUEST`, `REFRESH_MARK`, `REFRESH_RESPONSE` | take a mark, respond to it | the mailbox is cleared while others write to it; sleeps in a mutex | each request ends in a response, the FPGA comes back, no drawing meanwhile |
| Scan start, restart, recall (`src/callback.c`: `RefreshScanInfor`, `reset_scan_data`, `data_3142`) | `config[3..9]`, marks, `TMP(ScanInfor)` | write source and indices, clear marks; copy a slot to buffer 0 | hundreds of writes while the callbacks run | a mark promises data of this scan |
| Start/pause and GTK callbacks (`src/callback.c`, `src/uihandler/`) | `TMP(freeze)`, `TMP(dataRecalling)`, encoder bits, parameters | some 700 handlers that edit a parameter and request a refresh | four writers of one FPGA pin | pin, flag and encoder agree when all is quiet |
| Threads and locks (`src/threads/threads.c`, `src/main.c`) | the locks | probe, battery, key and clock readers | lock order; the power key's save without the GDK lock | no thread waits for another for ever |
| Scan files (`src/lzk/fileHandler.c`, `src/file_op.c`, `src/ui/dialog/fileOpen.c`) | files, the opened scan | save, open, browse, leave | order of a wrapped store, the response that races with the opening, a file cut short | a file is in the order of recording; recalled data is the file's and is forgotten by the next scan |
| Network server (`src/net/`) | the session's socket, the UDP socket and its address, the transfer flag | accept, recv, a command, its answer, UDP blocks | pieces of commands, a PC that leaves at any point, the transfer reopened under the draw thread | a command acts once and is answered, a PC that leaves frees the server, blocks go to the PC that asked |
| Groups (`src/base_config.c`, `src/uihandler/menu/wizard*Handler.c`, `src/ui/menu/wizard*.c`, `src/net/Operation.c`, `src/callback.c`) | the groups, their number, the current one, their focal laws, the wizards' working copy and positions | add, copy, edit, remove, select by two wizards, a menu and the PC | limits tested in some places, positions kept from earlier visits | no group lost, a wizard edits its group, laws follow the groups |
| Configuration (`src/main.c`, `src/lzk/fileHandler.c`) | the configuration in memory with its mark, `default.cfg` | save, open, start | saved in place, also in the middle of an edit; power cuts and a program that may fail at any point | a start finds the last work or the last save |
| FPGA link, focal laws (`src/spi_d.c`, `src/group_spi.c`, `src/focallaw.c`) | SPI images, laws | generate, send | channel selection, fixed-point fields | the selected channels are those of the law |
| Core (`src/core/`) | clock offset, GPIO descriptor | set and read time, set a pin | several threads | time continues from what was set |
| Device and certificate (`src/dev/`) | run count, certificate, validity | load, import, test | the FPGA is off while invalid | on again when valid |
| Drawing, menus, dialogs, calibration, measurement, reports, DXF, strings | GTK widgets, pixels, results | | timers that destroy windows | |

Vendored code (`scripts/resty`, `include/lua5.1`) is left aside.
`PROJECT.json` lists every component with its files and status, and under
"hazards" everything in the code that is hard to test, each at its line.

## 2. Modules

| Module | Lines of code it stands for | Role |
|---|---|---|
| `DmaDriver` (instantiates `ScanLog`) | `driver/DmaDoppler.c`, `RefreshScanInfor`, `reset_scan_data` | the ring, the store and the restart of a scan |
| `ScanLog` | `driver/DmaDoppler.c` as its readers see it | the abstract recording |
| `DmaDriverProofs` | | the driver's theorems |
| `ScanLogProofs` (extends `DmaDriverProofs`) | | that it implements `ScanLog` |
| `MCDmaDriver` | | encoder values for TLC |
| `DrawFrame` (extends `DmaDriver`) | `RedrawCalc`, `DrawFrameBuffer`, `TransferDataToPC`, `StartPause`, `data_731`, `data_3142` | the draw thread as reader of the ring, against the same driver actions |
| `DrawFrameProofs` | | its theorems |
| `RefreshService` | `request_refresh` as its callers see it | the abstract mailbox |
| `Refresh` (instantiates `RefreshService`) | `RefressFocalLaw`, `Refresh_all` and its responses, the draw thread as owner of the mutex, `SaveDataInThread`, callers | all threads, the locks, the FPGA pin |
| `RefreshProofs` | | its theorems |
| `Groups` | `wizardGroupHandler_*`, `wizardFocallawHandler_*`, `MultiGroupAdd`, `MultiGroupDelete`, `da_call_probe`, `data_610` and its neighbours, `SetCurrentGroup`, `NetAddOneGroup`, `NetDeleteOneGroup`, `NetSetFocallawInfo`, `CheckGroupConfigureAvailable` | groups through wizards, menus and PC |
| `MCGroups` | | symmetry of group names |
| `GroupsProofs` | | its theorems |
| `ScanFile` (extends `DmaDriver`) | `saveInspectData`, `ReadDataFileSetup`, `ReadDataFileData`, `openDataFile`, `ResponseForDataLoad`, `StartPause`, `data_731`, `data_732`, `data_3142` | recorded scans as files, against the running driver |
| `ScanFileProofs` (extends `DmaDriverProofs`) | | its theorems |
| `ConfigFile` | `MainInit`, `saveConfigFile`, `readConfigFile`, `ExitApplication`, the writes of each addition and removal of a group | the configuration across failures and power cuts |
| `MCConfigFile` | | what the file holds at first |
| `ConfigFileProofs` | | its theorems |
| `NetSession` | `DopplerPhyscanTcpServer`, `ServerTcp*`, `CommandTransfer`, `setup_CMD_ENABLE_DATA_TRANSFER`, `InitUdpClient`, `UdpSend*`, `TransferDataToPC` | the sessions of PCs and the transfer of frames |
| `NetSessionProofs` | | its theorems |

### DmaDriver

`mark`, `counter`, `inUse`, `scanSource`, `timer` are `config[0]`, `[1] & 3`,
`[2]`, `[3]`, `[9]`; `MaxStoreIndex`, `StepsPerResolution`,
`ScanZeroIndexOffset` are `config[8]`, `[6]`, `[7]`. A frame is its number and its
encoder word. `busy`, `src`, `storeTo` describe the store channel. Each callback
is one action, `FrameDone` (with one disjunct per exit of
`dma_to_store_buffer`) and `StoreDone`: on one core an interrupt is atomic for
the application. The application is not atomic: a restart is `RestartSource`,
`RestartIndices`, and one `ClearMark` per mark, and callbacks run in between.
The variables marked "history" do not exist in the code and no guard reads them except
the bounds: `torn` says that the FPGA DMA entered the buffer the store DMA was
reading, `lag` how many frames ended since it began, `fresh` which slots were
recorded since the last restart, `current` whether the store under way began
after it, and `resetAt` the first slot due when a reset had cleared its marks.

`RefreshScanInfor` keeps its marks while recorded data is shown; `DmaDriver` is
restarted outside data recalling only. `config[6..8]` do not change in a run.

"Reset data" of a scan start (`reset_scan_data`) is in steps too: it clears the first `ResetLimit`
marks one by one (`ResetMark`) and then zeroes the first `ScanStepQty` slots (`ResetSlot`), with the FPGA
running. A frame recorded meanwhile may be zeroed, and then it keeps its mark if that was set after it
was cleared. The code does not avoid that, so the recording counts from the end of the reset: a store that begins during one
is not `current`, and `MarkedIsRecorded` excepts the slots marked during one (`early`). What is
recorded later is whole and marked, which is what the properties then show: a reset leaves no other damage. A store that ends over a slot
just then being zeroed leaves a whole frame here and may leave a torn one in the code; it is one of those that do not count.

`ScanLog` says what the driver promises of a recording: a log of whole frames
(`Record`: a frame appears at once, younger than all others, and within the room of the store) that
gives up a frame only to make room (`MakeRoom`: the oldest in a timer scan, in an encoder scan
any, but two frames are never kept of one position), and is emptied by a restart (`Begin`). `Logged`, the
refinement mapping, is what the slots recorded since the restart hold; that a store takes two
callbacks, between which its slot is empty and frames are dropped, is not to be
seen in it. `config[9]`, the wrap and the ring are no part of the promise either: `RecordsLog` is what
tells recording over the oldest slot from recording over the last one.

### DrawFrame

Adds the draw thread (`pc`, its locals `nCounter` and `i`), and the flags it
tests. Every access to a shared word that another actor may change in between is
a step of its own: `TestMark`, `ClearFrameMark`, `ReadCounter`, `ClaimLatest`. The user's start/pause is three steps, because
`data_731` and then `StartPause` write the flag, the pin and the recalling flag
one after another. `shown`, `want`, `window`, `claimed`, `recalled` are
history: what was drawn, what should have been, whether buffer 0 has been recalled
to, how many frames ended since `config[1]` was read.

### Refresh

Leaves the ring out and has all threads. A response of `Refresh_all` is the sequence of its shared effects, an
element of `Responses` written with the functions it calls (`FreezeScreen`,
`SendFocal`); `Respond` executes one effect at a time, so that the other threads run in between. What a response computes is left out: no
property tells two focal laws apart. `FreezeScreen(TMP(freeze))` reads the flag,
waits for the GDK lock, and writes it back, as in the code. Marks whose responses differ only in what they compute are one mark; `Refresh_all` handles
some thirty, the thirteen of `Responses` cover every response function that is
called. The draw thread is seen as owner of the mutex; what it does with the
ring is `DrawFrame`'s, and so is the network transfer, during which it neither
draws nor takes the mutex. A call of `FreezingFPGA` is one step. The model is of a valid device: the clock
callback, which stops the FPGA of an expired one every second, is left out.

`RefreshService` says what a caller of `request_refresh` may rely on: a one-place box. A
request fills the empty box; on a full one it replaces the waiting mark or is
forgotten; responses are given one at a time; a full box is always emptied. In
`Refresh`, `Box` and `Serving` compute that state from the three words and
`rpc`. The interesting case is a request that lands between the thread's read of
`REFRESH_REQUEST` and its clearing: it is overwritten by the clearing, which the
service sees as a request forgotten in favour of the one in hand.

`owed` (history) is the redraw a response asked for last: owed, begun, or lost. It is lost in one place:
`signal_scan_thread` lowers `bRefreshDraw` after its first redraw without the mutex (`EnterLoop`), and a response
may have raised it since. `crossed` (history) says that the last `FreezeScreen` of a response wrote
`TMP(freeze)` between the two writes of a start/pause, or the other way round.

### Groups

A group is its owner (a name it got when it was added; the wizards' and the PC's
copies carry it), its mode and its number of beams. `group`, `groupQty`,
`groupId` are the configuration, `laws` what the focal laws of each slot were
generated from, and `names` whether `gGroupData` has, in each slot, the names of probe and wedge of the
group there. `groupId` may be any byte: `SetCurrentGroup` looks at its number from above
only (`NetSelectGroup`), and finishing the wizard selects its position, which a refused copy leaves past the groups in use. `stray` (history)
says so, until a group in use is selected.

The group wizard and the focal-law wizard have a step each,
remember positions of the menu from one visit to the next (`lastPopPos`,
`lawPopPos`) and share one working copy (`tmpGroup` with `tmpNames`, of the group at
`wgroup_pos`). A question is a state of its own (`dialog`). Callbacks exclude
each other under the GDK lock and so do the commands of the PC, so each is one
action; but a question or an open wizard lets commands in. The constant
`NetOverlaps` says whether additions and removals of the PC come then: the code does not keep them out, and then
positions and copies are of other groups than meant (a hazard). The run takes it as
FALSE, and every property and theorem but `TypeOK` begins with `~NetOverlaps`: **they are about a PC that adds
and removes groups while no wizard or question is open.** The PC's other commands (`NetSelectGroup`, `NetSetLaw`) come at any time.

Beams are set by the wizards, by the choice of a probe (`ChooseProbe`), in the law menus (`SetLaw`) and by the PC (`NetSetLaw`).
The law menus leave the focal law to a response (`Refreshed`), which computes that of the group that is current
by then. `LimitsRespected` and `LawsFollow` are therefore about steps: an addition respects the limits and no step passes them but the
edits that do not check them all (`UncheckedEdit`); and no step leaves a law behind its group but an
edit in the law menus and a removal from the middle by the PC (`LawLeftBehind`).
Left out: the other parameters of a group, what a probe or wedge is, the opening of a setup file, what slots beyond the groups in use hold,
and accesses to a group that does not exist.

### ScanFile

Extends `DmaDriver` with its actions unchanged: the FPGA and the store channel
run against everything below. A save (`BeginSave`, `EndSave`) reads `config[9]`
first and the store at its end. A file holds data, marks, the number of slots its
header promises and the number it has. Opening is `BeginOpen` (the callback posts
the request) and `ReadFile`; the response to it (`ResponseSends`,
`ResponseStops`, `ResponseRefreshes`, `ResponseFreezes`) may begin in between and takes the
GDK lock only to draw. `StartPause` enters and leaves recalling, `LeaveRecall` is
the new scan it starts when a file was opened. `moved` and `kept` are history. Left out:
claims of the draw thread and commands of the PC, other responses, and what
disturbs a `RefreshScanInfor` under way apart from the driver. A disk that is
nearly full writes nothing. A file that a power cut has cut short is one of
the files there may be at the beginning. A timer scan that has just filled the
store saves one slot more than there is; that slot is left out.

### ConfigFile

The configuration is the current group, the number of groups and the groups,
laid out in this order with the mark behind the last (`base_config.h`). It lies
in memory that outlives the program. Additions and removals are split into the
writes they make (`MoveGroup`, `CountDown`, `FillGroup`, `CountUp`, ...) in the
order of each of their three forms, because the power key's thread saves without the
GDK lock and because the program may fail between any two: by the SIGPIPE of the server thread, which
holds no lock (`Fails`), or by an assertion (`MoveAsserts`, `FillAsserts`). `groupId` may be any byte, as in `Groups`
(`SelectStray`); a group menu may go on with a number of groups that the PC has changed during its question (`BeginAdd`). What
the program does with a current group that does not exist is left out. A save writes
the current group and the number, then each group, into the file as the kernel
has it; what of this the disk has when the power is cut is any mixture, part by
part. Assumed: the power takes the mark with it; a new file is too short to be
read until its last part is written; a part is written whole; one save at a
time, none during an opening. `check_invalid_param`, which replaces zeros, is left out.
`work`, `lastSaved`, `spoilt`, `strange` are history: `strange` says of memory and of the file that their current
group may be none, after one of the ways to that which `CurrentExists` names.

### NetSession

The server thread is a program counter (`pc`): it accepts (`Accept`), receives
(`Receive`, or `ReceiveEnd` and `ReceiveFails`), acts (`DropSession`, `Act`,
`Enable`) and answers, for one connection (`current`) at a time. `recvBuf` is filled
before each recv with a byte that is no command (65; there are 58), and that is
what ends a session whose recv fails, because a failure, -1, passes for success.
The transfer is enabled in the four steps the code takes (`CloseUdp`, `SetUdpAddress`,
`OpenUdp`, `RaiseTransfer`), with the draw thread sending blocks between any
two. No socket of a session is ever closed, so `sockets` only grows and accept
fails in the end. External: the PC and TCP. A PC sends in any order, a
long command (`CMD_SET_SIZINGCURVE`, 33 KB) arrives in two pieces, it may send before it
has the answer, and leave with answers unread (a reset) or without (an end; then the
first answer sent to it is lost and the next one raises SIGPIPE).
What a command does besides enabling the transfer is not in this module, nor that the
number of a closed UDP socket may be given to another file. `orderly` (history) is a PC that
sends known, short commands one at a time, as the protocol means it.

## 3. Runs

| Run | Result | What it shows |
|---|---|---|
| `dma_driver` | holds | Timer and encoder scans of a three-slot store, wraps, dropped frames, positions out of the store and on both sides of zero, claims at any moment, a restart (also to the other source) or reset in the middle: slots recorded since the restart, or the end of the reset, hold one whole frame (`RecordedWhole`), in time order (`TimerChronological`) or at its own position (`EncoderAtOwnPosition`), a mark has its data unless it was set during a reset (`MarkedIsRecorded`), no hole below the timer but slots that were due before the restart or the reset had cleared the marks (`NoHoles`), one transfer at a time (`StoreChannelExclusive`), all of it a bounded log of frames (`RecordsLog`). |
| `draw_frame` | holds | The claimed buffer is never the DMA target (`ClaimedNotOverwritten`), the newest frame is drawn (`NewestShown`), and every waiting frame is taken, frozen or not (`FrameTaken`). |
| `draw_frozen_shows_last` | violated | Finding 1. |
| `refresh` | holds | All threads: nothing is drawn or saved during a response (`NoDrawingDuringResponse`), a redraw that a response asks for is not lost once the draw thread is in its loop (`OwedRedraw`), no response starts the FPGA while a file is written (`SaveQuiet`). No deadlock. |
| `refresh_live` | holds | The mailbox implements `RefreshService` with its fairness (`MailboxService`), a save ends (`SaveEnds`), and with start/pause, focal laws of callbacks, saves and commands in any order the FPGA comes back, unless the screen is frozen or a start/pause and a `FreezeScreen` have crossed (`FpgaResumes`). |
| `refresh_encoder`, `refresh_freeze_race` | violated | Findings 2 and 3. |
| `groups` | holds | With the PC kept out of open wizards and questions: every group added and not removed is there once (`NoGroupLost`); a wizard writes back the group it was opened for, with its names (`WizardEditsItsGroup`); the current group exists, but for a stray selection (`CurrentGroupExists`); limits and laws are left by the steps named above only (`LimitsRespected`, `LawsFollow`). |
| `groups_asserts` | violated | Finding 4. |
| `scan_file` | holds | Saved scans are in the order of recording, wrapped or not, while the store DMA goes on (`SavedInOrder`); the store shows the opened file until recalling ends, but for slots the acquisition has recorded in (`RecallShowsFile`); afterwards no mark vouches for it (`FileMarksGone`). |
| `config_file` | holds | A start finds the last work or the last save, unless the end came in the middle of an addition, a removal or a later save (`StartsWhole`), and the current group exists, but for the four ways it names (`CurrentExists`): after failures at any point, power cuts in saves, and saves by the power key in the middle of an edit. |
| `net_session` | holds | However a PC sends and leaves, no command acts twice or late (`ActsOnce`); an orderly one is answered (`Answered`) and cannot end the program (`OrderlyPCsHarmless`); a PC that leaves frees the server (`ServerFreed`); blocks go to the PC that enabled the transfer (`BlocksToEnabler`). |

Every property of a passing run has a mutant: an operator beside the definition,
commented "Faulty variant", that the definition becomes when a plausible mistake
is made in that code, and with which the property fails under the same cfg.

### Bounds

- `dma_driver`: three slots and 5 frames go round the store before or after a
  restart; encoder values -1, 2 and 4 with resolution 2 and origin 1 are below the
  store, in it and beyond, with a rounded negative quotient. `MaxRestarts` 1: each
  restart starts again from the same kind of state.
- `ClearLimit` 2 with three slots has a slot the restart never reaches, as the
  code has from 10000 on. `ResetLimit` 3 clears every mark and `ScanStepQty` 1 zeroes one slot and keeps two.
- `StoreLag` 1: at most one frame ends while a store DMA runs. Nothing in the
  code says so; it holds because both move the same number of bytes over the
  same bus and the FPGA waits out a period in between. It is a named assumption of
  `Whole`, `Chronological`, `OwnPosition`, `DriverIsLog` and `SavedFilesInOrder`.
- `Window` 1: at most one frame ends between the draw thread's read of
  `config[1]` and its write of `config[2]`, three statements later. With 2, a
  draw thread preempted there for two frame periods claims the buffer that is
  being filled: `ClaimedNotOverwritten` fails, so the bound is a real assumption.
- `DrawFrame`: 6 frames are more than the ring has; `MaxToggles` 2 allows a
  freeze and a thaw, or a freeze and a recall. The store has one slot, which the
  draw thread does not read.
- `Refresh`: two requests are enough for one to overtake the other in the
  mailbox and for a third caller's stop to fall in between; `Marks` takes one
  mark for each ending a response has (thaw, keep, hold) plus those with an
  effect of their own (`setup`: encoder, `probeLoad`: requested without
  the GDK lock). User actions and network commands are not bounded. `refresh_live`
  has two marks: one whose response keeps `TMP(freeze)`, and one that is requested without the GDK lock and whose response
  thaws. A response that holds leaves the screen frozen, where `FpgaResumes` promises nothing.
- `groups`: three slots, so a group is removed from the middle and all are in use;
  beams 1 and 2, limits `GroupBeams` 2 and `TotalBeams` 4, so that three groups of two
  beams pass the total; names are four, one more than the slots. Nothing else is bounded (721,800 states).
- `scan_file`: four slots (`MaxStoreIndex` 3) and 5 frames, so that a timer scan
  wraps and three slots remain whose order can be told; `ClearLimit` 2 below the
  store's size, as 10000 is; three of the counted acts are a save, an opening and
  a key that ends recalling; one restart. `StoreLag` is 0: what a store DMA
  outlasted by a frame does is asked in `dma_driver`.
- `config_file`: three groups, so that a removal shifts two or none and that all
  may be in use; two settings; two edits, of which one may stand in the file and one be cut
  short; two starts, the last of which has no end. The file at the beginning is none or one of one, two or three groups
  with the last one current, every second one set: each edit can change what it has and what it has not.
- `net_session`: two connections, of which the second waits for the first or comes
  after it; two commands between them, enough for a second that overtakes an answer; two sockets, after
  which accept fails for good; frames of two blocks, so that the server's steps fall into
  one.
- Deadlock is checked except in the runs of the driver, the draw thread, the files,
  the configuration and the network, which stop when their bounds are used up (and the
  network's when SIGPIPE ends the program), and of the groups, where an assertion ends it.

### Fairness

- `FairFrameSpec`: weak fairness of the draw thread as a whole. It is a loop
  that sleeps 1 ms and waits only for a mutex that is always released
  (`SaveEnds`). A redraw request cannot starve frames, their number being
  bounded; in the code, requests would have to come at every turn of the loop.
- `Refresh`, strong fairness of the refresh and draw threads: each waits for
  `draw_thread_mutex`, which the other takes and releases again and again. Both sleep after
  releasing it (1 ms, 300 ms), while the waiter is runnable. Weak fairness
  would let the draw thread retake the mutex every time, which its sleep prevents.
- Weak fairness of the second half of a callback or of the probe thread's
  request, which wait for nothing; strong fairness of the second half of a network
  command, which waits for the GDK lock.
- Weak fairness of the server thread (`NetSession`): it waits for nothing but the PC.
- No caller, no user and no PC is fair in beginning anything; a PC need not read its answers.
- `MailboxService`, `FpgaResumes` need finitely many requests (`MaxRequests`):
  a response is given only in a poll that finds no new request, so requests
  less than 300 ms apart postpone it for as long as they last. That is a
  hazard of the code, listed as such.

## 4. Proofs

Everything below holds for every value of the constants that satisfies
`DriverAssumption`, `DrawAssumption`, `RefreshAssumption`, `GroupsAssumption`,
`FileAssumption`, `ConfigAssumption`, `NetAssumption`.

**`DmaDriverProofs`.** `TypeCorrect`, `Exclusive`, `Marked` (from
`StaleStore`) and `Holes` (from `StoreMarked`) need nothing else. While a reset is under way nothing counts as recorded
(`ResetEmpty`), which is what keeps its zeroing away from all properties. With
`StoreLag <= 1`: `Whole`, `Chronological`, `OwnPosition`, from the
inductive invariant `DriverInv`. Its core is `SourceKept`: while a store DMA
reads buffer `src`, the FPGA DMA is elsewhere. To keep that across claims of the
draw thread, which make the driver skip a buffer, it says where the target may
be as long as no frame has ended since (`Ahead`): one buffer on, or two on and then the next
skip cannot land on `src`. The lemma `AheadArithmetic` is that fact.
`SlotsOlder` (the frame on its way is younger than all recorded),
`StoreOnTarget` (a store begun since the restart goes to the slot due) and
`StaleStore` (one begun before it meets an empty recording) carry the order, the position
and the marks. `TypeOK` says too little for any of them. One lemma per
conjunct goes through the actions. `SourceSafe` is the half of `SourceKept` about places; what the
buffer holds is the other half, which does not survive recalling, where `ScanFileProofs` needs the first.

**`ScanLogProofs`.** `DriverIsLog`, with `StoreLag <= 1`: initial states of the driver map to
initial states of `ScanLog`, and every step to a step of it or a stutter. A store that begins in a recorded slot is
`MakeRoom`: the slot due is the oldest, by `TimerChronological`, and no other slot holds the same
frame (`LoggedApart`), so the log loses just that one. A store that ends is `Record`, by
`SlotsOlder` and `StoreOnTarget`, or nothing when a restart came in between, by `StaleStore`.
There is room because the slot being recorded holds none of the log (`LogHasRoom`).

**`DrawFrameProofs`.** `FrameTypeCorrect`; with `Window <= 1`, `ClaimSafe` and
`ShowsNewest` from `ReaderInv`. What the draw thread read is at most one frame
old and then the counter is the successor of what it read (`ReadIsRecent`). Once
a frame has ended the target is not the buffer in use (`TargetNotInUse`), which
is why the skipped buffer can be told from `config[2]`, and the newest frame is
where that inference looks (`NewestWhereLooked`). `Window <= 1` is necessary, as
section 3 says.

**`RefreshProofs`.**
- `MutexDiscipline`: a thread is in its critical section just when it owns
  `draw_thread_mutex` (`LockInv`); `DrawingExcluded` follows.
- `RedrawNotLost`: `OwedInv`, relative to `LockInv`, adds that nothing is owed
  while a redraw is under way, because a response cannot run then; so lowering
  the flag at the end of the redraw loses nothing. What is lost when the draw thread enters its loop is
  counted as lost, not as owed.
- `MailboxConsistent`: the three words agree with where the thread is.
- `MailboxIsService`: initial states of `Refresh` map to initial states of
  `RefreshService`, and every step maps to a step of it or a stutter, with
  `Box` and `Serving` as the refinement mapping.
- `QuietSave`: a save begins by stopping the FPGA of a running scan; while it lasts the draw thread
  owns the mutex (`LockInv`), so no response runs. What a save does not hold back (start/pause, focal laws of a callback, a
  network command) is excepted by name.
- `TypeCorrect`.

**`GroupsProofs`.** `TypeCorrect` needs nothing else; `GroupsKept`, `WorkingCopy`, `CurrentGroup`
come from `GroupsInv`, which holds when `NetOverlaps` is FALSE, as the properties say. What has to be added to them is that only one
wizard or question is open at a time (`OneAtATime`) and that positions are within the
groups there are when they are used (`Positions`); an owner is new when it is given
(`Fresh`), which makes `NoGroupLost` inductive. `Limits` and `Laws` are about single steps from states of that
invariant: one lemma per kind of step. An addition and an edited law are checked as a whole, so for `Limits` only removals are
left to argue about. The sum of beams over the groups is the number of pairs of a group and one of its beams
(`AllBeams`): a fold over the groups would need induction, whereas of two sets of pairs the one that
maps into the other one to one is the smaller (`NoMoreBeams`); a removal maps each group left to
the one it was. For `Laws` the owners tell where each group was before the step. `GroupBeams` and `TotalBeams` are assumed to
be at least 1, which the first, blank group needs.

**`ScanFileProofs`.** `FileTypeCorrect`, `RecalledIsFile` and `NoFileMarks` from `FileInv`,
for any `StoreLag`. A file may promise one slot more than the store has, because
`config[9]` of a running timer scan is within the store or one past it (`TimerFits`). What is recalled
stays the file's because recalling keeps restarts away and the store DMA
out of the slots kept (`RecallKeeps`). The driver's `StaleStore` and `MarkedIsRecorded` fail while
a file is in the store, so they are asked for outside its recalling only (`ScanInv`). Most steps are
the driver's and take its lemmas.

`SavedFilesInOrder` (`SavedInOrder`), with `StoreLag <= 1`, from `OrderInv`. The driver's
`TimerChronological` is no invariant here: the erase key and the response to a file set `config[9]` to 0 and leave
what is recorded, browsing moves it, and the response overwrites ring buffer 0. What survives is weaker:
`RecordedInOrder` asks for the order only while nobody has moved `config[9]` and no response is about
to restart (`Undisturbed`), and before the wrap only of slots below `config[9]`. A frame that
ends keeps it because it is younger than whatever the ring, the store and the file hold
(`FramesEnded`), the frame being stored because it is the youngest and in the slot due, unless
`config[9]` was reset meanwhile (`StoreIsNewest`), and one from before a restart because nothing
has been recorded since (`NothingYet`). While a save writes, the FPGA is stopped and nothing but the end of
the store under way can change the driver's words (`SaveStill`, `DuringSave`; it needs that the FPGA
rests while the screen is frozen, `Rests`), so `config[9]` is the one the save has read or one more; with
either, the slots in the order of the file go round the store once (`SlotsInOrder`).

**`ConfigFileProofs`.**
- `TypeCorrect`: with `TypeOK`, that an edit in progress fits the number of groups it
  has read (`EditFits`; without it a removal could count below one), and that without power
  nothing is under way and a save ends with its program (`EndsFit`).
- `CurrentGroup` from `CurrentInv`: unless `strange`, `groupId` is below the number of groups that stay in
  use whatever becomes of the edit (`Sure`), in memory, in the file and in the
  save under way, except after a removal has counted and before it selects (`pc` = "current"), which is where a failure
  makes the memory strange (`Kept`); `CurrentWritten` carries it through every mixture a power cut
  leaves, since the current group and the number are one part.
- `WholeStarts` from `WholeInv`: what is in use in memory is the work of the last edit unless one is
  half made (`Half`); what an addition writes before it counts is not in use (`BeyondUse`); the file is the last save unless spoilt; a save no edit has come across has written what it
  began with. Only `Start` starts the program (`OnlyStart`).

**`NetSessionProofs`.** `TypeCorrect`, and `Blocks_ToEnabler` from `TransferInv`: a
command that failed to arrive is none, so a PC is there whenever the transfer is
enabled; the address is the enabler's but for the two steps before it is
set; and it was set before the draw thread was first told. `TypeOK` alone would
let the draw thread have been told with the address built in. `Once` (`ActsOnce`) and
`Harmless` (`OrderlyPCsHarmless`) from `CommandInv`. The properties look at what was acted on
or at the end of the program, the invariant at what may still come: for each connection the
commands on their way are younger than the one in hand and that than all acted on (`InOrder`); a
PC has heard no more answers than commands were acted on (`NoMoreAnswers`), so one that waits for
each has at most one on its way, the next due (`OneOnItsWay`), and nothing on its way or in hand
once something was sent to it in vain. `SessionInv` says that what is in hand is of
the connection the server has.

**Only model-checked.** Liveness (`FrameTaken`, `FpgaResumes`, `SaveEnds`, `Answered`,
`ServerFreed`, and the fairness part
of `MailboxService`), which is out of the prover's reach; absence of deadlock, which is
`ENABLED`. Every safety property of a passing run is proved.

## 5. Findings

1. `draw_frozen_shows_last`: the frozen branch says "show the buffer of the last DMA" and
   leaves out the test for the skipped buffer; it may draw an older frame.
2. `refresh_encoder`: a response that thaws the screen leaves the encoder's pause bit of the start/pause key set.
3. `refresh_freeze_race`: `FreezeScreen` in the refresh thread writes `TMP(freeze)` and the pin outside every lock; a start/pause
   that crosses it leaves them apart.
4. `groups_asserts`: the PC's commands look at no limit; with all groups in use an
   addition, and any removal, ends the program in an assertion.

`PROJECT.json` quotes the lines. More facts that no line of the repository
denies: a store DMA begun before a restart increments the timer the restart has
just set to 0, so that slot 0 of the new scan stays a hole (the exception, `settled`, in
`NoHoles`); a redraw reads buffer 0 without claiming it; the claim is not safe
against a preemption of two frames; the start/pause key enters data recalling
before anything was recalled, and buffer 0 is then drawn as it is; the last slot of
a saved timer scan is marked whether or not it was recorded; a save near the end
of a wrapped store writes no data; a PC that leaves with the transfer enabled leaves the
screen undrawn; a PC that sends its next command before the answer and leaves ends the program; choosing a pulser or receiver sends focal
laws, and that starts the FPGA of a frozen screen (`data_110`, `data_120`, `spi_d.c:185`; `UserFocalStart` of `Refresh`).

What the exceptions in the properties stand for, each of which the code does run into:

- `reset_scan_data` zeroes frames that are recorded during it, and those recorded after it has cleared their marks keep them (`early`).
- A redraw that a response asks for between the first redraw of the draw thread and its loop is lost (`OwedRedraw`).
- A negative number in `SetCurrentGroup` selects a group that does not exist, and so does finishing a wizard that a refused copy left at the place
  of the new group (`stray`, `strange`).
- SIGPIPE in the server thread may end the program in the middle of an addition or removal that a callback makes, and the next start takes what is in memory as it is
  (`Half`).
- A removal moves the groups and not `gGroupData`: the groups behind have another one's names of probe and wedge from then on. A blank group of the
  wizard gets those of group 0.
- The write back of the group wizard, the choice of a probe, the law menus and the PC's law parameters pass limits that additions are checked against (`UncheckedEdit`).
- The law menus leave the law to a response of the group that is current by then, and the PC's removal leaves all laws where they were (`LawLeftBehind`). The choice of an
  unknown probe keeps the law of the last one.

Found by reading and by computing the code's formulas, in parts that no module models (plan, item 3):

- `RefreshPointQty` (`calculation/limit.c:117-141`) scales the points once, and the 32 points of
  overhead of each beam not at all: 23 beams of 8192 points made 256 beams get 757
  points, a frame of 201986, over the 196608 of `callback.c:898`. `StoreBuffLimitToGroupPointQty`
  is then negative for a group of one beam, and choosing 160 points for it writes a negative number to
  an unsigned 16-bit field.
- It scales every group, the small ones too: three rounds of raising the points of one group
  and then its beams take 160 points of another to 14, to 1 and to 0, and line 132 divides by ten times that.
- `RefreshScanInfor` (`callback.c:7814-7821`) returns early when an encoder scan no longer fits: the
  driver keeps the size of the old frames, and the responses do not look at the
  result. It shortens the range to one step more than it would accept, so the next call is refused again.
- `isScanRangeInvalidate` guards the edits of the range, not those of beams and points, which change the frame.

## 6. Plan

1. `Device`: clock offset, certificate, validity and the FPGA.
2. `DialogMessage`: the message window and its timers.
3. Pure algorithms against reference definitions over bounded inputs: channel selection (`spi_d.c`), the
   element stepping of `ResponseForElmentQtyChanged`, the time-corrected gain points; the size of a
   frame through the limit checks (`calculation/limit.c`), the responses and `RefreshScanInfor`.
4. Proofs: abstract specifications of the configuration (`ConfigFile`: edits, saves and starts as
   single steps) and of a session (`NetSession`), and that the modules implement them.

## 7. Not modelled, and why

- Delay laws, FFT, sizing curves, TOFD, measurements: floating-point functions
  whose values no state property tells apart.
- Pixels, menus, dialogs, reports, strings, DXF: layout and formatting, rebuilt from the settings; they keep no state
  the acquisition reads.
- Loading and unloading the kernel module, opening devices, mapping memory: run
  once, before or after everything here. The order of thread start-up is left out: `RefressFocalLaw`
  clears the mailbox when it starts, and `Init` is after that.
- Parameters edited by callbacks, other than those that make, remove and edit groups: each is a bounded assignment followed by one of the requests that are modelled.
- The battery, key and USB readers, which share nothing with the rest but the GDK lock, except for the power key's save (`ConfigFile`).

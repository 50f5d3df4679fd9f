----------------------------- MODULE ConfigFile -----------------------------
(***************************************************************************)
(* The configuration across the program's ends: in memory, which outlives  *)
(* the program but not the power, and in default.cfg, which is written in  *)
(* place.  At its end the configuration in memory bears a mark (cfg_end);  *)
(* MainInit takes a marked one as it is and reads the file otherwise.      *)
(*                                                                         *)
(* Adding and removing groups takes the code several writes.  Callbacks    *)
(* and the commands of a PC make them under the GDK lock; the thread that  *)
(* reads the power key saves the configuration without it.  The program    *)
(* may fail between any two of these writes, above all by the SIGPIPE of   *)
(* the thread that serves the PC, which does not wait for that lock.       *)
(***************************************************************************)
EXTENDS Integers

CONSTANTS MaxGroups,  \* groups that config has room for (8)
          Values,     \* what a group may be set to
          Blank,      \* what a new group is set to, and a slot never used
          Files,      \* what default.cfg may hold at first
          MaxEdits,   \* bound on edits, in all runs of the program
          MaxStarts   \* bound on runs of the program; the last has no end

Slots == 0 .. MaxGroups - 1

\* groupId is a byte; MaxGroups stands for every number past the slots.
Ids == 0 .. MaxGroups
Config == [groupId : Ids, groupQty : 1 .. MaxGroups, group : [Slots -> Values]]

ASSUME ConfigAssumption == /\ MaxGroups \in Nat \ {0, 1}
                           /\ Blank \in Values
                           /\ Files \subseteq {c \in Config : c.groupId < c.groupQty}
                           /\ MaxEdits \in Nat /\ MaxStarts \in Nat

VARIABLES
  power,      \* the program runs, has failed, or the device is off
  config,     \* pp->p_config
  cfgEnd,     \* the memory bears the mark "abcdefgh"
  edit,       \* the addition or removal of a group that is under way
  saving,     \* the save that is under way
  disk,       \* default.cfg as the disk has it
  work,       \* config when the last edit ended, or at the start (history)
  lastSaved,  \* config when the last save that ended began (history)
  spoilt,     \* the file may not be lastSaved (history)
  strange,    \* which of memory and file may have a current group that is none (history)
  edits, starts

ramVars == <<config, cfgEnd, edit>>
pastVars == <<work, lastSaved, spoilt, strange>>
vars == <<power, ramVars, saving, disk, pastVars, edits, starts>>

Default == [groupId |-> 0, groupQty |-> 1, group |-> [i \in Slots |-> Blank]]

\* No file, or one too short to be read
NoFile == [Default EXCEPT !.groupQty = 0]
NoEdit == [op |-> "none", pc |-> "idle", at |-> 0, qty |-> 1]
NoSave == [by |-> "none", next |-> 0, cache |-> Default, was |-> Default, overlap |-> FALSE]

\* A configuration without what lies beyond its groups
InUse(c) == [id |-> c.groupId, group |-> [i \in 0 .. c.groupQty - 1 |-> c.group[i]]]

-----------------------------------------------------------------------------
Init ==
  /\ power = "off"
  /\ config = Default /\ cfgEnd = FALSE
  /\ edit = NoEdit /\ saving = NoSave
  /\ \/ disk = NoFile /\ lastSaved = Default
     \/ disk \in Files /\ lastSaved = disk
  /\ work = Default /\ spoilt = FALSE /\ strange = {}
  /\ edits = 0 /\ starts = 0

\* Memory is as strange as the file that was read.
Read == IF "file" \in strange THEN {"memory", "file"} ELSE {}

\* Memory that a failed program leaves; a removal that has counted but not yet selected
\* may have removed the current group.
Kept == IF edit.pc = "current" THEN strange \cup {"memory"} ELSE strange

\* MainInit.  The defaults it gives to settings that are zero are left out.
Start ==
  /\ power # "running" /\ starts < MaxStarts
  /\ starts' = starts + 1
  /\ power' = "running"
  /\ config' = IF cfgEnd THEN config ELSE IF disk # NoFile THEN disk ELSE Default
  /\ cfgEnd' = (cfgEnd \/ disk # NoFile)
  /\ edit' = NoEdit
  /\ work' = config'
  /\ strange' = IF cfgEnd THEN Kept ELSE Read
  /\ UNCHANGED <<saving, disk, lastSaved, spoilt, edits>>

-----------------------------------------------------------------------------
(* The end of a program or of the power.  The kernel writes what it has to *)
(* the disk as long as there is power.                                     *)

\* The file as the kernel has it while it is saved
Cache == IF disk # NoFile \/ saving.next > MaxGroups THEN saving.cache ELSE NoFile

\* What of the file may be on the disk: of each part the old or the new
Mixtures(old, new) ==
  IF NoFile \in {old, new} THEN {old, new}
  ELSE {[groupId |-> head.groupId, groupQty |-> head.groupQty,
         group |-> [i \in Slots |-> IF i \in late THEN old.group[i] ELSE new.group[i]]] :
           head \in {old, new}, late \in SUBSET Slots}

\* What a save leaves, done or not
Written ==
  (strange \cap {"memory"}) \cup
  (IF saving.overlap \/ "memory" \in strange THEN {"file"} ELSE {})
CutShort ==
  /\ spoilt' = (spoilt \/ saving # NoSave)
  /\ strange' = IF saving = NoSave THEN strange ELSE strange \cup Written

PowerCut ==
  /\ power # "off" /\ starts < MaxStarts
  /\ power' = "off"
  /\ disk' \in IF saving = NoSave THEN {disk} ELSE Mixtures(disk, Cache)
  /\ CutShort
  /\ config' = Default /\ cfgEnd' = FALSE /\ edit' = NoEdit /\ saving' = NoSave
  /\ UNCHANGED <<work, lastSaved, edits, starts>>

\* The program ends; mark says whether the mark in memory is still there.
Abort(mark) ==
  /\ power' = "failed"
  /\ disk' = IF saving = NoSave THEN disk ELSE Cache
  /\ CutShort
  /\ cfgEnd' = mark /\ saving' = NoSave
  /\ UNCHANGED <<config, edit, work, lastSaved, edits, starts>>

\* The server thread writes to a connection that the PC has reset: SIGPIPE, whatever the
\* other threads are doing.
Fails == power = "running" /\ starts < MaxStarts /\ Abort(cfgEnd)

-----------------------------------------------------------------------------
(* Edits, under the GDK lock *)

Edited(c) ==
  /\ config' = c
  /\ saving' = IF saving = NoSave THEN saving ELSE [saving EXCEPT !.overlap = TRUE]
  /\ UNCHANGED <<power, cfgEnd, disk, lastSaved, spoilt, starts>>

\* A group in use is made current.
Selects(id) == Edited([config EXCEPT !.groupId = id]) /\ strange' = strange \ {"memory"}

LockFree == power = "running" /\ edit = NoEdit /\ saving.by # "menu"
MayEdit == LockFree /\ edits < MaxEdits

\* Any callback or command that changes a group, or selects one.  What follows from a
\* current group that does not exist, the accesses to it, is left out.
EditGroup ==
  /\ MayEdit
  /\ \/ /\ \E i \in 0 .. config.groupQty - 1, v \in Values :
             Edited([config EXCEPT !.group[i] = v])
        /\ UNCHANGED strange
     \/ \E i \in 0 .. config.groupQty - 1 : Selects(i)
  /\ work' = config'
  /\ edits' = edits + 1
  /\ UNCHANGED edit

\* SetCurrentGroup takes any negative number, of which groupId gets the low byte;
\* wizardGroupHandler_finish selects its position, which may have been a group's.
SelectStray ==
  /\ MayEdit
  /\ \E i \in config.groupQty .. MaxGroups : Edited([config EXCEPT !.groupId = i])
  /\ strange' = strange \cup {"memory"}
  /\ work' = config'
  /\ edits' = edits + 1
  /\ UNCHANGED edit

\* readConfigFile from the menu, of default.cfg; nothing is taken of a file that is too
\* short.  Its copy over the configuration is one step, as the copy of a group is.
\* Opening it while the power key saves it is left out.
OpenSetup ==
  /\ MayEdit /\ saving = NoSave
  /\ disk # NoFile
  /\ config' = disk /\ cfgEnd' = TRUE /\ work' = disk
  /\ strange' = Read
  /\ edits' = edits + 1
  /\ UNCHANGED <<power, edit, saving, disk, lastSaved, spoilt, starts>>

\* qty is the number of groups as the code read it.
Begin(op, pc, at, qty) ==
  /\ MayEdit
  /\ edit' = [op |-> op, pc |-> pc, at |-> at, qty |-> qty]
  /\ edits' = edits + 1
  /\ strange' = IF qty = config.groupQty THEN strange ELSE strange \cup {"memory"}
  /\ UNCHANGED <<power, config, cfgEnd, saving, disk, work, lastSaved, spoilt, starts>>

\* The last slot of a removal that is written: the PC's loop goes one too far.
LastMoved(op, qty) == IF op = "netDelete" THEN qty - 1 ELSE qty - 2

\* The wizard's position was read before its question.
BeginDelete ==
  LET qty == config.groupQty
  IN /\ qty > 1
     /\ \/ \E op \in {"wizardDelete", "netDelete"}, i \in Slots :
             /\ op = "netDelete" => i < qty
             /\ IF i <= LastMoved(op, qty) THEN Begin(op, "move", i, qty)
                ELSE Begin(op, "count", 0, qty)
        \/ Begin("menuDelete", "count", 0, qty)

MoveGroup ==
  /\ power = "running" /\ edit.pc = "move"
  /\ edit.at + 1 < MaxGroups
  /\ Edited([config EXCEPT !.group[edit.at] = config.group[edit.at + 1]])
  /\ edit' = [edit EXCEPT
       !.at = @ + 1, !.pc = IF edit.at = LastMoved(edit.op, edit.qty) THEN "count" ELSE "move"]
  /\ UNCHANGED <<work, strange, edits>>

\* assert(src < 8) of grpcpy
MoveAsserts ==
  /\ power = "running" /\ edit.pc = "move"
  /\ edit.at + 1 = MaxGroups
  /\ Abort(cfgEnd)

CountDown ==
  /\ power = "running" /\ edit.pc = "count"
  /\ Edited([config EXCEPT !.groupQty = edit.qty - 1])
  /\ edit' = [edit EXCEPT !.pc = "current"]
  /\ UNCHANGED <<work, strange, edits>>

\* Faulty variant: the number of groups is taken for the old one.
CurrentAfterDeleteTwo(op) == IF op = "wizardDelete" THEN 0 ELSE config.groupQty - 2

\* Faulty variant: the group that was removed may stay current.
CurrentAfterDeleteOff(op) == IF op = "wizardDelete" THEN 0 ELSE config.groupQty

\* The group that is current after a removal, when the number of groups is the new one
CurrentAfterDelete(op) == IF op = "wizardDelete" THEN 0 ELSE config.groupQty - 1

EndDelete ==
  /\ power = "running" /\ edit.pc = "current"
  /\ Selects(CurrentAfterDelete(edit.op))
  /\ edit' = NoEdit
  /\ work' = config'
  /\ UNCHANGED edits

\* The group menu counts before it fills, the wizard and the PC fill before they count;
\* only the PC may add when all groups are in use.  at is the group to copy, the first
\* one for the menu, or qty for none.  The menu reads the number of groups before it
\* asks whether to copy, and a PC may have changed it when the answer comes.
BeginAdd ==
  \/ \E qty \in 1 .. MaxGroups - 1 : \E i \in {0, qty} : Begin("menuAdd", "countUp", i, qty)
  \/ \E i \in 0 .. config.groupQty : Begin("netAdd", "fill", i, config.groupQty)

FillGroup ==
  /\ power = "running" /\ edit.pc = "fill"
  /\ edit.qty < MaxGroups
  /\ Edited([config EXCEPT
               !.group[edit.qty] = IF edit.at < edit.qty THEN config.group[edit.at] ELSE Blank])
  /\ edit' = [edit EXCEPT !.pc = IF edit.op = "menuAdd" THEN "check" ELSE "countUp"]
  /\ UNCHANGED <<work, strange, edits>>

CountUp ==
  /\ power = "running" /\ edit.pc = "countUp"
  /\ Edited([config EXCEPT !.groupQty = edit.qty + 1])
  /\ edit' = [edit EXCEPT !.pc = IF edit.op = "menuAdd" THEN "fill" ELSE "check"]
  /\ UNCHANGED <<work, strange, edits>>

\* The PC adds when all groups are in use.  grpcpy asserts before it copies; a blank
\* group is cleared first, and what lies behind the last group is the mark.
FillAsserts ==
  /\ power = "running" /\ edit.pc = "fill"
  /\ edit.qty = MaxGroups
  /\ Abort(cfgEnd /\ edit.at < MaxGroups)

\* CheckGroupConfigureAvailable refuses the new group, or it becomes current.
EndAdd ==
  /\ power = "running" /\ edit.pc = "check"
  /\ \/ Edited([config EXCEPT !.groupQty = edit.qty]) /\ UNCHANGED strange
     \/ Selects(edit.qty)
  /\ edit' = NoEdit
  /\ work' = config'
  /\ UNCHANGED edits

-----------------------------------------------------------------------------
(* saveConfigFile *)

BeginSave(by) ==
  /\ power = "running" /\ saving = NoSave
  /\ cfgEnd' = TRUE
  /\ saving' = [by |-> by, next |-> 0, cache |-> IF disk = NoFile THEN Default ELSE disk,
                was |-> config, overlap |-> edit # NoEdit]
  /\ UNCHANGED <<power, config, edit, disk, pastVars, edits, starts>>

\* The setup menu, which may name default.cfg
SaveByMenu == LockFree /\ BeginSave("menu")

\* The power key, or an empty battery (ExitApplication); the power goes off some time
\* after.
SaveByKey == BeginSave("key")

\* What comes before the groups, then each group
WritePart ==
  /\ power = "running" /\ saving # NoSave /\ saving.next <= MaxGroups
  /\ saving' = [saving EXCEPT !.next = @ + 1,
       !.cache = IF saving.next = 0
                 THEN [@ EXCEPT !.groupId = config.groupId, !.groupQty = config.groupQty]
                 ELSE [@ EXCEPT !.group[saving.next - 1] = config.group[saving.next - 1]]]
  /\ UNCHANGED <<power, ramVars, disk, pastVars, edits, starts>>

\* Faulty variant: the file is closed and not synchronised.
EndSaveUnsynced ==
  /\ power = "running" /\ saving.next = MaxGroups + 1
  /\ disk' \in Mixtures(disk, Cache)
  /\ spoilt' = saving.overlap
  /\ strange' = Written
  /\ lastSaved' = saving.was
  /\ saving' = NoSave
  /\ UNCHANGED <<power, ramVars, work, edits, starts>>

EndSave ==
  /\ power = "running" /\ saving.next = MaxGroups + 1
  /\ disk' = Cache
  /\ spoilt' = saving.overlap
  /\ strange' = Written
  /\ lastSaved' = saving.was
  /\ saving' = NoSave
  /\ UNCHANGED <<power, ramVars, work, edits, starts>>

Next ==
  \/ Start \/ PowerCut \/ Fails
  \/ EditGroup \/ SelectStray \/ OpenSetup
  \/ BeginDelete \/ MoveGroup \/ MoveAsserts \/ CountDown \/ EndDelete
  \/ BeginAdd \/ FillGroup \/ FillAsserts \/ CountUp \/ EndAdd
  \/ SaveByMenu \/ SaveByKey \/ WritePart \/ EndSave

Spec == Init /\ [][Next]_vars

-----------------------------------------------------------------------------
TypeOK ==
  /\ power \in {"running", "failed", "off"}
  /\ config \in Config /\ work \in Config /\ lastSaved \in Config
  /\ disk \in Config \cup {NoFile}
  /\ {cfgEnd, spoilt} \subseteq BOOLEAN /\ strange \subseteq {"memory", "file"}
  /\ edit \in [op : {"none", "wizardDelete", "netDelete", "menuDelete", "menuAdd", "netAdd"},
               pc : {"idle", "move", "count", "current", "fill", "countUp", "check"},
               at : 0 .. MaxGroups, qty : 1 .. MaxGroups]
  /\ saving \in [by : {"none", "menu", "key"}, next : 0 .. MaxGroups + 1, cache : Config,
                 was : Config, overlap : BOOLEAN]
  /\ edits \in Nat /\ starts \in Nat

\* Of the edit some writes may have been made to what is in use, and not all
Half(e) == \/ e.op \in {"wizardDelete", "netDelete"}
           \/ e.pc \in {"current", "check"}
           \/ e.op = "menuAdd" /\ e.pc = "fill"

(***************************************************************************)
(* A program that starts after a failed one has all its work, unless it    *)
(* failed in the middle of an addition or a removal; one that has lost it, *)
(* to the power or to a blank group over the mark, has the configuration   *)
(* of the last save, unless the program or the power ended in a later one  *)
(* or an edit came in between its writes.                                  *)
(***************************************************************************)
StartsWhole ==
  [][power # "running" /\ power' = "running" =>
       IF cfgEnd THEN Half(edit) \/ InUse(config') = InUse(work)
       ELSE spoilt \/ InUse(config') = InUse(lastSaved)]_vars

(***************************************************************************)
(* Between edits the current group is one of those in use, also after a    *)
(* failure and when the power was cut in a save.  There are four ways to   *)
(* another one, each of which lasts until a group in use is selected: a    *)
(* PC or a wizard that selects what is no group; a group menu that goes on *)
(* with a number of groups that a PC has changed; a failure between the    *)
(* two writes that end a removal; and a file that was saved in the middle  *)
(* of an edit, or after one of the others.                                 *)
(***************************************************************************)
CurrentExists ==
  power = "running" /\ edit = NoEdit /\ "memory" \notin strange => config.groupId < config.groupQty
=============================================================================

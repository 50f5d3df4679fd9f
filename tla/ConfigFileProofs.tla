-------------------------- MODULE ConfigFileProofs --------------------------
(***************************************************************************)
(* Proofs about the configuration across the ends of the program: what a   *)
(* program starts with is whole, and its current group is one of those in  *)
(* use, for any number of groups, settings, edits and starts.              *)
(***************************************************************************)
EXTENDS ConfigFile, TLAPS

Deletes == {"wizardDelete", "netDelete", "menuDelete"}
Adds == {"menuAdd", "netAdd"}

EditType == [op : {"none", "wizardDelete", "netDelete", "menuDelete", "menuAdd", "netAdd"},
             pc : {"idle", "move", "count", "current", "fill", "countUp", "check"},
             at : 0 .. MaxGroups, qty : 1 .. MaxGroups]
SaveType == [by : {"none", "menu", "key"}, next : 0 .. MaxGroups + 1, cache : Config,
             was : Config, overlap : BOOLEAN]

\* An edit in progress fits the groups there are.
EditFits ==
  /\ edit.pc = "idle" => edit = NoEdit
  /\ edit = NoEdit => edit.pc = "idle"
  /\ edit.pc \in {"move", "count"} => edit.qty > 1 /\ config.groupQty = edit.qty
  /\ edit.pc = "move" => /\ edit.op \in {"wizardDelete", "netDelete"}
                         /\ edit.at <= LastMoved(edit.op, edit.qty)
  /\ edit.pc = "count" => edit.op \in Deletes
  /\ edit.pc = "current" => /\ edit.op \in Deletes
                            /\ edit.qty > 1 /\ config.groupQty = edit.qty - 1
  /\ edit.pc \in {"fill", "countUp"} /\ edit.op = "netAdd" => config.groupQty = edit.qty
  /\ edit.pc = "fill" => /\ edit.op \in Adds
                         /\ edit.op = "menuAdd" => /\ edit.qty < MaxGroups
                                                   /\ config.groupQty = edit.qty + 1
  /\ edit.pc = "countUp" => edit.op \in Adds /\ edit.qty < MaxGroups
  /\ edit.pc = "check" => /\ edit.op \in Adds
                          /\ edit.qty < MaxGroups /\ config.groupQty = edit.qty + 1

\* Without power there is no mark and nothing under way; a save ends with its program.
EndsFit ==
  /\ power = "off" => ~cfgEnd /\ edit = NoEdit /\ config = Default
  /\ power # "running" => saving = NoSave

TypeInv == TypeOK /\ EditFits /\ EndsFit

\* The number of groups that are in use whatever becomes of the edit
Sure == IF edit.pc = "check" \/ (edit.pc = "fill" /\ edit.op = "menuAdd")
        THEN edit.qty ELSE config.groupQty

\* The current group is one of them in memory, in the file and in what is saved of it.
CurrentInv ==
  /\ "memory" \notin strange /\ edit.pc # "current" => config.groupId < Sure
  /\ "memory" \notin strange /\ edit.pc = "countUp" => config.groupQty = edit.qty
  /\ "file" \notin strange /\ disk # NoFile => disk.groupId < disk.groupQty
  /\ saving # NoSave /\ ~saving.overlap => edit.pc # "current"
  /\ /\ saving # NoSave /\ ~saving.overlap
     /\ "memory" \notin strange /\ ("file" \notin strange \/ saving.next > 0)
     => saving.cache.groupId < saving.cache.groupQty

\* Memory is the work of the last edit, the file is the last save, and a save that no
\* edit has come across has written what it began with.
WholeInv ==
  /\ power # "off" /\ ~Half(edit) => InUse(config) = InUse(work)
  /\ ~spoilt => IF disk = NoFile THEN lastSaved = Default ELSE lastSaved = disk
  /\ saving # NoSave /\ ~saving.overlap =>
       /\ config = saving.was
       /\ saving.next > 0 => /\ saving.cache.groupId = config.groupId
                             /\ saving.cache.groupQty = config.groupQty
       /\ \A i \in Slots : i < saving.next - 1 => saving.cache.group[i] = config.group[i]

-----------------------------------------------------------------------------
(* The operators *)

LEMMA DefaultType ==
  /\ Default \in Config /\ NoFile \notin Config
  /\ Default.groupId = 0 /\ Default.groupQty = 1 /\ NoFile.groupQty = 0
  /\ 0 \in Slots
  BY ConfigAssumption DEF Default, Config, Slots, Ids, NoFile

\* A change of a field of a configuration is a configuration.
LEMMA SetGroup ==
  ASSUME NEW c \in Config, NEW i \in Slots, NEW v \in Values
  PROVE  /\ [c EXCEPT !.group[i] = v] \in Config
         /\ [c EXCEPT !.group[i] = v].groupId = c.groupId
         /\ [c EXCEPT !.group[i] = v].groupQty = c.groupQty
         /\ \A j \in Slots : [c EXCEPT !.group[i] = v].group[j] = IF j = i THEN v ELSE c.group[j]
  BY DEF Config

LEMMA SetQty ==
  ASSUME NEW c \in Config, NEW n \in 1 .. MaxGroups
  PROVE  /\ [c EXCEPT !.groupQty = n] \in Config
         /\ [c EXCEPT !.groupQty = n].groupId = c.groupId
         /\ [c EXCEPT !.groupQty = n].groupQty = n
  BY DEF Config

LEMMA SetId ==
  ASSUME NEW c \in Config, NEW n \in Ids
  PROVE  /\ [c EXCEPT !.groupId = n] \in Config
         /\ [c EXCEPT !.groupId = n].groupId = n
         /\ [c EXCEPT !.groupId = n].groupQty = c.groupQty
  BY DEF Config

\* A power cut leaves a configuration, or no file.
LEMMA MixtureType ==
  ASSUME NEW old \in Config \cup {NoFile}, NEW new \in Config \cup {NoFile},
         NEW d \in Mixtures(old, new)
  PROVE  /\ d \in Config \cup {NoFile}
         /\ \/ d.groupId = old.groupId /\ d.groupQty = old.groupQty
            \/ d.groupId = new.groupId /\ d.groupQty = new.groupQty
  <1>1. CASE NoFile \in {old, new}
    BY <1>1 DEF Mixtures
  <1>2. CASE NoFile \notin {old, new}
    <2>1. old \in Config /\ new \in Config
      BY <1>2
    <2>2. PICK head \in {old, new}, late \in SUBSET Slots :
            d = [groupId |-> head.groupId, groupQty |-> head.groupQty,
                 group |-> [i \in Slots |-> IF i \in late THEN old.group[i] ELSE new.group[i]]]
      BY <1>2 DEF Mixtures
    <2>3. d \in Config
      BY <2>1, <2>2 DEF Config
    <2> QED
      BY <2>2, <2>3
  <1> QED
    BY <1>1, <1>2

\* The file as the kernel has it is a configuration, or none.
LEMMA CacheType ==
  ASSUME TypeOK
  PROVE  Cache \in Config \cup {NoFile} /\ (Cache # NoFile => Cache = saving.cache)
  BY DEF TypeOK, Cache

LEMMA CutShortType ==
  ASSUME TypeOK, CutShort
  PROVE  spoilt' \in BOOLEAN /\ strange' \subseteq {"memory", "file"}
  BY DEF TypeOK, CutShort, Written

\* What an edit leaves of the types
LEMMA EditedType ==
  ASSUME TypeOK, NEW c \in Config, Edited(c)
  PROVE  /\ config' \in Config /\ power' = power /\ cfgEnd' = cfgEnd
         /\ disk' = disk /\ lastSaved' = lastSaved /\ spoilt' = spoilt
         /\ starts' = starts
         /\ saving' \in [by : {"none", "menu", "key"}, next : 0 .. MaxGroups + 1,
                         cache : Config, was : Config, overlap : BOOLEAN]
         /\ (saving' = NoSave) <=> (saving = NoSave)
         /\ saving # NoSave => saving'.overlap
  <1> USE DEF TypeOK, Edited
  <1>1. saving = NoSave => saving' = saving
    OBVIOUS
  <1>2. saving # NoSave => /\ saving' \in [by : {"none", "menu", "key"},
                                           next : 0 .. MaxGroups + 1,
                                           cache : Config, was : Config, overlap : BOOLEAN]
                           /\ saving'.overlap
    OBVIOUS
  <1>3. ~NoSave.overlap
    BY DEF NoSave
  <1> QED
    BY <1>1, <1>2, <1>3

-----------------------------------------------------------------------------
(* Type correctness *)

LEMMA TypeInit == Init => TypeInv
  <1> SUFFICES ASSUME Init PROVE TypeInv
    OBVIOUS
  <1>1. disk \in Config \cup {NoFile} /\ lastSaved \in Config
    BY DefaultType, ConfigAssumption DEF Init
  <1>2. NoEdit \in [op : {"none", "wizardDelete", "netDelete", "menuDelete", "menuAdd", "netAdd"},
                    pc : {"idle", "move", "count", "current", "fill", "countUp", "check"},
                    at : 0 .. MaxGroups, qty : 1 .. MaxGroups]
    BY ConfigAssumption DEF NoEdit
  <1>3. NoSave \in [by : {"none", "menu", "key"}, next : 0 .. MaxGroups + 1, cache : Config,
                    was : Config, overlap : BOOLEAN]
    BY DefaultType, ConfigAssumption DEF NoSave
  <1> QED
    BY <1>1, <1>2, <1>3, DefaultType
    DEF Init, TypeInv, TypeOK, EditFits, EndsFit, NoEdit

\* The start, and the end by a power cut
LEMMA TypeEnds ==
  ASSUME TypeInv, Start \/ PowerCut
  PROVE  TypeInv'
  <1>1. NoEdit \in [op : {"none", "wizardDelete", "netDelete", "menuDelete", "menuAdd", "netAdd"},
                    pc : {"idle", "move", "count", "current", "fill", "countUp", "check"},
                    at : 0 .. MaxGroups, qty : 1 .. MaxGroups]
    BY ConfigAssumption DEF NoEdit
  <1>2. NoSave \in [by : {"none", "menu", "key"}, next : 0 .. MaxGroups + 1, cache : Config,
                    was : Config, overlap : BOOLEAN]
    BY DefaultType, ConfigAssumption DEF NoSave
  <1>3. CASE Start
    <2>1. config' \in Config /\ work' \in Config
      BY <1>3, DefaultType DEF Start, TypeInv, TypeOK
    <2>2. strange' \subseteq {"memory", "file"}
      BY <1>3 DEF Start, TypeInv, TypeOK, Read, Kept
    <2> QED
      BY <1>1, <1>3, <2>1, <2>2 DEF Start, TypeInv, TypeOK, EditFits, EndsFit, NoEdit
  <1>4. CASE PowerCut
    <2>1. disk' \in Config \cup {NoFile}
      BY <1>4, CacheType, MixtureType DEF PowerCut, TypeInv, TypeOK
    <2>2. spoilt' \in BOOLEAN /\ strange' \subseteq {"memory", "file"}
      BY <1>4, CutShortType DEF PowerCut, TypeInv
    <2> QED
      BY <1>1, <1>2, <1>4, <2>1, <2>2, DefaultType
      DEF PowerCut, TypeInv, TypeOK, EditFits, EndsFit, NoEdit
  <1> QED
    BY <1>3, <1>4

\* The end by a failure
LEMMA TypeAborts ==
  ASSUME TypeInv, MoveAsserts \/ FillAsserts \/ Fails
  PROVE  TypeInv'
  <1>1. PICK mark \in BOOLEAN : Abort(mark)
    BY DEF MoveAsserts, FillAsserts, Fails, TypeInv, TypeOK
  <1>2. NoSave \in [by : {"none", "menu", "key"}, next : 0 .. MaxGroups + 1, cache : Config,
                    was : Config, overlap : BOOLEAN]
    BY DefaultType, ConfigAssumption DEF NoSave
  <1>3. disk' \in Config \cup {NoFile}
    BY <1>1, CacheType DEF Abort, TypeInv, TypeOK
  <1>4. spoilt' \in BOOLEAN /\ strange' \subseteq {"memory", "file"}
    BY <1>1, CutShortType DEF Abort, TypeInv
  <1> QED
    BY <1>1, <1>2, <1>3, <1>4 DEF Abort, TypeInv, TypeOK, EditFits, EndsFit, LastMoved

\* The edits of one step, and the beginning of the others
LEMMA TypeBegins ==
  ASSUME TypeInv, EditGroup \/ SelectStray \/ OpenSetup \/ BeginDelete \/ BeginAdd
  PROVE  TypeInv'
  <1> USE DEF TypeInv, MayEdit, LockFree
  <1>0. config.groupQty \in 1 .. MaxGroups /\ MaxGroups \in Nat
    BY ConfigAssumption DEF TypeOK, Config
  <1>1. ASSUME NEW c \in Config, Edited(c), edit = NoEdit, edit' = NoEdit, power = "running",
               work' = config', edits' = edits + 1, strange' \subseteq {"memory", "file"}
        PROVE  TypeInv'
    <2>1. NoEdit.pc = "idle" /\ edits' \in Nat
      BY <1>1 DEF NoEdit, TypeOK
    <2> QED
      BY <1>1, <2>1, EditedType DEF TypeOK, EditFits, EndsFit
  <1>2. CASE EditGroup
    <2>1. PICK c \in Config : Edited(c)
      <3>1. CASE \E i \in 0 .. config.groupQty - 1, v \in Values :
                    Edited([config EXCEPT !.group[i] = v])
        <4>1. PICK i \in 0 .. config.groupQty - 1, v \in Values :
                     Edited([config EXCEPT !.group[i] = v])
          BY <3>1
        <4>2. i \in Slots
          BY <1>0, <4>1 DEF Slots
        <4> QED
          BY <4>1, <4>2, SetGroup DEF TypeOK
      <3>2. CASE \E i \in 0 .. config.groupQty - 1 : Selects(i)
        <4>1. PICK i \in 0 .. config.groupQty - 1 : Edited([config EXCEPT !.groupId = i])
          BY <3>2 DEF Selects
        <4>2. i \in Ids
          BY <1>0, <4>1 DEF Ids
        <4> QED
          BY <4>1, <4>2, SetId DEF TypeOK
      <3> QED
        BY <1>2, <3>1, <3>2 DEF EditGroup
    <2>2. strange' \subseteq {"memory", "file"}
      BY <1>2 DEF EditGroup, Selects, TypeOK
    <2> QED
      BY <1>1, <1>2, <2>1, <2>2 DEF EditGroup
  <1>3. CASE SelectStray
    <2>1. PICK i \in config.groupQty .. MaxGroups : Edited([config EXCEPT !.groupId = i])
      BY <1>3 DEF SelectStray
    <2>2. i \in Ids
      BY <1>0, <2>1 DEF Ids
    <2>3. PICK c \in Config : Edited(c)
      BY <2>1, <2>2, SetId DEF TypeOK
    <2>4. strange' \subseteq {"memory", "file"}
      BY <1>3 DEF SelectStray, TypeOK
    <2> QED
      BY <1>1, <1>3, <2>3, <2>4 DEF SelectStray
  <1>4. CASE OpenSetup
    <2>1. strange' \subseteq {"memory", "file"} /\ config' \in Config
      BY <1>4, DefaultType DEF OpenSetup, Read, TypeOK
    <2>2. NoEdit.pc = "idle"
      BY DEF NoEdit
    <2> QED
      BY <1>4, <2>1, <2>2 DEF OpenSetup, TypeOK, EditFits, EndsFit
  <1>5. ASSUME NEW op \in Deletes \cup Adds, NEW pc \in {"move", "count", "fill", "countUp"},
               NEW at \in 0 .. MaxGroups, NEW qty \in 1 .. MaxGroups, Begin(op, pc, at, qty),
               op = "menuAdd" \/ qty = config.groupQty,
               pc = "move" => /\ op \in {"wizardDelete", "netDelete"} /\ qty > 1
                              /\ at <= LastMoved(op, qty),
               pc = "count" => op \in Deletes /\ qty > 1,
               pc = "fill" => op = "netAdd",
               pc = "countUp" => op \in Adds /\ qty < MaxGroups
        PROVE  TypeInv'
    <2>1. edit' = [op |-> op, pc |-> pc, at |-> at, qty |-> qty]
      BY <1>5 DEF Begin
    <2>2. edit'.op = op /\ edit'.pc = pc /\ edit'.at = at /\ edit'.qty = qty /\ edit' # NoEdit
      BY <2>1 DEF NoEdit
    <2>3. TypeOK'
      BY <1>5, <2>1 DEF Begin, TypeOK, Deletes, Adds
    <2>4. config' = config
      BY <1>5 DEF Begin
    <2>5. EditFits'
      BY <1>5, <2>2, <2>4 DEF EditFits, LastMoved, Adds, Deletes
    <2>6. EndsFit'
      BY <1>5 DEF Begin, EndsFit
    <2> QED
      BY <2>3, <2>5, <2>6
  <1>6. CASE BeginDelete
    <2>1. CASE \E op \in {"wizardDelete", "netDelete"}, i \in Slots :
                  IF i <= LastMoved(op, config.groupQty) THEN Begin(op, "move", i, config.groupQty)
                  ELSE Begin(op, "count", 0, config.groupQty)
      <3>1. PICK op \in {"wizardDelete", "netDelete"}, i \in Slots :
                  IF i <= LastMoved(op, config.groupQty) THEN Begin(op, "move", i, config.groupQty)
                  ELSE Begin(op, "count", 0, config.groupQty)
        BY <2>1
      <3>2. i \in 0 .. MaxGroups /\ 0 \in 0 .. MaxGroups
        BY <1>0 DEF Slots
      <3> QED
        BY <1>0, <1>5, <1>6, <3>1, <3>2 DEF BeginDelete, Deletes
    <2>2. CASE Begin("menuDelete", "count", 0, config.groupQty)
      BY <1>0, <1>5, <1>6, <2>2 DEF BeginDelete, Deletes
    <2> QED
      BY <1>6, <2>1, <2>2 DEF BeginDelete
  <1>7. CASE BeginAdd
    <2>1. CASE \E qty \in 1 .. MaxGroups - 1 : \E i \in {0, qty} :
                  Begin("menuAdd", "countUp", i, qty)
      <3>1. PICK qty \in 1 .. MaxGroups - 1, i \in 0 .. MaxGroups :
                   Begin("menuAdd", "countUp", i, qty)
        BY <1>0, <2>1
      <3>2. qty \in 1 .. MaxGroups /\ qty < MaxGroups
        BY <1>0, <3>1
      <3> QED
        BY <1>5, <3>1, <3>2 DEF Adds
    <2>2. CASE \E i \in 0 .. config.groupQty : Begin("netAdd", "fill", i, config.groupQty)
      <3>1. PICK i \in 0 .. MaxGroups : Begin("netAdd", "fill", i, config.groupQty)
        BY <1>0, <2>2
      <3> QED
        BY <1>0, <1>5, <3>1 DEF Adds
    <2> QED
      BY <1>7, <2>1, <2>2 DEF BeginAdd
  <1> QED
    BY <1>2, <1>3, <1>4, <1>6, <1>7

\* The further steps of an edit
LEMMA TypeEdits ==
  ASSUME TypeInv,
         MoveGroup \/ CountDown \/ EndDelete \/ FillGroup \/ CountUp \/ EndAdd
  PROVE  TypeInv'
  <1>1. /\ config \in Config /\ work \in Config /\ edits \in Nat
        /\ config.groupQty \in 1 .. MaxGroups /\ MaxGroups \in Nat \ {0, 1}
        /\ edit \in EditType /\ strange \subseteq {"memory", "file"}
    BY ConfigAssumption DEF TypeInv, TypeOK, Config, EditType
  <1>2. NoEdit \in EditType /\ NoEdit.pc = "idle"
    BY <1>1 DEF NoEdit, EditType
  <1>3. ASSUME NEW c \in Config, Edited(c), power = "running", edits' = edits,
               work' \in {work, config'}, edit' \in EditType, EditFits',
               strange' \subseteq {"memory", "file"}
        PROVE  TypeInv'
    <2>1. TypeOK'
      BY <1>1, <1>3, EditedType DEF TypeInv, TypeOK, EditType
    <2>2. EndsFit'
      BY <1>3, EditedType DEF TypeInv, EndsFit
    <2> QED
      BY <1>3, <2>1, <2>2 DEF TypeInv
  <1>4. CASE MoveGroup
    <2>1. edit.at \in Slots /\ edit.at + 1 \in Slots
      BY <1>1, <1>4 DEF MoveGroup, EditType, Slots
    <2>2. PICK c \in Config : Edited(c) /\ c.groupQty = config.groupQty
      <3>1. config.group[edit.at + 1] \in Values
        BY <1>1, <2>1 DEF Config
      <3> DEFINE c == [config EXCEPT !.group[edit.at] = config.group[edit.at + 1]]
      <3>2. c \in Config /\ c.groupQty = config.groupQty
        BY <1>1, <2>1, <3>1, SetGroup
      <3>3. Edited(c)
        BY <1>4 DEF MoveGroup
      <3> QED
        BY <3>2, <3>3
    <2>3. config'.groupQty = config.groupQty
      BY <2>2 DEF Edited
    <2>4. /\ edit'.op = edit.op /\ edit'.qty = edit.qty /\ edit'.at = edit.at + 1
          /\ edit'.pc = IF edit.at = LastMoved(edit.op, edit.qty) THEN "count" ELSE "move"
          /\ edit' \in EditType /\ edit' # NoEdit
      <3>1. edit' = [edit EXCEPT !.at = edit.at + 1,
                       !.pc = IF edit.at = LastMoved(edit.op, edit.qty) THEN "count" ELSE "move"]
        BY <1>4 DEF MoveGroup
      <3>2. edit.at + 1 \in 0 .. MaxGroups
        BY <1>1, <2>1 DEF Slots
      <3>3. (IF edit.at = LastMoved(edit.op, edit.qty) THEN "count" ELSE "move") \in {"count", "move"}
        OBVIOUS
      <3>4. edit' \in EditType /\ edit'.pc \in {"count", "move"}
        BY <1>1, <3>1, <3>2, <3>3 DEF EditType
      <3> QED
        BY <1>1, <1>2, <3>1, <3>4 DEF EditType
    <2>5. EditFits'
      BY <1>1, <1>4, <2>3, <2>4 DEF MoveGroup, TypeInv, EditFits, LastMoved, Deletes, EditType
    <2> QED
      BY <1>1, <1>3, <1>4, <2>2, <2>4, <2>5 DEF MoveGroup
  <1>5. CASE CountDown
    <2>1. edit.qty > 1 /\ edit.op \in Deletes /\ edit.qty - 1 \in 1 .. MaxGroups
      BY <1>1, <1>5 DEF CountDown, TypeInv, EditFits, EditType
    <2>2. PICK c \in Config : Edited(c) /\ c.groupQty = edit.qty - 1
      <3> DEFINE n == edit.qty - 1
                 c == [config EXCEPT !.groupQty = n]
      <3>1. Edited(c)
        BY <1>5 DEF CountDown
      <3>2. c \in Config /\ c.groupQty = n
        <4> HIDE DEF n
        <4> QED
          BY <1>1, <2>1, SetQty DEF n
      <3> QED
        BY <3>1, <3>2
    <2>3. config'.groupQty = edit.qty - 1
      BY <2>2 DEF Edited
    <2>4. /\ edit'.op = edit.op /\ edit'.qty = edit.qty
          /\ edit'.pc = "current" /\ edit' \in EditType
          /\ edit' # NoEdit
      BY <1>1, <1>5 DEF CountDown, EditType, NoEdit
    <2>5. EditFits'
      BY <2>1, <2>3, <2>4 DEF EditFits
    <2> QED
      BY <1>1, <1>3, <1>5, <2>2, <2>4, <2>5 DEF CountDown
  <1>6. CASE EndDelete
    <2>1. CurrentAfterDelete(edit.op) \in Ids
      BY <1>1 DEF CurrentAfterDelete, Ids
    <2>2. PICK c \in Config : Edited(c)
      BY <1>1, <1>6, <2>1, SetId DEF EndDelete, Selects
    <2>3. EditFits'
      BY <1>2, <1>6 DEF EndDelete, EditFits
    <2> QED
      BY <1>1, <1>2, <1>3, <1>6, <2>2, <2>3 DEF EndDelete, Selects
  <1>7. CASE FillGroup
    <2>1. edit.op \in Adds /\ edit.qty \in Slots /\ edit.at \in 0 .. MaxGroups
      BY <1>1, <1>7 DEF FillGroup, TypeInv, EditFits, Slots, EditType
    <2>2. PICK c \in Config : Edited(c) /\ c.groupQty = config.groupQty
      <3> DEFINE v == IF edit.at < edit.qty THEN config.group[edit.at] ELSE Blank
                 c == [config EXCEPT !.group[edit.qty] = v]
      <3>1. v \in Values
        BY <1>1, <2>1, ConfigAssumption DEF Config, Slots
      <3>2. Edited(c)
        BY <1>7 DEF FillGroup
      <3>3. c \in Config /\ c.groupQty = config.groupQty
        <4> HIDE DEF v
        <4> QED
          BY <1>1, <2>1, <3>1, SetGroup
      <3> QED
        BY <3>2, <3>3
    <2>3. config'.groupQty = config.groupQty
      BY <2>2 DEF Edited
    <2>4. /\ edit'.op = edit.op /\ edit'.qty = edit.qty /\ edit' \in EditType /\ edit' # NoEdit
          /\ edit'.pc = IF edit.op = "menuAdd" THEN "check" ELSE "countUp"
      BY <1>1, <1>7 DEF FillGroup, EditType, NoEdit
    <2>5. EditFits'
      BY <1>7, <2>1, <2>3, <2>4 DEF FillGroup, TypeInv, EditFits, Adds
    <2> QED
      BY <1>1, <1>3, <1>7, <2>2, <2>4, <2>5 DEF FillGroup
  <1>8. CASE CountUp
    <2>1. edit.op \in Adds /\ edit.qty + 1 \in 1 .. MaxGroups /\ edit.qty < MaxGroups
      BY <1>1, <1>8 DEF CountUp, TypeInv, EditFits, EditType
    <2>2. PICK c \in Config : Edited(c) /\ c.groupQty = edit.qty + 1
      <3> DEFINE n == edit.qty + 1
                 c == [config EXCEPT !.groupQty = n]
      <3>1. Edited(c)
        BY <1>8 DEF CountUp
      <3>2. c \in Config /\ c.groupQty = n
        <4> HIDE DEF n
        <4> QED
          BY <1>1, <2>1, SetQty DEF n
      <3> QED
        BY <3>1, <3>2
    <2>3. config'.groupQty = edit.qty + 1
      BY <2>2 DEF Edited
    <2>4. /\ edit'.op = edit.op /\ edit'.qty = edit.qty /\ edit' \in EditType /\ edit' # NoEdit
          /\ edit'.pc = IF edit.op = "menuAdd" THEN "fill" ELSE "check"
      BY <1>1, <1>8 DEF CountUp, EditType, NoEdit
    <2>5. EditFits'
      BY <2>1, <2>3, <2>4 DEF EditFits, Adds
    <2> QED
      BY <1>1, <1>3, <1>8, <2>2, <2>4, <2>5 DEF CountUp
  <1>9. CASE EndAdd
    <2>1. edit.qty \in 1 .. MaxGroups /\ edit.qty \in Ids
      BY <1>1 DEF EditType, Ids
    <2>2. PICK c \in Config : Edited(c)
      BY <1>1, <1>9, <2>1, SetQty, SetId DEF EndAdd, Selects
    <2>3. EditFits'
      BY <1>2, <1>9 DEF EndAdd, EditFits
    <2> QED
      BY <1>1, <1>2, <1>3, <1>9, <2>2, <2>3 DEF EndAdd, Selects
  <1> QED
    BY <1>4, <1>5, <1>6, <1>7, <1>8, <1>9

\* The steps of a save
LEMMA TypeSaves ==
  ASSUME TypeInv, SaveByMenu \/ SaveByKey \/ WritePart \/ EndSave
  PROVE  TypeInv'
  <1>1. /\ config \in Config /\ disk \in Config \cup {NoFile} /\ saving \in SaveType
        /\ strange \subseteq {"memory", "file"}
    BY DEF TypeInv, TypeOK, SaveType
  <1>2. CASE SaveByMenu \/ SaveByKey
    <2>1. PICK by \in {"menu", "key"} : BeginSave(by)
      BY <1>2 DEF SaveByMenu, SaveByKey
    <2>2. (IF disk = NoFile THEN Default ELSE disk) \in Config
      BY <1>1, DefaultType
    <2>3. saving' \in SaveType
      BY <1>1, <2>1, <2>2, ConfigAssumption DEF BeginSave, SaveType
    <2> QED
      BY <2>1, <2>3
      DEF BeginSave, TypeInv, TypeOK, EditFits, EndsFit, pastVars, SaveType, LastMoved
  <1>3. CASE WritePart
    <2>1. saving.next \in 0 .. MaxGroups
      BY <1>1, <1>3, ConfigAssumption DEF WritePart, SaveType
    <2>2. [saving.cache EXCEPT !.groupId = config.groupId, !.groupQty = config.groupQty] \in Config
      BY <1>1 DEF SaveType, Config
    <2>3. saving.next # 0 =>
            [saving.cache EXCEPT !.group[saving.next - 1] = config.group[saving.next - 1]] \in Config
      <3>1. SUFFICES ASSUME saving.next # 0
                     PROVE  [saving.cache EXCEPT !.group[saving.next - 1] =
                               config.group[saving.next - 1]] \in Config
        OBVIOUS
      <3>2. saving.next - 1 \in Slots
        BY <2>1, <3>1, ConfigAssumption DEF Slots
      <3>3. config.group[saving.next - 1] \in Values /\ saving.cache \in Config
        BY <1>1, <3>2 DEF SaveType, Config
      <3> QED
        BY <3>2, <3>3, SetGroup
    <2>4. saving' \in SaveType
      <3>1. saving.next + 1 \in 0 .. MaxGroups + 1
        BY <2>1, ConfigAssumption
      <3>2. saving' = [saving EXCEPT !.next = saving.next + 1,
              !.cache = IF saving.next = 0
                        THEN [saving.cache EXCEPT !.groupId = config.groupId,
                                                  !.groupQty = config.groupQty]
                        ELSE [saving.cache EXCEPT !.group[saving.next - 1] =
                                                    config.group[saving.next - 1]]]
        BY <1>3 DEF WritePart
      <3>3. ASSUME NEW n \in 0 .. MaxGroups + 1, NEW c \in Config
            PROVE  [saving EXCEPT !.next = n, !.cache = c] \in SaveType
        BY <1>1 DEF SaveType
      <3> QED
        BY <2>2, <2>3, <3>1, <3>2, <3>3
    <2> QED
      BY <1>3, <2>4
      DEF WritePart, TypeInv, TypeOK, EditFits, EndsFit, ramVars, pastVars, SaveType, LastMoved
  <1>4. CASE EndSave
    <2>1. saving' \in SaveType
      BY <1>4, DefaultType, ConfigAssumption DEF EndSave, NoSave, SaveType
    <2>2. disk' \in Config \cup {NoFile}
      BY <1>4, CacheType DEF EndSave, TypeInv
    <2>3. strange' \subseteq {"memory", "file"} /\ spoilt' \in BOOLEAN /\ lastSaved' \in Config
      BY <1>1, <1>4 DEF EndSave, Written, SaveType
    <2> QED
      BY <1>4, <2>1, <2>2, <2>3
      DEF EndSave, TypeInv, TypeOK, EditFits, EndsFit, ramVars, SaveType, LastMoved
  <1> QED
    BY <1>2, <1>3, <1>4

LEMMA TypeStutter ==
  ASSUME TypeInv, UNCHANGED vars
  PROVE  TypeInv'
  BY DEF vars, ramVars, pastVars, TypeInv, TypeOK, EditFits, EndsFit, LastMoved

LEMMA TypeStep == TypeInv /\ [Next]_vars => TypeInv'
  BY TypeEnds, TypeAborts, TypeBegins, TypeEdits, TypeSaves, TypeStutter DEF Next

\* The variables keep their types: whatever is added, removed, saved or cut short, the
\* configuration in memory and the one in the file have their fields in range.
THEOREM TypeCorrect == Spec => []TypeOK
  BY TypeInit, TypeStep, PTL DEF Spec, TypeInv

-----------------------------------------------------------------------------
(* The current group *)

\* What the types say of the numbers of groups
LEMMA Counts ==
  ASSUME TypeInv
  PROVE  /\ config \in Config /\ config.groupQty \in 1 .. MaxGroups /\ config.groupId \in Ids
         /\ MaxGroups \in Nat \ {0, 1} /\ Sure \in 0 .. config.groupQty
         /\ saving \in SaveType /\ saving.cache \in Config
         /\ saving.cache.groupId \in Ids /\ saving.cache.groupQty \in 1 .. MaxGroups
         /\ disk \in Config \cup {NoFile}
         /\ NoEdit.pc = "idle" /\ (edit = NoEdit <=> edit.pc = "idle")
         /\ edit.qty \in 1 .. MaxGroups
  <1>1. config \in Config /\ saving \in SaveType /\ disk \in Config \cup {NoFile}
    BY DEF TypeInv, TypeOK, SaveType
  <1>2. saving.cache \in Config
    BY <1>1 DEF SaveType
  <1>3. NoEdit.pc = "idle" /\ (edit = NoEdit <=> edit.pc = "idle")
    BY DEF NoEdit, TypeInv, EditFits
  <1>4. config.groupQty \in 1 .. MaxGroups /\ config.groupId \in Ids
    BY <1>1 DEF Config
  <1>5. saving.cache.groupId \in Ids /\ saving.cache.groupQty \in 1 .. MaxGroups
    BY <1>2 DEF Config
  <1>7. edit.qty \in 1 .. MaxGroups
    BY DEF TypeInv, TypeOK
  <1>6. Sure \in 0 .. config.groupQty
    BY <1>4, <1>7, ConfigAssumption DEF Sure, TypeInv, EditFits
  <1> QED
    BY <1>1, <1>2, <1>3, <1>4, <1>5, <1>6, <1>7, ConfigAssumption

LEMMA CurrentInit == Init => CurrentInv
  <1> SUFFICES ASSUME Init PROVE CurrentInv
    OBVIOUS
  <1>1. edit.pc = "idle" /\ saving = NoSave
    BY DEF Init, NoEdit
  <1>2. config.groupId < Sure
    BY <1>1, DefaultType DEF Init, Sure
  <1>3. disk # NoFile => disk.groupId < disk.groupQty
    BY ConfigAssumption DEF Init
  <1> QED
    BY <1>1, <1>2, <1>3 DEF CurrentInv

\* A save that no edit has come across leaves a file with its current group, done or not.
LEMMA CurrentWritten ==
  ASSUME TypeInv, CurrentInv, saving # NoSave,
         NEW d, d \in Mixtures(disk, Cache) \/ d = Cache, d # NoFile,
         "file" \notin strange, "file" \notin Written
  PROVE  d.groupId < d.groupQty
  <1>1. ~saving.overlap /\ "memory" \notin strange
    BY DEF Written
  <1>2. saving.cache.groupId < saving.cache.groupQty
    BY <1>1 DEF CurrentInv
  <1>3. disk # NoFile => disk.groupId < disk.groupQty
    BY DEF CurrentInv
  <1>4. Cache \in Config \cup {NoFile} /\ (Cache # NoFile => Cache = saving.cache)
    BY CacheType DEF TypeInv
  <1>5. CASE d = Cache
    BY <1>2, <1>4, <1>5
  <1>6. CASE d \in Mixtures(disk, Cache)
    <2>1. /\ d \in Config
          /\ \/ d.groupId = disk.groupId /\ d.groupQty = disk.groupQty
             \/ d.groupId = Cache.groupId /\ d.groupQty = Cache.groupQty
      BY <1>4, <1>6, Counts, MixtureType
    <2>2. d.groupQty # 0
      BY <2>1, Counts DEF Config
    <2> QED
      BY <1>2, <1>3, <1>4, <2>1, <2>2, DefaultType
  <1> QED
    BY <1>5, <1>6

LEMMA CurrentEnds ==
  ASSUME TypeInv, CurrentInv, Start \/ PowerCut \/ MoveAsserts \/ FillAsserts \/ Fails
  PROVE  CurrentInv'
  <1>1. CASE Start
    <2>1. saving = NoSave /\ saving' = NoSave /\ edit'.pc = "idle"
      BY <1>1, Counts DEF Start, TypeInv, EndsFit
    <2>3. "memory" \notin strange' => config'.groupId < config'.groupQty
      <3>1. CASE cfgEnd
        <4>1. config' = config /\ strange' = Kept
          BY <1>1, <3>1 DEF Start
        <4>2. "memory" \notin strange' => config.groupId < Sure
          BY <4>1 DEF Kept, CurrentInv
        <4> QED
          BY <4>1, <4>2, Counts DEF Ids
      <3>2. CASE ~cfgEnd
        BY <1>1, <3>2, DefaultType DEF Start, CurrentInv, Read
      <3> QED
        BY <3>1, <3>2
    <2>4. "file" \notin strange' => "file" \notin strange
      BY <1>1 DEF Start, Read, Kept
    <2>5. disk' = disk
      BY <1>1 DEF Start
    <2> QED
      BY <2>1, <2>3, <2>4, <2>5 DEF CurrentInv, Sure
  <1>2. ASSUME power = "running" \/ power = "failed", CutShort, saving' = NoSave,
               disk' \in (IF saving = NoSave THEN {disk} ELSE Mixtures(disk, Cache) \cup {Cache}),
               "memory" \notin strange' /\ edit'.pc # "current" => config'.groupId < Sure',
               "memory" \notin strange' /\ edit'.pc = "countUp" => config'.groupQty = edit'.qty
        PROVE  CurrentInv'
    <2>1. "file" \notin strange' /\ disk' # NoFile => disk'.groupId < disk'.groupQty
      <3>1. CASE saving = NoSave
        BY <1>2, <3>1 DEF CutShort, CurrentInv
      <3>2. CASE saving # NoSave
        BY <1>2, <3>2, CurrentWritten DEF CutShort
      <3> QED
        BY <3>1, <3>2
    <2> QED
      BY <1>2, <2>1 DEF CurrentInv
  <1>3. CASE PowerCut
    <2>1. edit'.pc = "idle" /\ config'.groupId < Sure'
      BY <1>3, DefaultType, Counts DEF PowerCut, Sure
    <2>2. power = "running" \/ power = "failed"
      BY <1>3 DEF PowerCut, TypeInv, TypeOK
    <2> QED
      BY <1>2, <1>3, <2>1, <2>2 DEF PowerCut
  <1>4. CASE MoveAsserts \/ FillAsserts \/ Fails
    <2>1. PICK mark \in BOOLEAN : Abort(mark) /\ power = "running"
      BY <1>4 DEF MoveAsserts, FillAsserts, Fails, TypeInv, TypeOK
    <2>2. "memory" \notin strange' => "memory" \notin strange
      BY <2>1 DEF Abort, CutShort
    <2>3. "memory" \notin strange' /\ edit'.pc # "current" => config'.groupId < Sure'
      BY <2>1, <2>2 DEF Abort, CurrentInv, Sure
    <2>4. "memory" \notin strange' /\ edit'.pc = "countUp" => config'.groupQty = edit'.qty
      BY <2>1, <2>2 DEF Abort, CurrentInv
    <2> QED
      BY <1>2, <2>1, <2>3, <2>4 DEF Abort
  <1> QED
    BY <1>1, <1>3, <1>4

LEMMA CurrentEdits ==
  ASSUME TypeInv, CurrentInv, TypeInv',
         \/ EditGroup \/ SelectStray \/ OpenSetup \/ BeginDelete \/ BeginAdd
         \/ MoveGroup \/ CountDown \/ EndDelete \/ FillGroup \/ CountUp \/ EndAdd
  PROVE  CurrentInv'
  <1> USE DEF MayEdit, LockFree
  <1>1. ASSUME NEW c, Edited(c), "file" \in strange' <=> "file" \in strange,
               edit'.pc # "current" /\ "memory" \notin strange' => c.groupId < Sure',
               edit'.pc = "countUp" /\ "memory" \notin strange' => c.groupQty = edit'.qty
        PROVE  CurrentInv'
    <2>1. saving' # NoSave => saving'.overlap
      BY <1>1, EditedType, Counts DEF Edited, NoSave, SaveType
    <2>2. disk' = disk /\ config' = c
      BY <1>1 DEF Edited
    <2> QED
      BY <1>1, <2>1, <2>2 DEF CurrentInv
  <1>2. ASSUME NEW op, NEW pc \in {"move", "count", "fill", "countUp"}, NEW at, NEW qty,
               pc = "fill" => op = "netAdd", Begin(op, pc, at, qty)
        PROVE  CurrentInv'
    <2>1. edit'.op = op /\ edit'.pc = pc /\ edit'.qty = qty /\ edit.pc = "idle"
      BY <1>2, Counts DEF Begin
    <2>2. Sure' = config.groupQty /\ Sure = config.groupQty
      BY <1>2, <2>1 DEF Begin, Sure
    <2>3. /\ UNCHANGED <<config, saving, disk>>
          /\ "file" \in strange' <=> "file" \in strange
          /\ "memory" \notin strange' => "memory" \notin strange /\ qty = config.groupQty
      BY <1>2 DEF Begin
    <2> QED
      BY <1>2, <2>1, <2>2, <2>3 DEF CurrentInv
  <1>3. CASE EditGroup
    <2>1. edit.pc = "idle" /\ edit'.pc = "idle"
      BY <1>3, Counts DEF EditGroup
    <2>2. CASE /\ \E i \in 0 .. config.groupQty - 1, v \in Values :
                     Edited([config EXCEPT !.group[i] = v])
               /\ UNCHANGED strange
      <3>1. PICK i \in 0 .. config.groupQty - 1, v \in Values :
                   Edited([config EXCEPT !.group[i] = v])
        BY <2>2
      <3>2. i \in Slots
        BY <3>1, Counts DEF Slots
      <3>3. /\ config'.groupId = config.groupId /\ config'.groupQty = config.groupQty
            /\ config' = [config EXCEPT !.group[i] = v]
        BY <3>1, <3>2, Counts, SetGroup DEF Edited
      <3> QED
        BY <1>1, <2>1, <2>2, <3>1, <3>3 DEF CurrentInv, Sure
    <2>3. CASE \E i \in 0 .. config.groupQty - 1 : Selects(i)
      <3>1. PICK i \in 0 .. config.groupQty - 1 :
                   /\ Edited([config EXCEPT !.groupId = i])
                   /\ strange' = strange \ {"memory"}
        BY <2>3 DEF Selects
      <3>2. i \in Ids /\ i < config.groupQty
        BY <3>1, Counts DEF Ids
      <3>3. /\ config'.groupId = i /\ config'.groupQty = config.groupQty
            /\ config' = [config EXCEPT !.groupId = i]
        BY <3>1, <3>2, Counts, SetId DEF Edited
      <3> QED
        BY <1>1, <2>1, <3>1, <3>2, <3>3 DEF Sure
    <2> QED
      BY <1>3, <2>2, <2>3 DEF EditGroup
  <1>13. CASE SelectStray
    <2>1. edit'.pc = "idle"
      BY <1>13, Counts DEF SelectStray
    <2> QED
      BY <1>1, <1>13, <2>1 DEF SelectStray
  <1>4. CASE OpenSetup
    <2>1. edit'.pc = "idle" /\ saving' = NoSave /\ disk' = disk /\ config' = disk /\ disk # NoFile
      BY <1>4, Counts DEF OpenSetup
    <2>2. strange' \cap {"memory", "file"} # {} => "file" \in strange
      BY <1>4 DEF OpenSetup, Read
    <2>3. "file" \in strange => strange' = {"memory", "file"}
      BY <1>4 DEF OpenSetup, Read
    <2> QED
      BY <2>1, <2>2, <2>3 DEF CurrentInv, Sure
  <1>5. CASE BeginDelete
    BY <1>2, <1>5 DEF BeginDelete
  <1>6. CASE BeginAdd
    BY <1>2, <1>6 DEF BeginAdd
  <1>7. CASE MoveGroup
    <2>1. edit.at \in Slots /\ edit.at + 1 \in Slots /\ config.group[edit.at + 1] \in Values
      <3>1. edit.at \in 0 .. MaxGroups
        BY DEF TypeInv, TypeOK
      <3>2. edit.at \in Slots /\ edit.at + 1 \in Slots
        BY <1>7, <3>1, Counts DEF MoveGroup, Slots
      <3> QED
        BY <3>2, Counts DEF Config
    <2>2. /\ config'.groupId = config.groupId /\ config'.groupQty = config.groupQty
          /\ Edited(config') /\ strange' = strange
      BY <1>7, <2>1, Counts, SetGroup DEF MoveGroup, Edited
    <2>3. edit'.pc \in {"move", "count"}
      BY <1>7 DEF MoveGroup, TypeInv, TypeOK
    <2>4. Sure' = config.groupQty /\ Sure = config.groupQty /\ edit.pc # "current"
      BY <1>7, <2>2, <2>3 DEF MoveGroup, Sure
    <2> QED
      BY <1>1, <2>2, <2>3, <2>4 DEF CurrentInv
  <1>8. CASE CountDown
    <2>1. edit'.pc = "current"
      BY <1>8 DEF CountDown, TypeInv, TypeOK
    <2> QED
      BY <1>1, <1>8, <2>1 DEF CountDown
  <1>9. CASE EndDelete
    <2>1. config.groupQty = edit.qty - 1 /\ edit.qty > 1
      BY <1>9 DEF EndDelete, TypeInv, EditFits
    <2>2. CurrentAfterDelete(edit.op) \in Ids /\ CurrentAfterDelete(edit.op) < config.groupQty
      BY <2>1, Counts DEF CurrentAfterDelete, Ids
    <2>3. config'.groupId < config'.groupQty /\ Edited(config') /\ strange' = strange \ {"memory"}
      BY <1>9, <2>2, Counts, SetId DEF EndDelete, Selects, Edited
    <2>4. Sure' = config'.groupQty /\ edit'.pc = "idle"
      BY <1>9, Counts DEF EndDelete, Sure
    <2> QED
      BY <1>1, <2>3, <2>4
  <1>10. CASE FillGroup
    <2>1. /\ config'.groupId = config.groupId /\ config'.groupQty = config.groupQty
          /\ Edited(config') /\ strange' = strange
      BY <1>10, Counts DEF FillGroup, Edited, Config
    <2>2. /\ edit'.op = edit.op /\ edit.op \in {"menuAdd", "netAdd"} /\ edit.pc = "fill"
          /\ edit'.qty = edit.qty
          /\ edit.op = "netAdd" => config.groupQty = edit.qty
          /\ edit'.pc = IF edit.op = "menuAdd" THEN "check" ELSE "countUp"
      BY <1>10 DEF FillGroup, TypeInv, TypeOK, EditFits, Adds
    <2>3. Sure' = Sure
      BY <2>1, <2>2 DEF Sure
    <2> QED
      BY <1>1, <2>1, <2>2, <2>3 DEF CurrentInv
  <1>11. CASE CountUp
    <2>1. /\ config'.groupId = config.groupId /\ Edited(config') /\ strange' = strange
      BY <1>11, Counts DEF CountUp, Edited, Config
    <2>2. /\ edit'.op = edit.op /\ edit.op \in {"menuAdd", "netAdd"} /\ edit.pc = "countUp"
          /\ edit'.qty = edit.qty
          /\ edit'.pc = IF edit.op = "menuAdd" THEN "fill" ELSE "check"
      BY <1>11 DEF CountUp, TypeInv, TypeOK, EditFits, Adds
    <2>3. Sure' = edit.qty /\ Sure = config.groupQty
      BY <2>1, <2>2, Counts DEF Sure
    <2> QED
      BY <1>1, <2>1, <2>2, <2>3 DEF CurrentInv
  <1>12. CASE EndAdd
    <2>1. edit.pc = "check" /\ edit'.pc = "idle" /\ config.groupQty = edit.qty + 1
      BY <1>12, Counts DEF EndAdd, TypeInv, EditFits
    <2>2. CASE Edited([config EXCEPT !.groupQty = edit.qty]) /\ UNCHANGED strange
      <3>1. config'.groupId = config.groupId /\ config'.groupQty = edit.qty /\ Edited(config')
        BY <2>2, Counts DEF Edited, Config
      <3>2. Sure' = Sure
        BY <2>1, <3>1 DEF Sure
      <3> QED
        BY <1>1, <2>1, <2>2, <3>1, <3>2 DEF CurrentInv
    <2>3. CASE Selects(edit.qty)
      <3>1. /\ config'.groupId = edit.qty /\ config'.groupQty = config.groupQty
            /\ Edited(config') /\ strange' = strange \ {"memory"}
        BY <2>3, Counts DEF Selects, Edited, Config
      <3>2. config'.groupId < Sure'
        BY <2>1, <3>1, Counts DEF Sure
      <3> QED
        BY <1>1, <2>1, <3>1, <3>2
    <2> QED
      BY <1>12, <2>2, <2>3 DEF EndAdd
  <1> QED
    BY <1>3, <1>4, <1>5, <1>6, <1>7, <1>8, <1>9, <1>10, <1>11, <1>12, <1>13

LEMMA CurrentSaves ==
  ASSUME TypeInv, CurrentInv, SaveByMenu \/ SaveByKey \/ WritePart \/ EndSave
  PROVE  CurrentInv'
  <1>1. CASE SaveByMenu \/ SaveByKey
    <2>1. PICK by \in {"menu", "key"} : BeginSave(by)
      BY <1>1 DEF SaveByMenu, SaveByKey
    <2>2. UNCHANGED <<config, edit, disk, strange>>
      BY <2>1 DEF BeginSave, pastVars
    <2>3. /\ saving'.next = 0 /\ saving'.overlap = (edit # NoEdit)
          /\ saving'.cache = IF disk = NoFile THEN Default ELSE disk
      BY <2>1 DEF BeginSave
    <2>4. Sure' = Sure
      BY <2>2 DEF Sure
    <2>5. saving'.cache.groupId < saving'.cache.groupQty \/ "file" \in strange
      BY <2>3, DefaultType DEF CurrentInv
    <2>6. ~saving'.overlap => edit'.pc = "idle"
      BY <2>2, <2>3, Counts
    <2>7. ~(saving'.next > 0)
      BY <2>3
    <2> QED
      BY <2>2, <2>4, <2>5, <2>6, <2>7 DEF CurrentInv
  <1>2. CASE WritePart
    <2>1. UNCHANGED <<config, edit, disk, strange>>
      BY <1>2 DEF WritePart, ramVars, pastVars
    <2>2. Sure' = Sure
      BY <2>1 DEF Sure
    <2>3. saving'.overlap = saving.overlap
      BY <1>2, Counts DEF WritePart, SaveType
    <2>4. saving.next # 0 => /\ saving'.cache.groupId = saving.cache.groupId
                             /\ saving'.cache.groupQty = saving.cache.groupQty
                             /\ saving.next > 0
      BY <1>2, Counts DEF WritePart, SaveType, Config
    <2>5. saving.next = 0 => /\ saving'.cache.groupId = config.groupId
                             /\ saving'.cache.groupQty = config.groupQty
      BY <1>2, Counts DEF WritePart, SaveType, Config
    <2>6. saving # NoSave
      BY <1>2 DEF WritePart
    <2>7. ~saving.overlap /\ "memory" \notin strange => config.groupId < config.groupQty
      BY <2>6, Counts DEF CurrentInv, Ids
    <2> QED
      BY <2>1, <2>2, <2>3, <2>4, <2>5, <2>6, <2>7 DEF CurrentInv
  <1>3. CASE EndSave
    <2>1. UNCHANGED <<config, edit>> /\ saving' = NoSave /\ strange' = Written /\ disk' = Cache
      BY <1>3 DEF EndSave, ramVars
    <2>2. saving # NoSave /\ saving.next > 0
      BY <1>3, ConfigAssumption DEF EndSave, NoSave
    <2>3. "memory" \notin strange' => "memory" \notin strange
      BY <2>1 DEF Written
    <2>4. "file" \notin strange' => saving.cache.groupId < saving.cache.groupQty
      BY <2>1, <2>2 DEF Written, CurrentInv
    <2>5. Cache # NoFile => Cache = saving.cache
      BY CacheType DEF TypeInv
    <2>6. Sure' = Sure
      BY <2>1 DEF Sure
    <2> QED
      BY <2>1, <2>3, <2>4, <2>5, <2>6 DEF CurrentInv
  <1> QED
    BY <1>1, <1>2, <1>3

LEMMA CurrentStep == TypeInv /\ CurrentInv /\ [Next]_vars => CurrentInv'
  <1> SUFFICES ASSUME TypeInv, CurrentInv, [Next]_vars PROVE CurrentInv'
    OBVIOUS
  <1>1. CASE UNCHANGED vars
    BY <1>1 DEF vars, ramVars, pastVars, CurrentInv, Sure
  <1> QED
    BY <1>1, TypeStep, CurrentEnds, CurrentEdits, CurrentSaves DEF Next

\* Between edits the current group is one of those in use, in what the additions and
\* removals of the menus and of the PC leave, and in what MainInit takes at the start:
\* but for the four ways to another one that CurrentExists names.
THEOREM CurrentGroup == Spec => []CurrentExists
  <1>1. TypeInv /\ CurrentInv => CurrentExists
    BY Counts DEF CurrentInv, CurrentExists, Sure
  <1> QED
    BY <1>1, TypeInit, TypeStep, CurrentInit, CurrentStep, PTL DEF Spec

-----------------------------------------------------------------------------
(* What a program starts with *)

LEMMA WholeInit == Init => WholeInv
  <1> SUFFICES ASSUME Init PROVE WholeInv
    OBVIOUS
  <1>1. IF disk = NoFile THEN lastSaved = Default ELSE lastSaved = disk
    BY DefaultType, ConfigAssumption DEF Init
  <1>2. power = "off" /\ saving = NoSave
    BY DEF Init
  <1> QED
    BY <1>1, <1>2 DEF WholeInv

LEMMA SameConfig ==
  ASSUME NEW c \in Config, NEW d \in Config,
         c.groupId = d.groupId, c.groupQty = d.groupQty,
         \A i \in Slots : c.group[i] = d.group[i]
  PROVE  c = d
  <1>1. c.group = d.group
    BY DEF Config
  <1> QED
    BY <1>1 DEF Config

\* A slot beyond the groups is not in use.
LEMMA BeyondUse ==
  ASSUME NEW c \in Config, NEW i \in Slots, i >= c.groupQty, NEW v \in Values
  PROVE  InUse([c EXCEPT !.group[i] = v]) = InUse(c)
  <1> DEFINE d == [c EXCEPT !.group[i] = v]
  <1>1. d.groupId = c.groupId /\ d.groupQty = c.groupQty /\ c.groupQty \in 1 .. MaxGroups
    BY SetGroup DEF Config
  <1>2. \A j \in 0 .. c.groupQty - 1 : d.group[j] = c.group[j]
    <2> TAKE j \in 0 .. c.groupQty - 1
    <2>1. j \in Slots /\ j # i
      BY <1>1, ConfigAssumption DEF Slots
    <2> QED
      BY <2>1, SetGroup
  <1>3. [j \in 0 .. d.groupQty - 1 |-> d.group[j]] = [j \in 0 .. c.groupQty - 1 |-> c.group[j]]
    <2> HIDE DEF d
    <2> QED
      BY <1>1, <1>2
  <1> HIDE DEF d
  <1>4. InUse(d) = InUse(c)
    BY <1>1, <1>3 DEF InUse
  <1> QED
    BY <1>4 DEF d

LEMMA WholeEnds ==
  ASSUME TypeInv, WholeInv, Start \/ PowerCut \/ MoveAsserts \/ FillAsserts \/ Fails
  PROVE  WholeInv'
  <1>1. CASE Start
    <2>1. saving' = NoSave /\ work' = config' /\ UNCHANGED <<disk, spoilt, lastSaved>>
      BY <1>1 DEF Start, TypeInv, EndsFit
    <2> QED
      BY <2>1 DEF WholeInv
  <1>2. ASSUME CutShort, saving' = NoSave, lastSaved' = lastSaved,
               saving = NoSave => disk' = disk
        PROVE  ~spoilt' => IF disk' = NoFile THEN lastSaved' = Default ELSE lastSaved' = disk'
    BY <1>2 DEF CutShort, WholeInv
  <1>3. CASE PowerCut
    <2>1. power' = "off"
      BY <1>3 DEF PowerCut
    <2>2. CutShort /\ saving' = NoSave /\ lastSaved' = lastSaved /\ (saving = NoSave => disk' = disk)
      BY <1>3 DEF PowerCut
    <2> QED
      BY <1>2, <2>1, <2>2 DEF WholeInv
  <1>4. CASE MoveAsserts \/ FillAsserts \/ Fails
    <2>1. PICK mark \in BOOLEAN : Abort(mark) /\ power = "running"
      BY <1>4 DEF MoveAsserts, FillAsserts, Fails, TypeInv, TypeOK
    <2>2. UNCHANGED <<config, edit, work>>
      BY <2>1 DEF Abort
    <2>3. CutShort /\ saving' = NoSave /\ lastSaved' = lastSaved /\ (saving = NoSave => disk' = disk)
      BY <2>1 DEF Abort
    <2> QED
      BY <1>2, <2>1, <2>2, <2>3 DEF WholeInv
  <1> QED
    BY <1>1, <1>3, <1>4

LEMMA WholeEdits ==
  ASSUME TypeInv, WholeInv, TypeInv',
         \/ EditGroup \/ SelectStray \/ OpenSetup \/ BeginDelete \/ BeginAdd
         \/ MoveGroup \/ CountDown \/ EndDelete \/ FillGroup \/ CountUp \/ EndAdd
  PROVE  WholeInv'
  <1> USE DEF MayEdit, LockFree
  <1>1. ASSUME NEW c, Edited(c), ~Half(edit') => InUse(config') = InUse(work')
        PROVE  WholeInv'
    <2>1. saving' # NoSave => saving'.overlap
      BY <1>1, Counts DEF Edited, NoSave, SaveType
    <2>2. UNCHANGED <<disk, spoilt, lastSaved>>
      BY <1>1 DEF Edited
    <2> QED
      BY <1>1, <2>1, <2>2 DEF WholeInv
  <1>2. ASSUME NEW op, NEW pc, NEW at, NEW qty, Begin(op, pc, at, qty)
        PROVE  WholeInv'
    <2>1. UNCHANGED <<config, work, saving, disk, spoilt, lastSaved>> /\ edit = NoEdit
      BY <1>2 DEF Begin
    <2>2. power = "running" /\ InUse(config) = InUse(work)
      BY <1>2, <2>1 DEF Begin, WholeInv, Half, NoEdit
    <2> QED
      BY <2>1, <2>2 DEF WholeInv
  <1>3. CASE EditGroup \/ SelectStray
    BY <1>1, <1>3 DEF EditGroup, SelectStray, Selects
  <1>4. CASE OpenSetup
    <2>1. saving' = NoSave /\ work' = config' /\ UNCHANGED <<disk, spoilt, lastSaved>>
      BY <1>4 DEF OpenSetup
    <2> QED
      BY <2>1 DEF WholeInv
  <1>5. CASE BeginDelete \/ BeginAdd
    BY <1>2, <1>5 DEF BeginDelete, BeginAdd
  <1>6. CASE EndDelete \/ EndAdd
    BY <1>1, <1>6 DEF EndDelete, EndAdd, Selects
  <1>7. CASE MoveGroup \/ CountDown \/ CountUp
    <2>1. Half(edit')
      <3>1. CASE MoveGroup
        <4>1. edit'.op = edit.op
          BY <3>1 DEF MoveGroup, TypeInv, TypeOK
        <4> QED
          BY <3>1, <4>1 DEF MoveGroup, TypeInv, EditFits, Half
      <3>2. CASE CountDown
        BY <3>2 DEF CountDown, TypeInv, TypeOK, Half
      <3>3. CASE CountUp
        <4>1. edit'.op = edit.op /\ edit'.pc = IF edit.op = "menuAdd" THEN "fill" ELSE "check"
          BY <3>3 DEF CountUp, TypeInv, TypeOK
        <4> QED
          BY <4>1 DEF Half
      <3> QED
        BY <1>7, <3>1, <3>2, <3>3
    <2> QED
      BY <1>1, <1>7, <2>1 DEF MoveGroup, CountDown, CountUp
  <1>8. CASE FillGroup
    <2>1. /\ edit'.op = edit.op /\ edit'.pc = IF edit.op = "menuAdd" THEN "check" ELSE "countUp"
          /\ edit.op \in Adds /\ edit.pc = "fill" /\ work' = work /\ power = "running"
      BY <1>8 DEF FillGroup, TypeInv, TypeOK, EditFits
    <2>2. CASE edit.op = "menuAdd"
      BY <1>1, <1>8, <2>1, <2>2 DEF FillGroup, Half
    <2>3. CASE edit.op = "netAdd"
      <3> DEFINE v == IF edit.at < edit.qty THEN config.group[edit.at] ELSE Blank
      <3>1. edit.qty \in Slots /\ edit.qty = config.groupQty /\ edit.at \in 0 .. MaxGroups
        BY <1>8, <2>3, Counts DEF FillGroup, TypeInv, TypeOK, EditFits, Slots
      <3>2. v \in Values
        BY <3>1, Counts, ConfigAssumption DEF Config, Slots
      <3>3. Edited([config EXCEPT !.group[edit.qty] = v])
        BY <1>8 DEF FillGroup
      <3> HIDE DEF v
      <3>4. InUse(config') = InUse(config)
        <4>1. config' = [config EXCEPT !.group[edit.qty] = v]
          BY <3>3 DEF Edited
        <4> QED
          BY <3>1, <3>2, <4>1, Counts, BeyondUse DEF Slots
      <3>5. InUse(config) = InUse(work)
        BY <2>1, <2>3 DEF WholeInv, Half
      <3> QED
        BY <1>1, <2>1, <3>3, <3>4, <3>5
    <2> QED
      BY <2>1, <2>2, <2>3 DEF Adds
  <1> QED
    BY <1>3, <1>4, <1>5, <1>6, <1>7, <1>8

LEMMA WholeSaves ==
  ASSUME TypeInv, WholeInv, SaveByMenu \/ SaveByKey \/ WritePart \/ EndSave
  PROVE  WholeInv'
  <1>1. CASE SaveByMenu \/ SaveByKey
    <2>1. PICK by \in {"menu", "key"} : BeginSave(by)
      BY <1>1 DEF SaveByMenu, SaveByKey
    <2>2. UNCHANGED <<power, config, edit, work, disk, spoilt, lastSaved>>
      BY <2>1 DEF BeginSave, pastVars
    <2>3. saving'.next = 0 /\ saving'.was = config
      BY <2>1 DEF BeginSave
    <2> QED
      BY <2>2, <2>3 DEF WholeInv, Slots
  <1>2. CASE WritePart
    <2>1. UNCHANGED <<power, config, edit, work, disk, spoilt, lastSaved>> /\ saving # NoSave
      BY <1>2 DEF WritePart, ramVars, pastVars
    <2>2. /\ saving'.overlap = saving.overlap /\ saving'.was = saving.was
          /\ saving'.next = saving.next + 1 /\ saving.next \in 0 .. MaxGroups
      BY <1>2, Counts DEF WritePart, SaveType
    <2>3. saving.next = 0 => /\ saving'.cache.groupId = config.groupId
                             /\ saving'.cache.groupQty = config.groupQty
      BY <1>2, Counts DEF WritePart, SaveType, Config
    <2>4. saving.next # 0 =>
            /\ saving'.cache.groupId = saving.cache.groupId
            /\ saving'.cache.groupQty = saving.cache.groupQty
            /\ \A i \in Slots : saving'.cache.group[i] =
                  IF i = saving.next - 1 THEN config.group[i] ELSE saving.cache.group[i]
      <3>1. SUFFICES ASSUME saving.next # 0
                     PROVE  /\ saving'.cache.groupId = saving.cache.groupId
                            /\ saving'.cache.groupQty = saving.cache.groupQty
                            /\ \A i \in Slots : saving'.cache.group[i] =
                                  IF i = saving.next - 1 THEN config.group[i]
                                  ELSE saving.cache.group[i]
        OBVIOUS
      <3>2. saving.next - 1 \in Slots
        BY <2>2, <3>1, ConfigAssumption DEF Slots
      <3>3. config.group[saving.next - 1] \in Values
        BY <3>2, Counts DEF Config
      <3>4. saving'.cache = [saving.cache EXCEPT !.group[saving.next - 1] =
                                                   config.group[saving.next - 1]]
        BY <1>2, <3>1, Counts DEF WritePart, SaveType
      <3> QED
        BY <3>2, <3>3, <3>4, Counts, SetGroup
    <2>5. ~saving.overlap => \A i \in Slots : i < saving'.next - 1 =>
                               saving'.cache.group[i] = config.group[i]
      <3>1. SUFFICES ASSUME ~saving.overlap, NEW i \in Slots, i < saving'.next - 1
                     PROVE  saving'.cache.group[i] = config.group[i]
        OBVIOUS
      <3>2. saving.next # 0 /\ (i = saving.next - 1 \/ i < saving.next - 1)
        BY <2>2, <3>1 DEF Slots
      <3> QED
        BY <2>1, <2>4, <3>1, <3>2 DEF WholeInv
    <2>6. ~saving.overlap => /\ saving'.cache.groupId = config.groupId
                             /\ saving'.cache.groupQty = config.groupQty
      BY <2>1, <2>2, <2>3, <2>4 DEF WholeInv
    <2> QED
      BY <2>1, <2>2, <2>5, <2>6 DEF WholeInv
  <1>3. CASE EndSave
    <2>1. /\ UNCHANGED <<power, config, edit, work>> /\ saving' = NoSave
          /\ disk' = Cache /\ spoilt' = saving.overlap /\ lastSaved' = saving.was
      BY <1>3 DEF EndSave, ramVars
    <2>2. saving.next = MaxGroups + 1 /\ saving # NoSave /\ MaxGroups \in Nat
      BY <1>3, ConfigAssumption DEF EndSave, NoSave
    <2>3. Cache = saving.cache /\ Cache # NoFile
      BY <2>2, Counts, DefaultType DEF Cache
    <2>4. ~saving.overlap => saving.cache = config
      <3>1. SUFFICES ASSUME ~saving.overlap PROVE saving.cache = config
        OBVIOUS
      <3>2. \A i \in Slots : i < saving.next - 1
        BY <2>2 DEF Slots
      <3> QED
        BY <2>2, <3>1, <3>2, Counts, SameConfig DEF WholeInv
    <2>5. ~spoilt' => lastSaved' = disk'
      BY <2>1, <2>2, <2>3, <2>4 DEF WholeInv
    <2> QED
      BY <2>1, <2>3, <2>5 DEF WholeInv
  <1> QED
    BY <1>1, <1>2, <1>3

LEMMA WholeStep == TypeInv /\ WholeInv /\ [Next]_vars => WholeInv'
  <1> SUFFICES ASSUME TypeInv, WholeInv, [Next]_vars PROVE WholeInv'
    OBVIOUS
  <1>1. CASE UNCHANGED vars
    BY <1>1 DEF vars, ramVars, pastVars, WholeInv
  <1> QED
    BY <1>1, TypeStep, WholeEnds, WholeEdits, WholeSaves DEF Next

\* The program is started by Start alone.
LEMMA OnlyStart ==
  ASSUME Next, power # "running", power' = "running"
  PROVE  Start
  BY DEF Next, PowerCut, Fails, Abort, EditGroup, SelectStray, OpenSetup, BeginDelete,
         MoveGroup, MoveAsserts, CountDown,
         EndDelete, BeginAdd, FillGroup, FillAsserts, CountUp, EndAdd, SaveByMenu, SaveByKey,
         WritePart, EndSave, BeginSave, Begin, MayEdit, LockFree

\* What a program starts with is the work of the last one, or the last save: but for an
\* addition, a removal or a save that the end has come across.
THEOREM WholeStarts == Spec => StartsWhole
  <1>1. TypeInv /\ WholeInv /\ [Next]_vars =>
          [power # "running" /\ power' = "running" =>
             IF cfgEnd THEN Half(edit) \/ InUse(config') = InUse(work)
             ELSE spoilt \/ InUse(config') = InUse(lastSaved)]_vars
    <2> SUFFICES ASSUME TypeInv, WholeInv, Next, power # "running", power' = "running"
                 PROVE  IF cfgEnd THEN Half(edit) \/ InUse(config') = InUse(work)
                        ELSE spoilt \/ InUse(config') = InUse(lastSaved)
      OBVIOUS
    <2>1. Start
      BY OnlyStart
    <2>2. CASE cfgEnd
      <3>1. power = "failed"
        BY <2>2 DEF TypeInv, TypeOK, EndsFit
      <3>2. Half(edit) \/ InUse(config) = InUse(work)
        BY <3>1 DEF WholeInv
      <3> QED
        BY <2>1, <2>2, <3>2 DEF Start
    <2>3. CASE ~cfgEnd
      BY <2>1, <2>3 DEF Start, WholeInv
    <2> QED
      BY <2>2, <2>3
  <1> QED
    BY <1>1, TypeInit, TypeStep, WholeInit, WholeStep, PTL DEF Spec, StartsWhole
=============================================================================

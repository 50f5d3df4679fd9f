------------------------------- MODULE Groups -------------------------------
(***************************************************************************)
(* The inspection groups and everyone who adds, removes, selects or edits  *)
(* them: the group wizard and the focal law wizard, which share one        *)
(* working copy, the group menu, a click on the display, and the commands  *)
(* of a PC.  A question to the user (gtk_dialog_run) gives up the GDK      *)
(* lock, so a command of the PC may run between the question and what its  *)
(* answer does; no other callback may.  Of what the menus and the PC set   *)
(* in a group there is the number of beams and the choice of a probe; what *)
(* else they set, and the opening of a setup file, is left out.            *)
(***************************************************************************)
EXTENDS Integers, FiniteSets

CONSTANTS MaxGroups,    \* groups that config has room for (8)
          Beams,        \* beam counts a focal law may ask for
          GroupBeams,   \* beams one group may have (256)
          TotalBeams,   \* beams all groups may have together (1024)
          Owners,       \* names for groups, one more than fit
          NoOwner,      \* the name of what is not a group
          NetOverlaps   \* a command of the PC may come under an open wizard or question

ASSUME GroupsAssumption == /\ MaxGroups \in Nat \ {0, 1}
                           /\ NoOwner \notin Owners
                           /\ NetOverlaps \in BOOLEAN
                           /\ 1 \in Beams
                           /\ Beams \subseteq Nat
                           /\ GroupBeams \in Nat \ {0}
                           /\ TotalBeams \in Nat \ {0}

VARIABLES group,          \* config.group
          groupQty,       \* config.groupQty
          groupId,        \* config.groupId
          laws,           \* what the focal law of each group was computed from
          names,          \* gGroupData: do the names of probe and wedge in a slot
                          \* belong to the group in it
          step,           \* step of the group wizard
          lastPopPos,     \* its choice of a group; groupQty is ADD
          wgroup_pos,     \* the group it edits
          tmpGroup,       \* g_tmp_group_struct, the working copy of both wizards
          tmpNames,       \* gData->tmpGroupData: do its names belong to the working copy
          lawStep,        \* step of the focal law wizard
          lawPopPos,      \* its choice of a group
          dialog,         \* the question on screen, with what its caller remembers
          asserted,       \* an assertion of the program has failed: it is gone
          roster,         \* history: who should be in config.group, in order
          stray           \* history: what was selected last was no group in use

config == <<group, groupQty, groupId, laws, names>>
work == <<wgroup_pos, tmpGroup, tmpNames, lawPopPos>>
wizard == <<step, lastPopPos, wgroup_pos, tmpGroup, tmpNames>>
lawWizard == <<lawStep, lawPopPos>>
history == <<roster, stray>>
vars == <<config, wizard, lawWizard, dialog, asserted, history>>

(***************************************************************************)
(* What a group's configuration is here: whose it is (a name given when it *)
(* is added, which no code reads), whether it is phased array, and the     *)
(* beams its focal law asks for.  EDIT stands for the steps MATERIAL to    *)
(* POSITION, and for LAW_CONFIGURATION to BEAM_ANGLE.  What a slot beyond  *)
(* the groups in use holds is left out: Unused.  It is overwritten before  *)
(* it is read, but for a choice of the wizard that is out of date.  A      *)
(* number that is past the slots stands for every byte that is; what the   *)
(* code reads or writes there is left out.                                 *)
(***************************************************************************)
Slots == 0 .. MaxGroups - 1
Ids == 0 .. MaxGroups
Group == [owner : Owners \cup {NoOwner}, mode : {"PA", "UT"}, beams : Beams]
Step == {"START", "GROUP_SELECT", "ADD", "EDIT", "FINISH"}
LawStep == {"START", "GROUP_SELECT", "EDIT", "GENERATE"}
NoDialog == [kind |-> "none", arg |-> 0]

Blank(o) == [owner |-> o, mode |-> "PA", beams |-> 1]
Unused == Blank(NoOwner)
CopyOf(g, o) == [g EXCEPT !.owner = o]

\* GetGroupBeamQty
BeamQty(g) == IF g.mode = "PA" THEN g.beams ELSE 1

\* The beams of the first n groups: group i has as many as BeamQty says.
AllBeams(grp, n) == UNION {{i} \X (1 .. BeamQty(grp[i])) : i \in 0 .. n - 1}

\* get_beam_qty
TotalBeamQty(grp, n) == Cardinality(AllBeams(grp, n))

\* Faulty variant: the beams of all groups together are not looked at.
UnavailableEach(grp, n) == \E i \in 0 .. n - 1 : BeamQty(grp[i]) > GroupBeams

\* CheckGroupConfigureAvailable; the limits on data size and PRF grow with the
\* beams of all groups as the last one does.
Unavailable(grp, n) == \/ \E i \in 0 .. n - 1 : BeamQty(grp[i]) > GroupBeams
                       \/ TotalBeamQty(grp, n) > TotalBeams

\* What generate_focallaw computes a law from.  The probe itself is left out, and so is
\* that the choice of an unknown one keeps the law of the last.
LawOf(g) == [mode |-> g.mode, beams |-> g.beams]

\* UTgroupConfigSetting: a conventional group has one beam.
UTgroup(g) == IF g.mode = "PA" THEN g ELSE [g EXCEPT !.beams = 1]

\* What is left of f, which has n entries in use, without entry i
Without(f, n, i, none) ==
    [j \in Slots |-> IF j < i THEN f[j] ELSE IF j < n - 1 THEN f[j + 1] ELSE none]

\* Faulty variant: the groups after the one removed stay, but for the last.
WithoutGroupShort(i) == Without(group, groupQty, i + 1, Unused)

WithoutGroup(i) == Without(group, groupQty, i, Unused)

\* Faulty variant: the laws are not computed again.
LawsAfterDeleteStale(i) == Without(laws, groupQty, groupQty - 1, LawOf(Unused))

\* The groups that moved get new laws.
LawsAfterDelete(i) == [j \in Slots |-> IF j < i THEN laws[j] ELSE LawOf(WithoutGroup(i)[j])]

\* The names stay where they are when the groups behind entry i move up.
NamesWithout(i) == [j \in Slots |-> j < i /\ names[j]]

\* Faulty variant: off by one.
LastAfterDeleteOff(qty) == qty - 1

\* The last group, when one of qty has been removed
LastAfterDelete(qty) == qty - 2

\* A name no group and no working copy has
Fresh == Owners \ ({tmpGroup.owner} \cup {group[i].owner : i \in Slots}
                    \cup {roster[i] : i \in Slots})

(***************************************************************************)
(* What drawing the third menu does to the wizard's choice of a group:     *)
(* wizardGroup_group_select_update.                                        *)
(***************************************************************************)
GroupShown(pos, qty) == IF pos > qty + 1 THEN 0 ELSE pos
DrawMenu3 == lastPopPos' = IF step = "GROUP_SELECT" THEN GroupShown(lastPopPos, groupQty')
                           ELSE lastPopPos

\* The groups the focal law wizard offers, wizardFocallaw_group_select_update
PAGroups == {i \in 0 .. groupQty - 1 : group[i].mode = "PA"}

\* The working data of the wizards is set before it is read when one is opened
\* again, so a closed wizard has none here.
DropWork == wgroup_pos' = 0 /\ tmpGroup' = Unused /\ tmpNames' = FALSE /\ lawPopPos' = 0

-----------------------------------------------------------------------------
Init ==
    /\ \E o \in Owners :
         /\ group = [i \in Slots |-> IF i = 0 THEN Blank(o) ELSE Unused]
         /\ roster = [i \in Slots |-> IF i = 0 THEN o ELSE NoOwner]
    /\ groupQty = 1
    /\ groupId = 0
    /\ laws = [i \in Slots |-> LawOf(Unused)]
    /\ names = [i \in Slots |-> i = 0]
    /\ step = "START"
    /\ lastPopPos = 0
    /\ wgroup_pos = 0
    /\ tmpGroup = Unused
    /\ tmpNames = FALSE
    /\ lawStep = "START"
    /\ lawPopPos = 0
    /\ dialog = NoDialog
    /\ asserted = FALSE
    /\ stray = FALSE

(***************************************************************************)
(* The user acts only while no question is on screen, on a menu that is    *)
(* not greyed out: an open wizard greys the other wizard and all menus.    *)
(***************************************************************************)
UserActs == dialog = NoDialog /\ ~asserted
AtMenus == UserActs /\ step = "START" /\ lawStep = "START"
InGroupWizard == UserActs /\ lawStep = "START"
InLawWizard == UserActs /\ step = "START"

-----------------------------------------------------------------------------
(* The group wizard *)

OpenGroupWizard ==
    /\ InGroupWizard /\ step = "START"
    /\ step' = "GROUP_SELECT"
    /\ lastPopPos' = GroupShown(lastPopPos, groupQty)
    /\ UNCHANGED <<config, wgroup_pos, tmpGroup, tmpNames, lawWizard, dialog, asserted, history>>

\* Faulty variant: ADD is always offered.
GroupsOfferedAlways == 0 .. groupQty

\* What can be chosen: a group, or ADD unless all groups are in use
GroupsOffered == {pos \in 0 .. groupQty : pos < MaxGroups}
ChooseGroup ==
    /\ InGroupWizard /\ step = "GROUP_SELECT"
    /\ lastPopPos' \in GroupsOffered
    /\ UNCHANGED <<config, step, wgroup_pos, tmpGroup, tmpNames, lawWizard, dialog, asserted, history>>

\* Faulty variant: the position is not taken.
SelectForEditStale ==
    /\ InGroupWizard /\ step = "GROUP_SELECT"
    /\ lastPopPos # groupQty
    /\ tmpGroup' = group[lastPopPos] /\ tmpNames' = names[lastPopPos]
    /\ step' = "EDIT"
    /\ UNCHANGED <<config, lastPopPos, wgroup_pos, lawWizard, dialog, asserted, history>>

\* wizardGroupHandler_group_select
SelectForEdit ==
    /\ InGroupWizard /\ step = "GROUP_SELECT"
    /\ lastPopPos # groupQty
    /\ tmpGroup' = group[lastPopPos] /\ tmpNames' = names[lastPopPos]
    /\ wgroup_pos' = lastPopPos
    /\ step' = "EDIT"
    /\ UNCHANGED <<config, lastPopPos, lawWizard, dialog, asserted, history>>

SelectAdd ==
    /\ InGroupWizard /\ step = "GROUP_SELECT"
    /\ lastPopPos = groupQty
    /\ wgroup_pos' = lastPopPos
    /\ step' = "ADD"
    /\ UNCHANGED <<config, lastPopPos, tmpGroup, tmpNames, lawWizard, dialog, asserted, history>>

\* The groups with one more, a copy of group index or blank, at position qty
WithNew(qty, index, o) ==
    [group EXCEPT ![qty] = IF index < qty THEN CopyOf(group[index], o) ELSE Blank(o)]

\* wizardGroup_next_press after the handler: with the new number of groups the
\* wizard goes on when the source was "blank", and also when the copy of the last
\* group was refused.
AfterAdd(index, qty) == IF index + 1 = qty THEN "EDIT" ELSE "START"

\* A new group o in use at position qty, current, with its law; its names are as
\* they happen to be, but for what the wizard copies.
NewGroup(grp, qty, o) ==
    /\ group' = grp
    /\ groupQty' = qty + 1
    /\ groupId' = qty
    /\ laws' = [laws EXCEPT ![qty] = LawOf(grp[qty])]
    /\ roster' = [roster EXCEPT ![qty] = o]
    /\ stray' = FALSE

\* wizardGroupHandler_addGroup with the source chosen: a group, or groupQty for "blank",
\* which gets the names of group 0.
AddGroup(index) ==
    /\ InGroupWizard /\ step = "ADD"
    /\ groupQty < MaxGroups
    /\ \E o \in Fresh :
         LET grp == WithNew(groupQty, index, o)
         IN /\ ~Unavailable(grp, groupQty + 1)
            /\ NewGroup(grp, groupQty, o)
            /\ names' = [names EXCEPT ![groupQty] = index < groupQty /\ names[index]]
            /\ step' = AfterAdd(index, groupQty + 1)
            /\ IF step' = "EDIT"
               THEN /\ tmpGroup' = grp[groupQty] /\ tmpNames' = names'[groupQty]
                    /\ wgroup_pos' = groupQty /\ UNCHANGED lawPopPos
               ELSE DropWork
    /\ UNCHANGED <<lastPopPos, lawStep, dialog, asserted>>

\* assert(_nGroupQty < 8), or a limit is passed; the working copy is then what the
\* last wizard left in it.
AddGroupRefused(index) ==
    /\ InGroupWizard /\ step = "ADD"
    /\ IF groupQty = MaxGroups
       THEN asserted' = TRUE /\ UNCHANGED wizard /\ UNCHANGED lawPopPos
       ELSE /\ Unavailable(WithNew(groupQty, index, NoOwner), groupQty + 1)
            /\ step' = AfterAdd(index, groupQty)
            /\ IF step' = "EDIT"
               THEN /\ \E mode \in {"PA", "UT"} : tmpGroup' = [Unused EXCEPT !.mode = mode]
                    /\ tmpNames' \in BOOLEAN
                    /\ UNCHANGED <<wgroup_pos, lawPopPos>>
               ELSE DropWork
            /\ UNCHANGED asserted
    /\ UNCHANGED <<config, lastPopPos, lawStep, dialog, history>>

\* wizardHandlerGroup_group_mode, _geometry and the choice of a probe (da_call_probe),
\* which may leave a law with more beams than before
EditGroup ==
    /\ InGroupWizard /\ step = "EDIT"
    /\ \/ /\ tmpGroup' = [tmpGroup EXCEPT !.mode = IF @ = "PA" THEN "UT" ELSE "PA", !.beams = 1]
          /\ UNCHANGED tmpNames
       \/ /\ \E b \in Beams : tmpGroup' = [tmpGroup EXCEPT !.beams = b]
          /\ tmpNames' \in {tmpNames, TRUE}
    /\ UNCHANGED <<config, step, lastPopPos, wgroup_pos, lawWizard, dialog, asserted, history>>

EditDone ==
    /\ InGroupWizard /\ step = "EDIT"
    /\ step' = "FINISH"
    /\ UNCHANGED <<config, lastPopPos, wgroup_pos, tmpGroup, tmpNames, lawWizard, dialog, asserted, history>>

\* wizardGroup_back_press; ADD and the first step of EDIT have no way back.
Back ==
    /\ InGroupWizard /\ step \in {"GROUP_SELECT", "FINISH"}
    /\ step' = IF step = "FINISH" THEN "EDIT" ELSE "START"
    /\ UNCHANGED <<config, lastPopPos, wgroup_pos, tmpGroup, tmpNames, lawWizard, dialog, asserted, history>>

\* wizardGroupHandler_finish: no limit is checked again.
Finish ==
    /\ IF wgroup_pos < groupQty
       THEN LET new == UTgroup(tmpGroup)
            IN /\ group' = [group EXCEPT ![wgroup_pos] = new]
               /\ laws' = [laws EXCEPT ![wgroup_pos] = LawOf(new)]
               /\ names' = [names EXCEPT ![wgroup_pos] = tmpNames]
       ELSE UNCHANGED <<group, laws, names>>
    /\ groupId' = wgroup_pos
    /\ stray' = (wgroup_pos >= groupQty)
    /\ step' = "START"
    /\ UNCHANGED <<groupQty, lastPopPos, dialog, asserted, roster>>

FinishWizard ==
    /\ InGroupWizard /\ step = "FINISH"
    /\ Finish
    /\ DropWork
    /\ UNCHANGED lawStep

\* The key that goes on with the focal law: finish, then wizardHandlerGroup_continue
ContinueWithLaw ==
    /\ InGroupWizard /\ step = "FINISH"
    /\ tmpGroup.mode = "PA"
    /\ Finish
    /\ lawStep' = "EDIT"
    /\ lawPopPos' = lastPopPos
    /\ wgroup_pos' = 0 /\ tmpNames' = FALSE /\ UNCHANGED tmpGroup

\* wizardGroup_group_delete_press
AskDelete ==
    /\ InGroupWizard /\ step = "GROUP_SELECT"
    /\ groupQty > 1 /\ lastPopPos < groupQty
    /\ dialog' = [kind |-> "delete", arg |-> lastPopPos]
    /\ UNCHANGED <<config, wizard, lawWizard, asserted, history>>

\* wizardGroupHandler_DeleteGroup, and the menu drawn after it
DeleteGroup ==
    /\ dialog.kind = "delete" /\ ~asserted
    /\ dialog' = NoDialog
    /\ IF groupQty = 1
       THEN UNCHANGED <<config, history>>
       ELSE /\ group' = WithoutGroup(dialog.arg)
            /\ laws' = LawsAfterDelete(dialog.arg)
            /\ names' = NamesWithout(dialog.arg)
            /\ groupQty' = groupQty - 1
            /\ groupId' = 0
            /\ roster' = Without(roster, groupQty, dialog.arg, NoOwner)
            /\ stray' = FALSE
    /\ DrawMenu3
    /\ UNCHANGED <<step, work, lawStep, asserted>>

\* Escape, KeyResponseForEsc: both wizards start again.
Escape ==
    /\ UserActs
    /\ step # "START" \/ lawStep # "START"
    /\ step' = "START"
    /\ lawStep' = "START"
    /\ DropWork
    /\ UNCHANGED <<config, lastPopPos, dialog, asserted, history>>

-----------------------------------------------------------------------------
(* The focal law wizard *)

OpenLawWizard ==
    /\ InLawWizard /\ lawStep = "START"
    /\ lawStep' = "GROUP_SELECT"
    /\ UNCHANGED <<config, wizard, lawPopPos, dialog, asserted, history>>

\* wizardFocallawHandler_group_select; conventional groups cannot be chosen.
SelectLawGroup ==
    /\ InLawWizard /\ lawStep = "GROUP_SELECT"
    /\ \E pos \in PAGroups :
         /\ lawPopPos' = pos
         /\ tmpGroup' = group[pos]
    /\ lawStep' = "EDIT"
    /\ UNCHANGED <<config, step, lastPopPos, wgroup_pos, tmpNames, dialog, asserted, history>>

\* Elements, angles and steps
EditLaw ==
    /\ InLawWizard /\ lawStep = "EDIT"
    /\ \E b \in Beams : tmpGroup' = [tmpGroup EXCEPT !.beams = b]
    /\ UNCHANGED <<config, step, lastPopPos, wgroup_pos, tmpNames, lawWizard, dialog, asserted, history>>

MoveInLawWizard ==
    /\ InLawWizard
    /\ \/ lawStep = "EDIT" /\ lawStep' = "GENERATE"
       \/ lawStep = "GENERATE" /\ lawStep' = "EDIT"
       \/ lawStep = "GROUP_SELECT" /\ lawStep' = "START"
    /\ UNCHANGED <<config, wizard, lawPopPos, dialog, asserted, history>>

AskGenerate ==
    /\ InLawWizard /\ lawStep = "GENERATE"
    /\ dialog' = [kind |-> "generate", arg |-> 0]
    /\ UNCHANGED <<config, wizard, lawWizard, asserted, history>>

\* wizardFocallawHandler_generate: on a refusal the group is put back.
Generate ==
    /\ dialog.kind = "generate" /\ ~asserted
    /\ LET grp == [group EXCEPT ![lawPopPos] = tmpGroup]
       IN IF Unavailable(grp, groupQty)
          THEN UNCHANGED <<config, lawStep, work, stray>>
          ELSE /\ IF lawPopPos < groupQty
                  THEN /\ group' = grp
                       /\ laws' = [laws EXCEPT ![lawPopPos] = LawOf(tmpGroup)]
                  ELSE UNCHANGED <<group, laws>>
               /\ groupId' = lawPopPos
               /\ stray' = (lawPopPos >= groupQty)
               /\ lawStep' = "START"
               /\ DropWork
               /\ UNCHANGED <<groupQty, names>>
    /\ dialog' = NoDialog
    /\ UNCHANGED <<step, lastPopPos, asserted, roster>>

-----------------------------------------------------------------------------
(* The group menu (data_500), a click on the display, and the answer no *)

\* A click on the display works in a wizard as well (DrawAreaButtonClick).
SelectGroup ==
    /\ UserActs
    /\ groupId' \in 0 .. groupQty - 1
    /\ stray' = FALSE
    /\ UNCHANGED <<group, groupQty, laws, names, wizard, lawWizard, dialog, asserted, roster>>

\* MultiGroupAdd reads the number of groups and then asks whether to copy.
AskCopy ==
    /\ AtMenus
    /\ groupQty < MaxGroups
    /\ dialog' = [kind |-> "copy", arg |-> groupQty]
    /\ UNCHANGED <<config, wizard, lawWizard, asserted, history>>

\* MultiGroupAdd after the question, with the number read before it
MultiGroupAdd(copy) ==
    /\ dialog.kind = "copy" /\ ~asserted
    /\ LET qty == dialog.arg
           index == IF copy THEN 0 ELSE qty
       IN IF Unavailable(WithNew(qty, index, NoOwner), qty + 1)
          THEN groupQty' = qty /\ UNCHANGED <<group, groupId, laws, history>>
          ELSE \E o \in Fresh : NewGroup(WithNew(qty, index, o), qty, o)
    /\ dialog' = NoDialog
    /\ UNCHANGED <<names, wizard, lawWizard, asserted>>

\* MultiGroupDelete removes the last group, whichever is current.
MultiGroupDelete ==
    /\ AtMenus
    /\ groupQty > 1
    /\ groupQty' = groupQty - 1
    /\ groupId' = LastAfterDelete(groupQty)
    /\ group' = WithoutGroup(groupQty - 1)
    /\ names' = NamesWithout(groupQty - 1)
    /\ laws' = Without(laws, groupQty, groupQty - 1, LawOf(Unused))
    /\ roster' = Without(roster, groupQty, groupQty - 1, NoOwner)
    /\ stray' = FALSE
    /\ UNCHANGED <<wizard, lawWizard, dialog, asserted>>

\* The beams that the law menus (data_610 and its neighbours) leave the current group
\* with; they check one limit or none, and leave the law to the response.
SetLaw(b) ==
    /\ AtMenus
    /\ groupId \in PAGroups
    /\ group' = [group EXCEPT ![groupId].beams = b]
    /\ UNCHANGED <<groupQty, groupId, laws, names, wizard, lawWizard, dialog, asserted, history>>

\* The choice of a probe outside the wizards, da_call_probe: of a known one, which may
\* change the beams, or of an unknown one
ChooseProbe ==
    /\ AtMenus
    /\ groupId < groupQty
    /\ \/ /\ \E b \in IF groupId \in PAGroups THEN Beams ELSE {group[groupId].beams} :
                 group' = [group EXCEPT ![groupId].beams = b]
          /\ laws' = [laws EXCEPT ![groupId] = LawOf(group'[groupId])]
       \/ UNCHANGED <<group, laws>>
    /\ names' = [names EXCEPT ![groupId] = TRUE]
    /\ UNCHANGED <<groupQty, groupId, wizard, lawWizard, dialog, asserted, history>>

\* A response of the refresh thread computes the law of the group that is current
\* when it runs (ResponseAngleMark and its like).
Refreshed ==
    /\ ~asserted
    /\ groupId < groupQty
    /\ laws' = [laws EXCEPT ![groupId] = LawOf(group[groupId])]
    /\ UNCHANGED <<group, groupQty, groupId, names, wizard, lawWizard, dialog, asserted, history>>

AnswerNo ==
    /\ dialog.kind \in {"delete", "generate"} /\ ~asserted
    /\ dialog' = NoDialog
    /\ UNCHANGED <<config, wizard, lawWizard, asserted, history>>

-----------------------------------------------------------------------------
(* The PC *)

\* A command that changes the groups under an open wizard or question
Overlaps == step # "START" \/ lawStep # "START" \/ dialog # NoDialog
NetCommand == ~asserted /\ (Overlaps => NetOverlaps)

\* NetAddOneGroup: the group to copy, or a number that is none for a blank one;
\* with all groups in use an assertion of grpcpy or set_group_qty fails.
NetAddOneGroup(source) ==
    /\ NetCommand
    /\ IF groupQty = MaxGroups
       THEN asserted' = TRUE /\ UNCHANGED <<config, lastPopPos, history>>
       ELSE /\ IF Unavailable(WithNew(groupQty, source, NoOwner), groupQty + 1)
               THEN UNCHANGED <<config, lastPopPos, history>>
               ELSE /\ \E o \in Fresh : NewGroup(WithNew(groupQty, source, o), groupQty, o)
                    /\ DrawMenu3
                    /\ UNCHANGED names
            /\ UNCHANGED asserted
    /\ UNCHANGED <<step, work, lawStep, dialog>>

\* NetDeleteOneGroup: any number that is no group means the last one.  The copying
\* goes one group too far, and asserts when that is past config.group; the laws
\* stay where they are.
NetDeleteOneGroup(victim) ==
    /\ NetCommand
    /\ groupQty > 1
    /\ LET i == IF victim < groupQty THEN victim ELSE groupQty - 1
       IN IF groupQty = MaxGroups
          THEN asserted' = TRUE /\ UNCHANGED <<config, lastPopPos, history>>
          ELSE /\ group' = WithoutGroup(i)
               /\ groupQty' = groupQty - 1
               /\ groupId' = LastAfterDelete(groupQty)
               /\ laws' = Without(laws, groupQty, groupQty - 1, LawOf(Unused))
               /\ names' = NamesWithout(i)
               /\ DrawMenu3
               /\ roster' = Without(roster, groupQty, i, NoOwner)
               /\ stray' = FALSE
               /\ UNCHANGED asserted
    /\ UNCHANGED <<step, work, lawStep, dialog>>

\* SetCurrentGroup keeps the low byte of any number below groupQty: a negative one
\* selects whatever byte it ends in.
NetSelectGroup(id) ==
    /\ ~asserted
    /\ groupId' = id
    /\ stray' = (id >= groupQty)
    /\ UNCHANGED <<group, groupQty, laws, names, step, work, lawStep, dialog, asserted, roster>>
    /\ DrawMenu3

\* NetSetFocallawInfo: the law parameters of a group and its law, no limit checked
NetSetLaw(i, b) ==
    /\ ~asserted
    /\ i \in PAGroups
    /\ group' = [group EXCEPT ![i].beams = b]
    /\ laws' = [laws EXCEPT ![i] = LawOf(group'[i])]
    /\ UNCHANGED <<groupQty, groupId, names, step, work, lawStep, dialog, asserted, history>>
    /\ DrawMenu3

GroupWizardStep ==
    \/ OpenGroupWizard \/ ChooseGroup \/ SelectForEdit \/ SelectAdd
    \/ \E index \in 0 .. groupQty : AddGroup(index) \/ AddGroupRefused(index)
    \/ EditGroup \/ EditDone \/ Back
    \/ FinishWizard \/ ContinueWithLaw \/ AskDelete \/ DeleteGroup
LawWizardStep ==
    \/ OpenLawWizard \/ SelectLawGroup \/ EditLaw \/ MoveInLawWizard
    \/ AskGenerate \/ Generate
MenuStep ==
    \/ SelectGroup \/ AskCopy \/ MultiGroupDelete \/ AnswerNo \/ Escape
    \/ \E copy \in BOOLEAN : MultiGroupAdd(copy)
    \/ ChooseProbe
    \/ \E b \in Beams : SetLaw(b)
NetStep ==
    \/ \E n \in 0 .. MaxGroups : NetAddOneGroup(n) \/ NetDeleteOneGroup(n)
    \/ \E id \in Ids : NetSelectGroup(id)
    \/ \E i \in Slots, b \in Beams : NetSetLaw(i, b)

Next == GroupWizardStep \/ LawWizardStep \/ MenuStep \/ Refreshed \/ NetStep
Spec == Init /\ [][Next]_vars

-----------------------------------------------------------------------------
TypeOK ==
    /\ group \in [Slots -> Group] /\ laws \in [Slots -> [mode : {"PA", "UT"}, beams : Beams]]
    /\ names \in [Slots -> BOOLEAN]
    /\ groupQty \in 1 .. MaxGroups /\ groupId \in Ids
    /\ step \in Step /\ lawStep \in LawStep
    /\ lastPopPos \in Slots /\ lawPopPos \in Slots /\ wgroup_pos \in Slots
    /\ tmpGroup \in Group /\ tmpNames \in BOOLEAN
    /\ dialog \in [kind : {"none", "copy", "delete", "generate"}, arg : Slots]
    /\ asserted \in BOOLEAN
    /\ roster \in [Slots -> Owners \cup {NoOwner}]
    /\ stray \in BOOLEAN

\* The properties below hold as long as the PC adds or removes no group under an open
\* wizard or question (NetOverlaps = FALSE).  The code does not ensure that: an
\* addition, a removal or a write back that the PC comes across breaks each of them.

\* Whatever is added, copied, edited, removed or refused, the groups in use are those
\* that were added and not removed, in order: no edit, copy or removal lands on another
\* group, if NetOverlaps is FALSE.
NoGroupLost ==
    ~NetOverlaps =>
        \A i \in Slots : /\ group[i].owner = roster[i]
                         /\ i < groupQty <=> group[i].owner # NoOwner

\* While a wizard edits a group in use, the copy it will write back is of that group,
\* with the group's own names if it had them (after a removal the slots behind have
\* another group's already), and the focal law wizard edits phased array groups only;
\* if NetOverlaps is FALSE.  A position past the groups in use, which a refused copy
\* leaves the group wizard with, is excepted.
WizardEditsItsGroup ==
    ~NetOverlaps =>
        /\ step \in {"EDIT", "FINISH"} /\ wgroup_pos < groupQty =>
               /\ tmpGroup.owner = group[wgroup_pos].owner
               /\ names[wgroup_pos] => tmpNames
        /\ lawStep \in {"EDIT", "GENERATE"} /\ lawPopPos < groupQty =>
               tmpGroup.owner = group[lawPopPos].owner /\ tmpGroup.mode = "PA"

\* The current group is one of those in use, if NetOverlaps is FALSE: also after the
\* removal of any.  Excepted is the time from the write back of a position past the
\* groups in use, or from a negative number of the PC, to the next selection of a group
\* in use.
CurrentGroupExists == ~NetOverlaps /\ ~stray => groupId < groupQty

\* The limits on beams, of each group and of all together
Within(grp, n) == /\ \A i \in 0 .. n - 1 : BeamQty(grp[i]) <= GroupBeams
                  /\ TotalBeamQty(grp, n) <= TotalBeams

\* The edits that no limit, or not all of them, is checked for
UncheckedEdit == \/ FinishWizard \/ ContinueWithLaw \/ ChooseProbe
                 \/ \E b \in Beams : SetLaw(b)
                 \/ \E i \in Slots, b \in Beams : NetSetLaw(i, b)

\* The limits in a step: an addition leaves no more beams than they allow, whatever was
\* there before, and only an edit without a check passes them.
LimitsKept ==
    /\ groupQty' > groupQty => Within(group', groupQty')
    /\ Within(group, groupQty) => Within(group', groupQty') \/ UncheckedEdit

\* No addition, by wizard, menu or PC, no removal, refusal or generation of a law leaves
\* more beams than the limits allow; that is left to the edits whose limits are not
\* checked.  If NetOverlaps is FALSE.
LimitsRespected == [][~NetOverlaps => LimitsKept]_vars

\* A step that makes the law of group i out of date: an edit in the law menus, until a
\* response finds the group current, and a removal from the middle by the PC.
LawLeftBehind(i) == \/ i = groupId /\ \E b \in Beams : SetLaw(b)
                    \/ \E n \in 0 .. groupQty - 2 : n <= i /\ NetDeleteOneGroup(n)

\* The law of slot i after a step is that of the group in it, or was left behind: now, or
\* before, in whatever slot the group was.
LawFollows(i) ==
    \/ laws'[i] = LawOf(group'[i])
    \/ \E j \in 0 .. groupQty - 1 : group[j].owner = group'[i].owner /\ laws[j] # LawOf(group[j])
    \/ LawLeftBehind(i)

\* The laws follow the groups through additions, removals, write backs and the choice of
\* a probe: a group in use gets a law that is not that of its configuration in the law
\* menus and by a removal of the PC only.  If NetOverlaps is FALSE.
LawsFollow == [][~NetOverlaps => \A i \in 0 .. groupQty' - 1 : LawFollows(i)]_vars

\* The assertions of grpcpy, set_group_qty and wizardGroupHandler_addGroup never fail.
AssertionsHold == ~asserted

-----------------------------------------------------------------------------
(***************************************************************************)
(* The inductive strengthening, when the PC leaves wizards and questions   *)
(* alone.                                                                  *)
(***************************************************************************)

\* At most one wizard is open, and a question belongs to its place.
OneAtATime ==
    /\ step # "START" => lawStep = "START"
    /\ dialog.kind = "delete" => step = "GROUP_SELECT" /\ groupQty > 1 /\ dialog.arg < groupQty
    /\ dialog.kind = "generate" => lawStep = "GENERATE"
    /\ dialog.kind = "copy" =>
           step = "START" /\ lawStep = "START" /\ dialog.arg = groupQty /\ groupQty < MaxGroups

\* The wizard's position is its choice, a new group's the one after the last.
Positions ==
    /\ step = "ADD" => lastPopPos = groupQty /\ wgroup_pos = groupQty
    /\ step \in {"EDIT", "FINISH"} => wgroup_pos = lastPopPos

GroupsInv ==
    /\ OneAtATime
    /\ Positions
    /\ NoGroupLost
    /\ WizardEditsItsGroup
    /\ CurrentGroupExists
=============================================================================

---------------------------- MODULE GroupsProofs ----------------------------
(***************************************************************************)
(* Proofs about the inspection groups: no group is lost, overwritten or    *)
(* edited under another's name, the focal laws follow the groups, and the  *)
(* limits are kept by all that checks them, for any number of groups and   *)
(* any limits, as long as the PC adds or removes no group under an open    *)
(* wizard or question.                                                     *)
(***************************************************************************)
EXTENDS Groups, FiniteSetTheorems, TLAPS

Law == [mode : {"PA", "UT"}, beams : Beams]

\* The number a copy question remembers is the number of at least one group.
TypeInv == TypeOK /\ (dialog.kind = "copy" => dialog.arg > 0)

-----------------------------------------------------------------------------
(* The operators *)

LEMMA SlotsAreIds == Slots \subseteq Ids
  BY GroupsAssumption DEF Slots, Ids

\* A blank group is a group.
LEMMA BlankType == ASSUME NEW o \in Owners \cup {NoOwner} PROVE Blank(o) \in Group
  BY GroupsAssumption DEF Blank, Group

LEMMA UnusedType == Unused \in Group /\ LawOf(Unused) \in Law
  BY GroupsAssumption DEF Unused, Blank, Group, LawOf, Law

LEMMA LawType == ASSUME NEW g \in Group PROVE LawOf(g) \in Law
  BY DEF LawOf, Group, Law

\* Setting a group to one beam keeps whose it is.
LEMMA UTgroupType ==
  ASSUME NEW g \in Group
  PROVE  /\ UTgroup(g) \in Group
         /\ UTgroup(g).owner = g.owner
         /\ g.mode = "PA" => UTgroup(g) = g
  BY GroupsAssumption DEF UTgroup, Group

\* Removing an entry of a function on the slots leaves a function on the slots.
LEMMA WithoutType ==
  ASSUME NEW S, NEW f \in [Slots -> S], NEW n \in 1 .. MaxGroups,
         NEW i \in Int, NEW none \in S
  PROVE  Without(f, n, i, none) \in [Slots -> S]
  BY GroupsAssumption DEF Without, Slots

\* A new group is added to the groups.
LEMMA WithNewType ==
  ASSUME group \in [Slots -> Group], NEW qty \in Slots, NEW index \in Nat,
         NEW o \in Owners \cup {NoOwner}
  PROVE  /\ WithNew(qty, index, o) \in [Slots -> Group]
         /\ \A i \in Slots : i # qty => WithNew(qty, index, o)[i] = group[i]
         /\ WithNew(qty, index, o)[qty].owner = o
  <1>1. CopyOf(group[0], o) \in Group /\ Blank(o) \in Group
    <2>1. 0 \in Slots
      BY GroupsAssumption DEF Slots
    <2> QED
      BY <2>1, BlankType DEF CopyOf, Group
  <1>2. ASSUME index < qty PROVE CopyOf(group[index], o) \in Group
    <2>1. index \in Slots
      BY <1>2, GroupsAssumption DEF Slots
    <2> QED
      BY <2>1 DEF CopyOf, Group
  <1>3. ASSUME index < qty PROVE CopyOf(group[index], o).owner = o
    <2>1. index \in Slots
      BY <1>3, GroupsAssumption DEF Slots
    <2> QED
      BY <2>1 DEF CopyOf, Group
  <1>4. Blank(o).owner = o
    BY DEF Blank
  <1> QED
    BY <1>1, <1>2, <1>3, <1>4 DEF WithNew

(***************************************************************************)
(* Counting the beams.  A sum over the groups would need induction; the    *)
(* set of all beams needs none: fewer beams inject into more.              *)
(***************************************************************************)

LEMMA BeamQtyNat == ASSUME NEW g \in Group PROVE BeamQty(g) \in Nat
  BY GroupsAssumption DEF BeamQty, Group

\* A group's beams are counted in pairs of its position and the beam.
LEMMA AllBeamsMembers ==
  ASSUME NEW grp \in [Slots -> Group], NEW n \in 0 .. MaxGroups
  PROVE  \A p : p \in AllBeams(grp, n) <=>
             \E i \in 0 .. n - 1 : \E b \in 1 .. BeamQty(grp[i]) : p = <<i, b>>
  <1>1. \A p : p \in AllBeams(grp, n) <=>
             \E i \in 0 .. n - 1 : p \in {i} \X (1 .. BeamQty(grp[i]))
    BY DEF AllBeams
  <1> QED
    BY <1>1

LEMMA AllBeamsFinite ==
  ASSUME NEW grp \in [Slots -> Group], NEW n \in 0 .. MaxGroups
  PROVE  IsFiniteSet(AllBeams(grp, n)) /\ TotalBeamQty(grp, n) \in Nat
  <1> DEFINE Of(i) == {i} \X (1 .. BeamQty(grp[i]))
             All == {Of(i) : i \in 0 .. n - 1}
             f == [i \in 0 .. n - 1 |-> Of(i)]
  <1>1. n \in Int /\ \A i \in 0 .. n - 1 : i \in Slots
    BY GroupsAssumption DEF Slots
  <1>2. \A i \in 0 .. n - 1 : IsFiniteSet(Of(i))
    <2> SUFFICES ASSUME NEW i \in 0 .. n - 1 PROVE IsFiniteSet(Of(i))
      OBVIOUS
    <2>1. BeamQty(grp[i]) \in Nat
      BY <1>1, BeamQtyNat
    <2>2. IsFiniteSet(1 .. BeamQty(grp[i]))
      BY <2>1, FS_Interval
    <2>3. IsFiniteSet({i})
      BY FS_Singleton
    <2> QED
      BY <2>2, <2>3, FS_Product
  <1>3. IsFiniteSet(0 .. n - 1)
    BY <1>1, FS_Interval
  <1>4. f \in Surjection(0 .. n - 1, All)
    BY DEF Surjection
  <1>5. IsFiniteSet(All)
    BY <1>3, <1>4, FS_Surjection
  <1>6. IsFiniteSet(UNION All)
    BY <1>2, <1>5, FS_UNION
  <1>7. AllBeams(grp, n) = UNION All
    BY DEF AllBeams
  <1> QED
    BY <1>6, <1>7, FS_CardinalityType DEF TotalBeamQty

\* If every group of one list has a group of its own, with as many beams or more, in
\* another list, the first has no more beams than the other.
LEMMA NoMoreBeams ==
  ASSUME NEW g1 \in [Slots -> Group], NEW n1 \in 0 .. MaxGroups,
         NEW g2 \in [Slots -> Group], NEW n2 \in 0 .. MaxGroups,
         NEW f \in Injection(0 .. n1 - 1, 0 .. n2 - 1),
         \A i \in 0 .. n1 - 1 : BeamQty(g1[i]) <= BeamQty(g2[f[i]])
  PROVE  TotalBeamQty(g1, n1) <= TotalBeamQty(g2, n2)
  <1> DEFINE h == [p \in AllBeams(g1, n1) |-> <<f[p[1]], p[2]>>]
  <1>1. /\ \A i \in 0 .. n1 - 1 : f[i] \in 0 .. n2 - 1
        /\ \A i, j \in 0 .. n1 - 1 : f[i] = f[j] => i = j
    BY DEF Injection, IsInjective
  <1>2. /\ \A i \in 0 .. n1 - 1 : i \in Slots
        /\ \A i \in 0 .. n2 - 1 : i \in Slots
    BY GroupsAssumption DEF Slots
  <1>3. \A p \in AllBeams(g1, n1) :
           p[1] \in 0 .. n1 - 1 /\ p[2] \in 1 .. BeamQty(g1[p[1]]) /\ p = <<p[1], p[2]>>
    BY AllBeamsMembers
  <1>4. ASSUME NEW p \in AllBeams(g1, n1) PROVE <<f[p[1]], p[2]>> \in AllBeams(g2, n2)
    <2>1. p[1] \in 0 .. n1 - 1 /\ p[2] \in 1 .. BeamQty(g1[p[1]])
      BY <1>3
    <2>2. f[p[1]] \in 0 .. n2 - 1
      BY <1>1, <2>1
    <2>3. BeamQty(g1[p[1]]) \in Nat /\ BeamQty(g2[f[p[1]]]) \in Nat
      BY <1>2, <2>1, <2>2, BeamQtyNat
    <2>4. p[2] \in 1 .. BeamQty(g2[f[p[1]]])
      BY <2>1, <2>3
    <2> QED
      BY <2>2, <2>4, AllBeamsMembers
  <1>5. \A p, q \in AllBeams(g1, n1) : h[p] = h[q] => p = q
    BY <1>1, <1>3
  <1>6. h \in Injection(AllBeams(g1, n1), AllBeams(g2, n2))
    BY <1>4, <1>5 DEF Injection, IsInjective
  <1> QED
    BY <1>6, AllBeamsFinite, FS_Injection DEF TotalBeamQty

LEMMA FreshType == ASSUME NEW o \in Fresh PROVE o \in Owners
  BY DEF Fresh

\* What a new group does to the groups in use
LEMMA NewGroupType ==
  ASSUME TypeOK, NEW qty \in Slots, NEW index \in Nat, NEW o \in Fresh,
         NewGroup(WithNew(qty, index, o), qty, o)
  PROVE  /\ group' \in [Slots -> Group] /\ laws' \in [Slots -> Law]
         /\ groupQty' \in 1 .. MaxGroups /\ groupId' \in Ids
         /\ roster' \in [Slots -> Owners \cup {NoOwner}] /\ stray' \in BOOLEAN
  <1>1. o \in Owners
    BY FreshType
  <1>2. WithNew(qty, index, o) \in [Slots -> Group]
    BY <1>1, WithNewType DEF TypeOK
  <1>3. LawOf(WithNew(qty, index, o)[qty]) \in Law
    BY <1>2, LawType
  <1>4. laws' \in [Slots -> Law]
    BY <1>3 DEF NewGroup, TypeOK, Law
  <1>5. groupQty' \in 1 .. MaxGroups /\ groupId' \in Ids
    BY SlotsAreIds, GroupsAssumption DEF NewGroup, Slots
  <1>6. roster' \in [Slots -> Owners \cup {NoOwner}]
    BY <1>1 DEF NewGroup, TypeOK
  <1> QED
    BY <1>2, <1>4, <1>5, <1>6 DEF NewGroup

-----------------------------------------------------------------------------
(* Type correctness *)

LEMMA TypeInit == Init => TypeInv
  <1> SUFFICES ASSUME Init PROVE TypeInv
    OBVIOUS
  <1> USE DEF Init
  <1>1. group \in [Slots -> Group] /\ roster \in [Slots -> Owners \cup {NoOwner}]
    BY BlankType, UnusedType
  <1>2. laws \in [Slots -> Law]
    BY UnusedType
  <1>3. /\ groupQty \in 1 .. MaxGroups /\ groupId \in Ids
        /\ lastPopPos \in Slots /\ lawPopPos \in Slots /\ wgroup_pos \in Slots
    BY GroupsAssumption DEF Slots, Ids
  <1>4. dialog \in [kind : {"none", "copy", "delete", "generate"}, arg : Slots]
    BY <1>3 DEF NoDialog
  <1>5. tmpGroup \in Group /\ names \in [Slots -> BOOLEAN]
    BY UnusedType
  <1> QED
    BY <1>1, <1>2, <1>3, <1>4, <1>5 DEF TypeInv, TypeOK, Step, LawStep, NoDialog, Law

\* The group wizard's steps that leave the groups alone
LEMMA TypeWizardQuiet ==
  ASSUME TypeInv,
         \/ OpenGroupWizard \/ ChooseGroup \/ SelectForEdit \/ SelectAdd
         \/ EditDone \/ Back \/ AskDelete
  PROVE  TypeInv'
  <1> USE GroupsAssumption DEF TypeInv, TypeOK, config, history, wizard, lawWizard, Step
  <1>1. CASE OpenGroupWizard
    BY <1>1 DEF OpenGroupWizard, GroupShown, Slots
  <1>2. CASE ChooseGroup
    BY <1>2 DEF ChooseGroup, GroupsOffered, Slots
  <1>3. CASE SelectForEdit
    BY <1>3 DEF SelectForEdit
  <1>4. CASE SelectAdd
    BY <1>4 DEF SelectAdd
  <1>6. CASE EditDone
    BY <1>6 DEF EditDone
  <1>7. CASE Back
    BY <1>7 DEF Back
  <1>8. CASE AskDelete
    BY <1>8 DEF AskDelete
  <1> QED
    BY <1>1, <1>2, <1>3, <1>4, <1>6, <1>7, <1>8

\* The steps that only edit the working copy, or move in the focal law wizard
LEMMA TypeEditQuiet ==
  ASSUME TypeInv,
         \/ EditGroup \/ Escape \/ OpenLawWizard \/ SelectLawGroup \/ EditLaw
         \/ MoveInLawWizard \/ AskGenerate \/ SelectGroup \/ AskCopy \/ AnswerNo
  PROVE  TypeInv'
  <1> USE GroupsAssumption DEF TypeInv, TypeOK, config, history, wizard, lawWizard
  <1>1. CASE EditGroup
    BY <1>1 DEF EditGroup, Group
  <1>2. CASE Escape
    <2>1. tmpGroup' \in Group
      BY <1>2, UnusedType DEF Escape, DropWork
    <2>2. tmpNames' \in BOOLEAN
      BY <1>2 DEF Escape, DropWork
    <2> QED
      BY <1>2, <2>1, <2>2 DEF Escape, DropWork, Slots, Step, LawStep
  <1>3. CASE OpenLawWizard
    BY <1>3 DEF OpenLawWizard, LawStep
  <1>4. CASE SelectLawGroup
    BY <1>4 DEF SelectLawGroup, PAGroups, Slots, LawStep
  <1>5. CASE EditLaw
    BY <1>5 DEF EditLaw, Group
  <1>6. CASE MoveInLawWizard
    BY <1>6 DEF MoveInLawWizard, LawStep
  <1>7. CASE AskGenerate
    BY <1>7 DEF AskGenerate, Slots
  <1>8. CASE SelectGroup
    <2>1. groupId' \in Ids
      BY <1>8 DEF SelectGroup, Ids
    <2>2. stray' \in BOOLEAN
      BY <1>8 DEF SelectGroup
    <2> QED
      BY <1>8, <2>1, <2>2 DEF SelectGroup
  <1>9. CASE AskCopy
    BY <1>9 DEF AskCopy, Slots
  <1>10. CASE AnswerNo
    BY <1>10 DEF AnswerNo, NoDialog, Slots
  <1> QED
    BY <1>1, <1>2, <1>3, <1>4, <1>5, <1>6, <1>7, <1>8, <1>9, <1>10

\* What the third menu shows keeps the wizard's choice a slot.
LEMMA DrawMenu3Type ==
  ASSUME TypeOK, DrawMenu3 PROVE lastPopPos' \in Slots
  BY GroupsAssumption DEF TypeOK, DrawMenu3, GroupShown, Slots

\* Adding
LEMMA TypeAdd ==
  ASSUME TypeInv, NEW index \in Nat,
         AddGroup(index) \/ AddGroupRefused(index) \/ NetAddOneGroup(index)
  PROVE  TypeInv'
  <1> USE DEF TypeInv
  <1>1. groupQty # MaxGroups => groupQty \in Slots
    BY GroupsAssumption DEF TypeOK, Slots
  <1>2. CASE AddGroup(index)
    <2>1. groupQty \in Slots
      BY <1>2, GroupsAssumption DEF AddGroup, TypeOK, Slots
    <2>2. PICK o \in Fresh :
            LET grp == WithNew(groupQty, index, o)
            IN /\ NewGroup(grp, groupQty, o)
               /\ step' = AfterAdd(index, groupQty + 1)
               /\ IF step' = "EDIT"
                  THEN /\ tmpGroup' = grp[groupQty] /\ tmpNames' = names'[groupQty]
                       /\ wgroup_pos' = groupQty /\ UNCHANGED lawPopPos
                  ELSE DropWork
      BY <1>2 DEF AddGroup
    <2>3. /\ group' \in [Slots -> Group] /\ laws' \in [Slots -> Law]
          /\ groupQty' \in 1 .. MaxGroups /\ groupId' \in Ids
          /\ roster' \in [Slots -> Owners \cup {NoOwner}] /\ stray' \in BOOLEAN
      BY <2>1, <2>2, NewGroupType
    <2>4. tmpGroup' \in Group /\ wgroup_pos' \in Slots /\ lawPopPos' \in Slots
      <3>1. WithNew(groupQty, index, o)[groupQty] \in Group
        BY <2>1, WithNewType, FreshType DEF TypeOK
      <3> QED
        BY <2>1, <2>2, <3>1, UnusedType, GroupsAssumption DEF DropWork, TypeOK, Slots
    <2>5. names' \in [Slots -> BOOLEAN] /\ tmpNames' \in BOOLEAN
      <3>1. names' = [names EXCEPT ![groupQty] = index < groupQty /\ names[index]]
        BY <1>2 DEF AddGroup
      <3>2. index < groupQty => index \in Slots
        BY <2>1, GroupsAssumption DEF Slots
      <3>3. (index < groupQty /\ names[index]) \in BOOLEAN
        BY <3>2 DEF TypeOK
      <3>4. names' \in [Slots -> BOOLEAN]
        BY <3>1, <3>3 DEF TypeOK
      <3> QED
        BY <2>1, <2>2, <3>4 DEF DropWork
    <2> QED
      BY <1>2, <2>2, <2>3, <2>4, <2>5 DEF AddGroup, AfterAdd, TypeOK, Law, Step
  <1>3. CASE AddGroupRefused(index)
    <2>1. CASE groupQty = MaxGroups
      BY <1>3, <2>1 DEF AddGroupRefused, TypeOK, config, wizard, history
    <2>2. CASE groupQty # MaxGroups
      <3>1. /\ tmpGroup' \in Group /\ wgroup_pos' \in Slots /\ lawPopPos' \in Slots
            /\ tmpNames' \in BOOLEAN
        <4>1. \A m \in {"PA", "UT"} : [Unused EXCEPT !.mode = m] \in Group
          BY UnusedType DEF Group
        <4>2. CASE step' = "EDIT"
          BY <1>3, <2>2, <4>1, <4>2 DEF AddGroupRefused, TypeOK
        <4>3. CASE step' # "EDIT"
          <5>1. DropWork
            BY <1>3, <2>2, <4>3 DEF AddGroupRefused
          <5>2. tmpNames' \in BOOLEAN
            BY <5>1 DEF DropWork
          <5> QED
            BY <5>1, <5>2, UnusedType, GroupsAssumption DEF DropWork, Slots
        <4> QED
          BY <4>2, <4>3
      <3> QED
        BY <1>3, <2>2, <3>1 DEF AddGroupRefused, AfterAdd, TypeOK, Step, config, history
    <2> QED
      BY <2>1, <2>2
  <1>4. CASE NetAddOneGroup(index)
    <2>1. CASE groupQty = MaxGroups \/ UNCHANGED <<config, lastPopPos, history>>
      BY <1>4, <2>1, GroupsAssumption DEF NetAddOneGroup, TypeOK, config, history, work, NewGroup, Slots
    <2>2. CASE groupQty # MaxGroups /\ ~UNCHANGED <<config, lastPopPos, history>>
      <3>1. PICK o \in Fresh : NewGroup(WithNew(groupQty, index, o), groupQty, o)
        BY <1>4, <2>2 DEF NetAddOneGroup
      <3>2. /\ group' \in [Slots -> Group] /\ laws' \in [Slots -> Law]
            /\ groupQty' \in 1 .. MaxGroups /\ groupId' \in Ids
            /\ roster' \in [Slots -> Owners \cup {NoOwner}] /\ stray' \in BOOLEAN
        BY <1>1, <2>2, <3>1, NewGroupType
      <3>3. lastPopPos' \in Slots
        BY <1>4, <2>2, DrawMenu3Type DEF NetAddOneGroup
      <3> QED
        BY <1>4, <2>2, <3>2, <3>3 DEF NetAddOneGroup, TypeOK, Law, work
    <2> QED
      BY <2>1, <2>2
  <1> QED
    BY <1>2, <1>3, <1>4

\* The copy question's number is a slot that is not the first.
LEMMA TypeAddCopy ==
  ASSUME TypeInv, NEW copy \in BOOLEAN, MultiGroupAdd(copy)
  PROVE  TypeInv'
  <1> DEFINE qty == dialog.arg
             index == IF copy THEN 0 ELSE qty
  <1>1. qty \in Slots /\ qty > 0 /\ index \in Nat
    BY GroupsAssumption DEF MultiGroupAdd, TypeInv, TypeOK, Slots
  <1>2. /\ dialog' = NoDialog
        /\ UNCHANGED <<names, wizard, lawWizard, asserted>>
        /\ \/ groupQty' = qty /\ UNCHANGED <<group, groupId, laws, history>>
           \/ \E o \in Fresh : NewGroup(WithNew(qty, index, o), qty, o)
    BY DEF MultiGroupAdd
  <1>3. /\ group' \in [Slots -> Group] /\ laws' \in [Slots -> Law]
        /\ groupQty' \in 1 .. MaxGroups /\ groupId' \in Ids
        /\ roster' \in [Slots -> Owners \cup {NoOwner}] /\ stray' \in BOOLEAN
    <2>1. CASE groupQty' = qty /\ UNCHANGED <<group, groupId, laws, history>>
      BY <1>1, <2>1, GroupsAssumption DEF TypeInv, TypeOK, Law, Slots, history
    <2>2. ASSUME NEW o \in Fresh, NewGroup(WithNew(qty, index, o), qty, o)
          PROVE  /\ group' \in [Slots -> Group] /\ laws' \in [Slots -> Law]
                 /\ groupQty' \in 1 .. MaxGroups /\ groupId' \in Ids
                 /\ roster' \in [Slots -> Owners \cup {NoOwner}] /\ stray' \in BOOLEAN
      <3> HIDE DEF qty, index
      <3> QED
        BY <1>1, <2>2, NewGroupType DEF TypeInv
    <2> QED
      BY <1>2, <2>1, <2>2
  <1>4. dialog' \in [kind : {"none", "copy", "delete", "generate"}, arg : Slots]
    BY <1>2, GroupsAssumption DEF NoDialog, Slots
  <1> QED
    BY <1>2, <1>3, <1>4 DEF TypeInv, TypeOK, Law, wizard, lawWizard, NoDialog

\* Removing
LEMMA TypeRemove ==
  ASSUME TypeInv,
         DeleteGroup \/ MultiGroupDelete \/ \E n \in Nat : NetDeleteOneGroup(n)
  PROVE  TypeInv'
  <1> USE DEF TypeInv
  <1>1. /\ Unused \in Group /\ LawOf(Unused) \in Law
        /\ NoOwner \in Owners \cup {NoOwner}
    BY UnusedType
  <1>2. \A i \in Int : /\ WithoutGroup(i) \in [Slots -> Group]
                       /\ Without(laws, groupQty, i, LawOf(Unused)) \in [Slots -> Law]
                       /\ Without(roster, groupQty, i, NoOwner)
                              \in [Slots -> Owners \cup {NoOwner}]
    BY <1>1, WithoutType DEF WithoutGroup, TypeOK, Law
  <1>3. \A i \in Int : LawsAfterDelete(i) \in [Slots -> Law]
    BY <1>2, LawType DEF LawsAfterDelete, TypeOK, Law
  <1>4. groupQty > 1 => /\ groupQty - 1 \in 1 .. MaxGroups
                        /\ LastAfterDelete(groupQty) \in Ids
                        /\ groupQty - 1 \in Int
    BY GroupsAssumption DEF TypeOK, Ids, LastAfterDelete
  <1>5. groupQty # 1 => groupQty > 1
    BY GroupsAssumption DEF TypeOK
  <1>6. 0 \in Slots /\ 0 \in Ids /\ dialog.arg \in Int
    BY GroupsAssumption DEF TypeOK, Slots, Ids
  <1>10. \A i \in Int : NamesWithout(i) \in [Slots -> BOOLEAN]
    BY DEF NamesWithout, TypeOK
  <1>7. CASE DeleteGroup
    <2>1. lastPopPos' \in Slots
      BY <1>7, DrawMenu3Type DEF DeleteGroup
    <2>2. dialog' \in [kind : {"none", "copy", "delete", "generate"}, arg : Slots]
      BY <1>6, <1>7 DEF DeleteGroup, NoDialog
    <2>3. CASE groupQty = 1
      BY <1>7, <2>1, <2>2, <2>3 DEF DeleteGroup, TypeOK, config, history, work, NoDialog
    <2>4. CASE groupQty # 1
      <3>1. /\ group' \in [Slots -> Group] /\ laws' \in [Slots -> Law]
            /\ groupQty' \in 1 .. MaxGroups /\ groupId' \in Ids
            /\ roster' \in [Slots -> Owners \cup {NoOwner}]
            /\ names' \in [Slots -> BOOLEAN] /\ stray' \in BOOLEAN
        BY <1>2, <1>3, <1>4, <1>5, <1>6, <1>7, <1>10, <2>4 DEF DeleteGroup
      <3> QED
        BY <1>7, <2>1, <2>2, <3>1 DEF DeleteGroup, TypeOK, work, NoDialog, Law
    <2> QED
      BY <2>3, <2>4
  <1>8. CASE MultiGroupDelete
    <2>1. /\ group' \in [Slots -> Group] /\ laws' \in [Slots -> Law]
          /\ groupQty' \in 1 .. MaxGroups /\ groupId' \in Ids
          /\ roster' \in [Slots -> Owners \cup {NoOwner}]
          /\ names' \in [Slots -> BOOLEAN] /\ stray' \in BOOLEAN
      BY <1>2, <1>4, <1>8, <1>10 DEF MultiGroupDelete
    <2> QED
      BY <1>8, <2>1 DEF MultiGroupDelete, TypeOK, wizard, lawWizard, Law
  <1>9. ASSUME NEW n \in Nat, NetDeleteOneGroup(n)
        PROVE  TypeInv'
    <2> DEFINE i == IF n < groupQty THEN n ELSE groupQty - 1
    <2>1. i \in Int
      BY DEF TypeOK
    <2>2. CASE groupQty = MaxGroups
      BY <1>9, <2>2 DEF NetDeleteOneGroup, TypeOK, config, history, work
    <2>3. CASE groupQty # MaxGroups
      <3>1. /\ group' = WithoutGroup(i) /\ groupQty' = groupQty - 1
            /\ groupId' = LastAfterDelete(groupQty)
            /\ laws' = Without(laws, groupQty, groupQty - 1, LawOf(Unused))
            /\ DrawMenu3
            /\ roster' = Without(roster, groupQty, i, NoOwner)
            /\ names' = NamesWithout(i) /\ stray' = FALSE
            /\ UNCHANGED asserted /\ groupQty > 1
            /\ UNCHANGED <<step, work, lawStep, dialog>>
        BY <1>9, <2>3 DEF NetDeleteOneGroup
      <3>2. /\ group' \in [Slots -> Group] /\ laws' \in [Slots -> Law]
            /\ groupQty' \in 1 .. MaxGroups /\ groupId' \in Ids
            /\ roster' \in [Slots -> Owners \cup {NoOwner}]
            /\ names' \in [Slots -> BOOLEAN]
        <4> HIDE DEF i
        <4> QED
          BY <1>2, <1>4, <1>10, <2>1, <3>1
      <3>3. lastPopPos' \in Slots
        BY <3>1, DrawMenu3Type
      <3> HIDE DEF i
      <3> QED
        BY <3>1, <3>2, <3>3 DEF TypeOK, work, Law
    <2> QED
      BY <2>2, <2>3
  <1> QED
    BY <1>7, <1>8, <1>9

\* Writing the working copy back
LEMMA FinishType ==
  ASSUME TypeInv, Finish
  PROVE  /\ group' \in [Slots -> Group] /\ laws' \in [Slots -> Law]
         /\ names' \in [Slots -> BOOLEAN] /\ stray' \in BOOLEAN /\ groupId' \in Ids
  <1>1. UTgroup(tmpGroup) \in Group
    BY UTgroupType DEF TypeInv, TypeOK
  <1>2. LawOf(UTgroup(tmpGroup)) \in Law
    BY <1>1, LawType
  <1>3. group' \in [Slots -> Group]
    BY <1>1 DEF Finish, TypeInv, TypeOK
  <1>4. laws' \in [Slots -> Law]
    BY <1>2 DEF Finish, TypeInv, TypeOK, Law
  <1>5. names' \in [Slots -> BOOLEAN] /\ stray' \in BOOLEAN
    BY DEF Finish, TypeInv, TypeOK
  <1> QED
    BY <1>3, <1>4, <1>5, SlotsAreIds DEF Finish, TypeInv, TypeOK

LEMMA TypeWriteBack ==
  ASSUME TypeInv, FinishWizard \/ ContinueWithLaw
  PROVE  TypeInv'
  <1>1. Finish
    BY DEF FinishWizard, ContinueWithLaw
  <1>2. /\ group' \in [Slots -> Group] /\ laws' \in [Slots -> Law]
        /\ names' \in [Slots -> BOOLEAN] /\ stray' \in BOOLEAN /\ groupId' \in Ids
    BY <1>1, FinishType
  <1>3. /\ tmpGroup' \in Group /\ wgroup_pos' \in Slots /\ lawPopPos' \in Slots
        /\ lawStep' \in LawStep
    BY UnusedType, GroupsAssumption
    DEF FinishWizard, ContinueWithLaw, DropWork, TypeInv, TypeOK, Slots, LawStep
  <1>4. tmpNames' \in BOOLEAN
    BY DEF FinishWizard, ContinueWithLaw, DropWork, TypeInv, TypeOK
  <1> QED
    BY <1>1, <1>2, <1>3, <1>4 DEF Finish, TypeInv, TypeOK, Law, Step

LEMMA TypeGenerate ==
  ASSUME TypeInv, Generate
  PROVE  TypeInv'
  <1>1. LawOf(tmpGroup) \in Law
    BY LawType DEF TypeInv, TypeOK
  <1>2. group' \in [Slots -> Group]
    BY DEF Generate, TypeInv, TypeOK, config
  <1>3. laws' \in [Slots -> Law]
    BY <1>1 DEF Generate, TypeInv, TypeOK, Law, config
  <1>4. /\ groupId' \in Ids /\ groupQty' \in 1 .. MaxGroups
        /\ names' \in [Slots -> BOOLEAN]
    BY SlotsAreIds DEF Generate, TypeInv, TypeOK, config
  <1>7. stray' \in BOOLEAN /\ tmpNames' \in BOOLEAN
    <2>1. \/ UNCHANGED <<config, lawStep, work, stray>>
          \/ stray' = (lawPopPos >= groupQty) /\ DropWork
      BY DEF Generate
    <2>2. CASE UNCHANGED <<config, lawStep, work, stray>>
      <3>1. stray' = stray /\ tmpNames' = tmpNames
        BY <2>2 DEF work
      <3> QED
        BY <3>1 DEF TypeInv, TypeOK
    <2>3. CASE stray' = (lawPopPos >= groupQty) /\ DropWork
      <3>1. stray' \in BOOLEAN
        BY <2>3
      <3>2. tmpNames' \in BOOLEAN
        BY <2>3 DEF DropWork
      <3> QED
        BY <3>1, <3>2
    <2> QED
      BY <2>1, <2>2, <2>3
  <1>5. /\ tmpGroup' \in Group /\ wgroup_pos' \in Slots /\ lawPopPos' \in Slots
        /\ lawStep' \in LawStep
    BY UnusedType, GroupsAssumption
    DEF Generate, DropWork, work, TypeInv, TypeOK, Slots, LawStep
  <1>6. dialog' \in [kind : {"none", "copy", "delete", "generate"}, arg : Slots]
    BY GroupsAssumption DEF Generate, NoDialog, Slots
  <1> QED
    BY <1>2, <1>3, <1>4, <1>5, <1>6, <1>7 DEF Generate, TypeInv, TypeOK, Law, NoDialog

\* The selection and the law parameters of the PC
LEMMA TypeNetSet ==
  ASSUME TypeInv,
         \/ \E id \in Ids : NetSelectGroup(id)
         \/ \E i \in Slots, b \in Beams : NetSetLaw(i, b)
  PROVE  TypeInv'
  <1>1. lastPopPos' \in Slots
    BY DrawMenu3Type DEF NetSelectGroup, NetSetLaw, TypeInv
  <1>2. CASE \E id \in Ids : NetSelectGroup(id)
    BY <1>1, <1>2 DEF NetSelectGroup, TypeInv, TypeOK, work
  <1>3. ASSUME NEW i \in Slots, NEW b \in Beams, NetSetLaw(i, b) PROVE TypeInv'
    <2>1. group' \in [Slots -> Group]
      <3>1. [group[i] EXCEPT !.beams = b] \in Group
        BY DEF TypeInv, TypeOK, Group
      <3>2. group' = [group EXCEPT ![i] = [group[i] EXCEPT !.beams = b]]
        BY <1>3 DEF NetSetLaw
      <3> QED
        BY <3>1, <3>2 DEF TypeInv, TypeOK
    <2>2. LawOf(group'[i]) \in Law
      BY <2>1, LawType
    <2>3. laws' \in [Slots -> Law]
      BY <1>3, <2>2 DEF NetSetLaw, TypeInv, TypeOK, Law
    <2> QED
      BY <1>1, <1>3, <2>1, <2>3 DEF NetSetLaw, TypeInv, TypeOK, Law, work, history
  <1> QED
    BY <1>2, <1>3

\* The law menus, the choice of a probe, and the responses
LEMMA TypeMenuSet ==
  ASSUME TypeInv, ChooseProbe \/ Refreshed \/ \E b \in Beams : SetLaw(b)
  PROVE  TypeInv'
  <1>1. group' \in [Slots -> Group]
    <2>1. ASSUME groupId < groupQty, NEW b \in Beams,
                 group' = [group EXCEPT ![groupId].beams = b]
          PROVE  group' \in [Slots -> Group]
      <3>1. groupId \in Slots
        BY <2>1, GroupsAssumption DEF TypeInv, TypeOK, Slots, Ids
      <3>2. [group[groupId] EXCEPT !.beams = b] \in Group
        BY <2>1, <3>1 DEF TypeInv, TypeOK, Group
      <3>3. group' = [group EXCEPT ![groupId] = [group[groupId] EXCEPT !.beams = b]]
        BY <2>1
      <3> QED
        BY <3>2, <3>3 DEF TypeInv, TypeOK
    <2>5. CASE UNCHANGED group
      BY <2>5 DEF TypeInv, TypeOK
    <2>2. CASE ChooseProbe /\ ~UNCHANGED group
      <3>1. PICK b \in IF groupId \in PAGroups THEN Beams ELSE {group[groupId].beams} :
                   group' = [group EXCEPT ![groupId].beams = b]
        BY <2>2 DEF ChooseProbe
      <3>2. groupId < groupQty
        BY <2>2 DEF ChooseProbe
      <3>3. group[groupId] \in Group
        BY <3>2, GroupsAssumption DEF TypeInv, TypeOK, Slots, Ids
      <3>4. b \in Beams
        BY <3>1, <3>3 DEF Group
      <3> QED
        BY <2>1, <3>1, <3>2, <3>4
    <2>3. CASE Refreshed
      BY <2>3 DEF Refreshed, TypeInv, TypeOK
    <2>4. ASSUME NEW b \in Beams, SetLaw(b) PROVE group' \in [Slots -> Group]
      <3>1. groupId < groupQty
        BY <2>4 DEF SetLaw, PAGroups, TypeInv, TypeOK
      <3> QED
        BY <2>1, <2>4, <3>1 DEF SetLaw
    <2> QED
      BY <2>2, <2>3, <2>4, <2>5
  <1>2. laws' \in [Slots -> Law]
    <2>1. ASSUME groupId < groupQty PROVE LawOf(group'[groupId]) \in Law /\ LawOf(group[groupId]) \in Law
      <3>1. groupId \in Slots
        BY <2>1, GroupsAssumption DEF TypeInv, TypeOK, Slots, Ids
      <3> QED
        BY <1>1, <3>1, LawType DEF TypeInv, TypeOK
    <2>2. CASE ChooseProbe
      BY <2>1, <2>2 DEF ChooseProbe, TypeInv, TypeOK, Law
    <2>3. CASE Refreshed
      BY <2>1, <2>3 DEF Refreshed, TypeInv, TypeOK, Law
    <2>4. CASE \E b \in Beams : SetLaw(b)
      BY <2>4 DEF SetLaw, TypeInv, TypeOK, Law
    <2> QED
      BY <2>2, <2>3, <2>4
  <1>3. names' \in [Slots -> BOOLEAN]
    BY DEF ChooseProbe, Refreshed, SetLaw, TypeInv, TypeOK
  <1> QED
    BY <1>1, <1>2, <1>3
    DEF ChooseProbe, Refreshed, SetLaw, TypeInv, TypeOK, Law, wizard, lawWizard, history

\* Every step keeps the types.
LEMMA TypeStep == TypeInv /\ [Next]_vars => TypeInv'
  <1> SUFFICES ASSUME TypeInv, [Next]_vars PROVE TypeInv'
    OBVIOUS
  <1>1. CASE UNCHANGED vars
    BY <1>1 DEF vars, config, wizard, lawWizard, history, TypeInv, TypeOK
  <1>2. ASSUME NEW n \in 0 .. groupQty, AddGroup(n) \/ AddGroupRefused(n) PROVE TypeInv'
    <2>1. n \in Nat
      BY DEF TypeInv, TypeOK
    <2> QED
      BY <1>2, <2>1, TypeAdd
  <1>3. CASE GroupWizardStep
    BY <1>2, <1>3, TypeWizardQuiet, TypeEditQuiet, TypeRemove, TypeWriteBack
    DEF GroupWizardStep
  <1>4. CASE LawWizardStep
    BY <1>4, TypeEditQuiet, TypeGenerate DEF LawWizardStep
  <1>5. CASE MenuStep
    BY <1>5, TypeEditQuiet, TypeRemove, TypeAddCopy, TypeMenuSet DEF MenuStep
  <1>6. CASE NetStep
    <2>1. 0 .. MaxGroups \subseteq Nat
      BY GroupsAssumption
    <2> QED
      BY <1>6, <2>1, TypeAdd, TypeRemove, TypeNetSet DEF NetStep
  <1> QED
    BY <1>1, <1>3, <1>4, <1>5, <1>6, TypeMenuSet DEF Next

LEMMA TypeInvariant == Spec => []TypeInv
  BY TypeInit, TypeStep, PTL DEF Spec

\* Type correctness, with or without commands of the PC under a wizard
THEOREM TypeCorrect == Spec => []TypeOK
  <1>1. TypeInv => TypeOK
    BY DEF TypeInv
  <1> QED
    BY <1>1, TypeInvariant, PTL

-----------------------------------------------------------------------------
(* The groups, when the PC leaves wizards and questions alone *)

GroupsTypedInv == TypeInv /\ GroupsInv

\* A step that changes no group but for its mode, beams and law loses none.
LEMMA RowsKept ==
  ASSUME NoGroupLost, UNCHANGED <<groupQty, roster>>,
         \A i \in Slots : group'[i].owner = group[i].owner
  PROVE  NoGroupLost'
  BY DEF NoGroupLost

\* The steps of the wizards and menus that leave the groups alone
LEMMA GroupsQuietRows ==
  ASSUME \/ OpenGroupWizard \/ ChooseGroup \/ SelectForEdit \/ SelectAdd
         \/ EditDone \/ Back \/ AskDelete
         \/ EditGroup \/ Escape \/ OpenLawWizard \/ SelectLawGroup \/ EditLaw
         \/ MoveInLawWizard \/ AskGenerate \/ SelectGroup \/ AskCopy \/ AnswerNo
  PROVE  UNCHANGED <<group, groupQty, laws, roster>>
  BY DEF OpenGroupWizard, ChooseGroup, SelectForEdit, SelectAdd,
         EditDone, Back, AskDelete, EditGroup, Escape, OpenLawWizard, SelectLawGroup,
         EditLaw, MoveInLawWizard, AskGenerate, SelectGroup, AskCopy, AnswerNo,
         config, history

\* The group wizard: selecting, moving, asking
LEMMA GroupsWizardQuiet ==
  ASSUME ~NetOverlaps, TypeInv, OneAtATime, Positions, WizardEditsItsGroup,
         CurrentGroupExists,
         \/ OpenGroupWizard \/ ChooseGroup \/ SelectForEdit \/ SelectAdd
         \/ EditDone \/ Back \/ AskDelete
  PROVE  OneAtATime' /\ Positions' /\ WizardEditsItsGroup' /\ CurrentGroupExists'
  <1> USE GroupsAssumption
      DEF TypeInv, TypeOK, OneAtATime, Positions, WizardEditsItsGroup, CurrentGroupExists,
          config, history, wizard, lawWizard, InGroupWizard, UserActs, NoDialog
  <1>1. CASE OpenGroupWizard
    BY <1>1 DEF OpenGroupWizard
  <1>2. CASE ChooseGroup
    BY <1>2 DEF ChooseGroup
  <1>3. CASE SelectForEdit
    BY <1>3 DEF SelectForEdit
  <1>4. CASE SelectAdd
    BY <1>4 DEF SelectAdd
  <1>6. CASE EditDone
    BY <1>6 DEF EditDone
  <1>7. CASE Back
    BY <1>7 DEF Back
  <1>8. CASE AskDelete
    BY <1>8 DEF AskDelete
  <1> QED
    BY <1>1, <1>2, <1>3, <1>4, <1>6, <1>7, <1>8

\* Editing the working copy, the focal law wizard, the menus
LEMMA GroupsEditQuiet ==
  ASSUME ~NetOverlaps, TypeInv, OneAtATime, Positions, WizardEditsItsGroup,
         CurrentGroupExists,
         \/ EditGroup \/ Escape \/ OpenLawWizard \/ SelectLawGroup \/ EditLaw
         \/ MoveInLawWizard \/ AskGenerate \/ SelectGroup \/ AskCopy \/ AnswerNo
  PROVE  OneAtATime' /\ Positions' /\ WizardEditsItsGroup' /\ CurrentGroupExists'
  <1> USE GroupsAssumption
      DEF TypeInv, TypeOK, OneAtATime, Positions, WizardEditsItsGroup, CurrentGroupExists,
          config, history, wizard, lawWizard, InGroupWizard, InLawWizard, AtMenus,
          UserActs, NoDialog
  <1>1. CASE EditGroup
    <2>1. tmpNames => tmpNames'
      BY <1>1 DEF EditGroup
    <2>2. tmpGroup'.owner = tmpGroup.owner
      BY <1>1 DEF EditGroup, Group
    <2>3. step = "EDIT" /\ lawStep = "START" /\ UNCHANGED <<groupQty, group, names>>
      BY <1>1 DEF EditGroup
    <2>4. UNCHANGED <<groupId, step, lastPopPos, wgroup_pos, lawStep, lawPopPos, dialog, stray>>
      BY <1>1 DEF EditGroup
    <2>5. WizardEditsItsGroup'
      BY <2>1, <2>2, <2>3, <2>4, Zenon DEF WizardEditsItsGroup
    <2> QED
      BY <2>3, <2>4, <2>5
  <1>2. CASE Escape
    BY <1>2 DEF Escape
  <1>3. CASE OpenLawWizard
    BY <1>3 DEF OpenLawWizard
  <1>4. CASE SelectLawGroup
    BY <1>4 DEF SelectLawGroup, PAGroups
  <1>5. CASE EditLaw
    BY <1>5 DEF EditLaw, Group
  <1>6. CASE MoveInLawWizard
    BY <1>6 DEF MoveInLawWizard
  <1>7. CASE AskGenerate
    BY <1>7 DEF AskGenerate
  <1>8. CASE SelectGroup
    BY <1>8 DEF SelectGroup
  <1>9. CASE AskCopy
    BY <1>9 DEF AskCopy
  <1>10. CASE AnswerNo
    BY <1>10 DEF AnswerNo
  <1> QED
    BY <1>1, <1>2, <1>3, <1>4, <1>5, <1>6, <1>7, <1>8, <1>9, <1>10

\* Adding a group at the end
LEMMA NewGroupRows ==
  ASSUME TypeInv, NoGroupLost, ~NetOverlaps, groupQty < MaxGroups,
         NEW index \in Nat, NEW o \in Fresh,
         NewGroup(WithNew(groupQty, index, o), groupQty, o)
  PROVE  NoGroupLost' /\ CurrentGroupExists'
  <1> DEFINE grp == WithNew(groupQty, index, o)
  <1>1. groupQty \in Slots /\ groupQty \in Nat
    BY GroupsAssumption DEF TypeInv, TypeOK, Slots
  <1>2. o \in Owners /\ o # NoOwner
    BY FreshType, GroupsAssumption
  <1>3. /\ grp \in [Slots -> Group]
        /\ \A i \in Slots : i # groupQty => grp[i] = group[i]
        /\ grp[groupQty].owner = o
    BY <1>1, <1>2, WithNewType DEF TypeInv, TypeOK
  <1>4. /\ group' = grp /\ groupQty' = groupQty + 1 /\ groupId' = groupQty
        /\ laws' = [laws EXCEPT ![groupQty] = LawOf(grp[groupQty])]
        /\ roster' = [roster EXCEPT ![groupQty] = o]
    BY DEF NewGroup
  <1> HIDE DEF grp
  <1>5. NoGroupLost'
    <2> SUFFICES ASSUME NEW i \in Slots
                 PROVE  /\ group'[i].owner = roster'[i]
                        /\ i < groupQty' <=> group'[i].owner # NoOwner
      BY DEF NoGroupLost
    <2>1. CASE i = groupQty
      BY <1>1, <1>2, <1>3, <1>4, <2>1 DEF TypeInv, TypeOK
    <2>2. CASE i # groupQty
      <3>1. group'[i] = group[i] /\ roster'[i] = roster[i]
        BY <1>3, <1>4, <2>2 DEF TypeInv, TypeOK
      <3>2. i < groupQty' <=> i < groupQty
        BY <1>1, <1>4, <2>2, GroupsAssumption DEF Slots
      <3> QED
        BY <3>1, <3>2 DEF NoGroupLost
    <2> QED
      BY <2>1, <2>2
  <1>7. CurrentGroupExists'
    BY <1>1, <1>4 DEF CurrentGroupExists
  <1> QED
    BY <1>5, <1>7

\* Removing a group
LEMMA RemovedRows ==
  ASSUME TypeInv, NoGroupLost, ~NetOverlaps, NEW i \in 0 .. groupQty - 1, groupQty > 1,
         group' = WithoutGroup(i), groupQty' = groupQty - 1,
         roster' = Without(roster, groupQty, i, NoOwner)
  PROVE  NoGroupLost'
  <1>1. groupQty \in Nat /\ groupQty <= MaxGroups
    BY GroupsAssumption DEF TypeInv, TypeOK
  <1> SUFFICES ASSUME NEW j \in Slots
               PROVE  /\ group'[j].owner = roster'[j]
                      /\ j < groupQty' <=> group'[j].owner # NoOwner
    BY DEF NoGroupLost
  <1>2. j \in Int
    BY DEF Slots
  <1>3. CASE j < i
    <2>1. group'[j] = group[j] /\ roster'[j] = roster[j]
      BY <1>3 DEF WithoutGroup, Without
    <2>2. j < groupQty /\ j < groupQty'
      BY <1>1, <1>2, <1>3
    <2> QED
      BY <2>1, <2>2 DEF NoGroupLost
  <1>4. CASE ~(j < i) /\ j < groupQty - 1
    <2>1. group'[j] = group[j + 1] /\ roster'[j] = roster[j + 1]
      BY <1>4 DEF WithoutGroup, Without
    <2>2. j + 1 \in Slots /\ j + 1 < groupQty
      BY <1>1, <1>4, GroupsAssumption DEF Slots
    <2> QED
      BY <1>4, <2>1, <2>2 DEF NoGroupLost
  <1>5. CASE ~(j < i) /\ ~(j < groupQty - 1)
    <2>1. group'[j] = Unused /\ roster'[j] = NoOwner
      BY <1>5 DEF WithoutGroup, Without
    <2> QED
      BY <1>5, <2>1 DEF Unused, Blank
  <1> QED
    BY <1>3, <1>4, <1>5

\* Writing a group back over itself
LEMMA WrittenRows ==
  ASSUME TypeInv, NoGroupLost, ~NetOverlaps,
         NEW pos \in Slots, NEW g \in Group, pos < groupQty, g.owner = group[pos].owner,
         group' = [group EXCEPT ![pos] = g], UNCHANGED <<groupQty, roster>>
  PROVE  NoGroupLost'
  <1>1. \A i \in Slots : group'[i].owner = group[i].owner
    BY DEF TypeInv, TypeOK
  <1> QED
    BY <1>1, RowsKept

-----------------------------------------------------------------------------
(* The steps that change the groups *)

\* Adding from the group wizard
LEMMA GroupsAdd ==
  ASSUME ~NetOverlaps, TypeInv, GroupsInv, NEW index \in Nat,
         AddGroup(index) \/ AddGroupRefused(index)
  PROVE  GroupsInv'
  <1> USE DEF GroupsInv
  <1>1. groupQty \in Nat \ {0} /\ (AddGroup(index) => groupQty < MaxGroups)
    BY DEF TypeInv, TypeOK, AddGroup
  <1>2. /\ dialog = NoDialog /\ UNCHANGED <<dialog, lastPopPos, lawStep>> /\ lawStep = "START"
        /\ lastPopPos = groupQty /\ wgroup_pos = groupQty
    BY DEF AddGroup, AddGroupRefused, InGroupWizard, UserActs, Positions
  <1>3. CASE AddGroup(index)
    <2>1. PICK o \in Fresh :
            LET grp == WithNew(groupQty, index, o)
            IN /\ NewGroup(grp, groupQty, o)
               /\ step' = AfterAdd(index, groupQty + 1)
               /\ IF step' = "EDIT"
                  THEN /\ tmpGroup' = grp[groupQty] /\ tmpNames' = names'[groupQty]
                       /\ wgroup_pos' = groupQty /\ UNCHANGED lawPopPos
                  ELSE DropWork
      BY <1>3 DEF AddGroup
    <2>3. NoGroupLost' /\ CurrentGroupExists'
      BY <1>1, <1>3, <2>1, NewGroupRows
    <2>4. step' \in {"EDIT", "START"}
      BY <2>1 DEF AfterAdd
    <2>5. group' = WithNew(groupQty, index, o)
      BY <2>1 DEF NewGroup
    <2>6. OneAtATime' /\ Positions' /\ WizardEditsItsGroup'
      BY <1>2, <2>1, <2>4, <2>5 DEF OneAtATime, Positions, WizardEditsItsGroup, NoDialog
    <2> QED
      BY <2>3, <2>6
  <1>4. CASE AddGroupRefused(index)
    <2>1. UNCHANGED <<group, groupQty, groupId, laws, names, roster, stray>>
      BY <1>4 DEF AddGroupRefused, config, history
    <2>2. NoGroupLost'
      BY <2>1, RowsKept
    <2>3. CurrentGroupExists'
      BY <2>1 DEF CurrentGroupExists
    <2>4. CASE groupQty = MaxGroups
      <3>1. UNCHANGED <<step, wgroup_pos, tmpGroup, tmpNames, lawPopPos>>
        BY <1>4, <2>4 DEF AddGroupRefused, wizard
      <3>2. OneAtATime' /\ Positions' /\ WizardEditsItsGroup'
        BY <1>2, <2>1, <3>1 DEF OneAtATime, Positions, WizardEditsItsGroup
      <3> QED
        BY <2>2, <2>3, <3>2
    <2>5. CASE groupQty # MaxGroups
      <3>1. step' \in {"EDIT", "START"} /\ (step' = "EDIT" => UNCHANGED wgroup_pos)
        BY <1>4, <2>5 DEF AddGroupRefused, AfterAdd
      <3>2. OneAtATime' /\ Positions' /\ WizardEditsItsGroup'
        BY <1>1, <1>2, <2>1, <3>1 DEF OneAtATime, Positions, WizardEditsItsGroup, NoDialog
      <3> QED
        BY <2>2, <2>3, <3>2
    <2> QED
      BY <2>4, <2>5
  <1> QED
    BY <1>3, <1>4

\* Adding from the group menu or the PC
LEMMA GroupsAddCopy ==
  ASSUME ~NetOverlaps, TypeInv, GroupsInv, NEW copy \in BOOLEAN, MultiGroupAdd(copy)
  PROVE  GroupsInv'
  <1> USE DEF GroupsInv
  <1> DEFINE index == IF copy THEN 0 ELSE groupQty
  <1>1. groupQty \in Nat \ {0} /\ index \in Nat
    BY DEF TypeInv, TypeOK
  <1>2. dialog.kind = "copy" /\ dialog.arg = groupQty /\ groupQty < MaxGroups
    BY DEF MultiGroupAdd, OneAtATime
  <1>3. step = "START" /\ lawStep = "START" /\ UNCHANGED <<step, lawStep>>
    BY <1>2 DEF MultiGroupAdd, OneAtATime, wizard, lawWizard
  <1>4. dialog' = NoDialog
    BY DEF MultiGroupAdd
  <1>5. \/ UNCHANGED <<group, groupQty, groupId, roster, stray>>
        \/ \E o \in Fresh : NewGroup(WithNew(groupQty, index, o), groupQty, o)
    BY <1>2 DEF MultiGroupAdd, history
  <1>6. NoGroupLost' /\ CurrentGroupExists'
    <2>1. CASE UNCHANGED <<group, groupQty, groupId, roster, stray>>
      BY <2>1, RowsKept DEF CurrentGroupExists
    <2>2. ASSUME NEW o \in Fresh, NewGroup(WithNew(groupQty, index, o), groupQty, o)
          PROVE  NoGroupLost' /\ CurrentGroupExists'
      <3> HIDE DEF index
      <3> QED
        BY <1>1, <1>2, <2>2, NewGroupRows
    <2> QED
      BY <1>5, <2>1, <2>2
  <1>7. OneAtATime' /\ Positions' /\ WizardEditsItsGroup'
    BY <1>3, <1>4 DEF OneAtATime, Positions, WizardEditsItsGroup, NoDialog
  <1> QED
    BY <1>6, <1>7

\* With no wizard and no question open, only the groups matter.
LEMMA AtRest ==
  ASSUME step = "START", lawStep = "START", dialog = NoDialog,
         UNCHANGED <<step, lawStep, dialog>>
  PROVE  OneAtATime' /\ Positions' /\ WizardEditsItsGroup'
  BY DEF OneAtATime, Positions, WizardEditsItsGroup, NoDialog

LEMMA GroupsNet ==
  ASSUME ~NetOverlaps, TypeInv, GroupsInv, NEW n \in Nat,
         NetAddOneGroup(n) \/ NetDeleteOneGroup(n)
  PROVE  GroupsInv'
  <1> USE DEF GroupsInv
  <1>1. /\ step = "START" /\ lawStep = "START" /\ dialog = NoDialog
        /\ UNCHANGED <<step, lawStep, dialog>>
    BY DEF NetAddOneGroup, NetDeleteOneGroup, NetCommand, Overlaps
  <1>2. OneAtATime' /\ Positions' /\ WizardEditsItsGroup'
    BY <1>1, AtRest
  <1>3. groupQty \in 1 .. MaxGroups /\ MaxGroups \in Nat
    BY GroupsAssumption DEF TypeInv, TypeOK
  <1>4. CASE UNCHANGED <<config, history>>
    BY <1>2, <1>4, RowsKept DEF config, history, CurrentGroupExists
  <1>5. CASE NetAddOneGroup(n) /\ ~UNCHANGED <<config, history>>
    <2>1. groupQty < MaxGroups
      BY <1>3, <1>5 DEF NetAddOneGroup
    <2>2. PICK o \in Fresh : NewGroup(WithNew(groupQty, n, o), groupQty, o)
      BY <1>5 DEF NetAddOneGroup
    <2>3. NoGroupLost' /\ CurrentGroupExists'
      BY <2>1, <2>2, NewGroupRows
    <2> QED
      BY <1>2, <2>3
  <1>6. CASE NetDeleteOneGroup(n) /\ ~UNCHANGED <<config, history>>
    <2> DEFINE i == IF n < groupQty THEN n ELSE groupQty - 1
    <2>1. /\ group' = WithoutGroup(i) /\ groupQty' = groupQty - 1 /\ groupQty > 1
          /\ groupId' = LastAfterDelete(groupQty)
          /\ roster' = Without(roster, groupQty, i, NoOwner)
      BY <1>6 DEF NetDeleteOneGroup
    <2>2. i \in 0 .. groupQty - 1
      BY <1>3
    <2>3. groupId' < groupQty'
      BY <1>3, <2>1 DEF LastAfterDelete
    <2> HIDE DEF i
    <2>4. NoGroupLost'
      BY <2>1, <2>2, RemovedRows
    <2> QED
      BY <1>2, <2>3, <2>4 DEF CurrentGroupExists
  <1> QED
    BY <1>4, <1>5, <1>6

\* Choosing the current group from the PC
LEMMA GroupsNetSelect ==
  ASSUME TypeInv, GroupsInv, NEW id \in Ids, NetSelectGroup(id)
  PROVE  GroupsInv'
  <1> USE DEF GroupsInv
  <1>1. /\ UNCHANGED <<group, groupQty, names, step, wgroup_pos, tmpGroup, tmpNames, lawPopPos,
                       lawStep, dialog, roster>>
        /\ groupId' = id /\ stray' = (id >= groupQty)
    BY DEF NetSelectGroup, work
  <1>2. lastPopPos' = lastPopPos \/ step = "GROUP_SELECT"
    BY DEF NetSelectGroup, DrawMenu3
  <1>3. NoGroupLost'
    BY <1>1, RowsKept
  <1>4. CurrentGroupExists'
    <2>1. ~stray' => ~(id >= groupQty)
      BY <1>1
    <2>2. ~(id >= groupQty) => id < groupQty
      BY DEF Ids, TypeInv, TypeOK
    <2> QED
      BY <1>1, <2>1, <2>2 DEF CurrentGroupExists
  <1>5. OneAtATime' /\ Positions' /\ WizardEditsItsGroup'
    BY <1>1, <1>2 DEF OneAtATime, Positions, WizardEditsItsGroup
  <1> QED
    BY <1>3, <1>4, <1>5

\* The law parameters, set by the menus or the PC, the choice of a probe, and the
\* responses change the beams, law and names of a group in use, not whose it is.
LEMMA GroupsSet ==
  ASSUME TypeInv, GroupsInv,
         \/ ChooseProbe \/ Refreshed
         \/ \E b \in Beams : SetLaw(b)
         \/ \E i \in Slots, b \in Beams : NetSetLaw(i, b)
  PROVE  GroupsInv'
  <1> USE DEF GroupsInv
  <1>1. \A i \in Slots : group'[i].owner = group[i].owner
    <2> SUFFICES ASSUME NEW i \in Slots PROVE group'[i].owner = group[i].owner
      OBVIOUS
    <2>1. group \in [Slots -> Group] /\ group[i] \in Group
      BY DEF TypeInv, TypeOK
    <2>2. UNCHANGED group \/ \E j, b : group' = [group EXCEPT ![j].beams = b]
      BY DEF ChooseProbe, Refreshed, SetLaw, NetSetLaw
    <2> QED
      BY <2>1, <2>2 DEF Group
  <1>2. /\ UNCHANGED <<groupQty, groupId, step, wgroup_pos, tmpGroup, tmpNames, lawPopPos,
                       lawStep, dialog, roster, stray>>
        /\ lastPopPos' = lastPopPos \/ step = "GROUP_SELECT"
        /\ UNCHANGED names \/ step = "START"
    BY DEF ChooseProbe, Refreshed, SetLaw, NetSetLaw, DrawMenu3, wizard, lawWizard, work,
           history, AtMenus
  <1>3. NoGroupLost' /\ CurrentGroupExists'
    BY <1>1, <1>2, RowsKept DEF CurrentGroupExists
  <1>4. OneAtATime' /\ Positions'
    BY <1>2 DEF OneAtATime, Positions
  <1>5. WizardEditsItsGroup'
    <2>1. wgroup_pos \in Slots /\ lawPopPos \in Slots
      BY DEF TypeInv, TypeOK
    <2> QED
      BY <1>1, <1>2, <2>1 DEF WizardEditsItsGroup
  <1> QED
    BY <1>3, <1>4, <1>5

\* Removing from the group wizard or the group menu
LEMMA GroupsRemove ==
  ASSUME ~NetOverlaps, TypeInv, GroupsInv, DeleteGroup \/ MultiGroupDelete
  PROVE  GroupsInv'
  <1> USE DEF GroupsInv
  <1>1. groupQty \in 1 .. MaxGroups /\ MaxGroups \in Nat
    BY GroupsAssumption DEF TypeInv, TypeOK
  <1>2. CASE DeleteGroup
    <2>1. /\ dialog.kind = "delete" /\ dialog' = NoDialog /\ UNCHANGED <<step, lawStep>>
          /\ step = "GROUP_SELECT" /\ groupQty > 1 /\ dialog.arg < groupQty
          /\ lawStep = "START"
      BY <1>2 DEF DeleteGroup, OneAtATime
    <2>2. /\ group' = WithoutGroup(dialog.arg) 
          /\ groupQty' = groupQty - 1 /\ groupId' = 0
          /\ roster' = Without(roster, groupQty, dialog.arg, NoOwner)
      BY <1>1, <1>2, <2>1 DEF DeleteGroup
    <2>3. dialog.arg \in 0 .. groupQty - 1
      BY <1>1, <2>1 DEF TypeInv, TypeOK, Slots
    <2>4. NoGroupLost'
      BY <2>1, <2>2, <2>3, RemovedRows
    <2>5. CurrentGroupExists'
      BY <1>1, <2>1, <2>2 DEF CurrentGroupExists
    <2>6. OneAtATime' /\ Positions' /\ WizardEditsItsGroup'
      BY <2>1 DEF OneAtATime, Positions, WizardEditsItsGroup, NoDialog
    <2> QED
      BY <2>4, <2>5, <2>6
  <1>3. CASE MultiGroupDelete
    <2>1. /\ group' = WithoutGroup(groupQty - 1) /\ groupQty > 1 /\ groupQty' = groupQty - 1
          /\ groupId' = LastAfterDelete(groupQty)
          /\ roster' = Without(roster, groupQty, groupQty - 1, NoOwner)
      BY <1>3 DEF MultiGroupDelete
    <2>2. NoGroupLost'
      <3>1. groupQty - 1 \in 0 .. groupQty - 1
        BY <1>1
      <3> QED
        BY <2>1, <3>1, RemovedRows
    <2>3. CurrentGroupExists'
      BY <1>1, <2>1 DEF CurrentGroupExists, LastAfterDelete
    <2>4. OneAtATime' /\ Positions' /\ WizardEditsItsGroup'
      BY <1>3, AtRest DEF MultiGroupDelete, AtMenus, UserActs, wizard, lawWizard
    <2> QED
      BY <2>2, <2>3, <2>4
  <1> QED
    BY <1>2, <1>3

\* The working copy is written back over the group it was taken from.
LEMMA GroupsFinish ==
  ASSUME ~NetOverlaps, TypeInv, GroupsInv, FinishWizard \/ ContinueWithLaw
  PROVE  GroupsInv'
  <1> USE DEF GroupsInv
  <1> DEFINE new == UTgroup(tmpGroup)
  <1>1. /\ step = "FINISH" /\ step' = "START" /\ lawStep = "START"
        /\ dialog = NoDialog /\ dialog' = NoDialog /\ Finish
        /\ UNCHANGED <<groupQty, roster>>
    BY DEF FinishWizard, ContinueWithLaw, Finish, InGroupWizard, UserActs
  <1>2. wgroup_pos \in Slots /\ wgroup_pos = lastPopPos /\ groupQty \in Nat
    BY <1>1 DEF TypeInv, TypeOK, Positions
  <1>3. new \in Group /\ new.owner = tmpGroup.owner /\ (tmpGroup.mode = "PA" => new = tmpGroup)
    BY UTgroupType DEF TypeInv, TypeOK
  <1>4. CASE wgroup_pos < groupQty
    <2>1. /\ group' = [group EXCEPT ![wgroup_pos] = new]
          /\ names' = [names EXCEPT ![wgroup_pos] = tmpNames]
          /\ groupId' = wgroup_pos
      BY <1>1, <1>4 DEF Finish
    <2>2. new.owner = group[wgroup_pos].owner
      BY <1>1, <1>3, <1>4 DEF WizardEditsItsGroup
    <2> HIDE DEF new
    <2>3. NoGroupLost'
      BY <1>1, <1>2, <1>3, <1>4, <2>1, <2>2, WrittenRows
    <2>4. CurrentGroupExists'
      BY <1>1, <1>4, <2>1 DEF CurrentGroupExists
    <2>5. group'[wgroup_pos] = new
      BY <1>2, <2>1 DEF TypeInv, TypeOK
    <2>6. OneAtATime' /\ Positions' /\ WizardEditsItsGroup'
      <3>1. CASE FinishWizard
        BY <1>1, <3>1 DEF FinishWizard, OneAtATime, Positions, WizardEditsItsGroup, NoDialog
      <3>2. CASE ContinueWithLaw
        <4>1. lawPopPos' = wgroup_pos /\ tmpGroup' = tmpGroup /\ tmpGroup.mode = "PA"
          BY <1>2, <3>2 DEF ContinueWithLaw
        <4> QED
          BY <1>1, <1>3, <2>2, <2>5, <4>1
          DEF OneAtATime, Positions, WizardEditsItsGroup, NoDialog
      <3> QED
        BY <3>1, <3>2
    <2> QED
      BY <2>3, <2>4, <2>6
  <1>5. CASE ~(wgroup_pos < groupQty)
    <2>1. UNCHANGED <<group, groupQty, roster>> /\ stray'
      <3>1. wgroup_pos >= groupQty
        BY <1>2, <1>5 DEF Slots
      <3> QED
        BY <1>1, <1>5, <3>1 DEF Finish
    <2>2. NoGroupLost'
      BY <2>1 DEF NoGroupLost
    <2>3. CurrentGroupExists'
      BY <2>1 DEF CurrentGroupExists
    <2>4. OneAtATime' /\ Positions'
      BY <1>1 DEF OneAtATime, Positions, NoDialog
    <2>5. WizardEditsItsGroup'
      <3>1. lawStep' \in {"EDIT", "GENERATE"} => lawPopPos' = wgroup_pos
        BY <1>1, <1>2 DEF FinishWizard, ContinueWithLaw
      <3> QED
        BY <1>1, <1>5, <2>1, <3>1 DEF WizardEditsItsGroup
    <2> QED
      BY <2>2, <2>3, <2>4, <2>5
  <1> QED
    BY <1>4, <1>5

\* The focal law wizard writes back the group it was opened for.
LEMMA GroupsGenerate ==
  ASSUME ~NetOverlaps, TypeInv, GroupsInv, Generate
  PROVE  GroupsInv'
  <1> USE DEF GroupsInv
  <1>1. /\ dialog.kind = "generate" /\ dialog' = NoDialog /\ lawStep = "GENERATE"
        /\ step = "START" /\ UNCHANGED <<step, roster>>
    BY DEF Generate, OneAtATime
  <1>2. lawPopPos \in Slots /\ tmpGroup \in Group
    BY DEF TypeInv, TypeOK
  <1>3. CASE UNCHANGED <<config, lawStep, work, stray>>
    <2>1. UNCHANGED <<group, groupQty, groupId, lawStep, lawPopPos, tmpGroup, stray>>
      BY <1>3 DEF config, work
    <2>2. NoGroupLost' /\ CurrentGroupExists'
      BY <1>1, <2>1, RowsKept DEF CurrentGroupExists
    <2>3. OneAtATime' /\ Positions' /\ WizardEditsItsGroup'
      BY <1>1, <2>1 DEF OneAtATime, Positions, WizardEditsItsGroup, NoDialog
    <2> QED
      BY <2>2, <2>3
  <1>4. CASE ~UNCHANGED <<config, lawStep, work, stray>>
    <2>1. /\ groupId' = lawPopPos /\ lawStep' = "START" /\ UNCHANGED groupQty
          /\ IF lawPopPos < groupQty
             THEN group' = [group EXCEPT ![lawPopPos] = tmpGroup]
             ELSE stray' /\ UNCHANGED group
      <3>1. /\ groupId' = lawPopPos /\ lawStep' = "START" /\ UNCHANGED groupQty
            /\ stray' = (lawPopPos >= groupQty)
            /\ IF lawPopPos < groupQty
               THEN group' = [group EXCEPT ![lawPopPos] = tmpGroup]
               ELSE UNCHANGED group
        BY <1>4 DEF Generate
      <3>2. ~(lawPopPos < groupQty) => lawPopPos >= groupQty
        BY <1>2 DEF Slots, TypeInv, TypeOK
      <3> QED
        BY <3>1, <3>2
    <2>2. OneAtATime' /\ Positions' /\ WizardEditsItsGroup'
      BY <1>1, <2>1 DEF OneAtATime, Positions, WizardEditsItsGroup, NoDialog
    <2>3. NoGroupLost' /\ CurrentGroupExists'
      <3>1. CASE lawPopPos < groupQty
        <4>1. tmpGroup.owner = group[lawPopPos].owner
          BY <1>1, <3>1 DEF WizardEditsItsGroup
        <4>2. NoGroupLost'
          BY <1>1, <1>2, <2>1, <3>1, <4>1, WrittenRows
        <4> QED
          BY <2>1, <3>1, <4>2 DEF CurrentGroupExists
      <3>2. CASE ~(lawPopPos < groupQty)
        BY <1>1, <2>1, <3>2 DEF NoGroupLost, CurrentGroupExists
      <3> QED
        BY <3>1, <3>2
    <2> QED
      BY <2>2, <2>3
  <1> QED
    BY <1>3, <1>4

-----------------------------------------------------------------------------
(* The limits on beams *)

\* Whoever has no more beams than a list that passes the checks passes them too.
LEMMA StillAvailable ==
  ASSUME NEW g1 \in [Slots -> Group], NEW n1 \in 0 .. MaxGroups,
         NEW g2 \in [Slots -> Group], NEW n2 \in 0 .. MaxGroups,
         NEW f \in Injection(0 .. n1 - 1, 0 .. n2 - 1),
         \A i \in 0 .. n1 - 1 : BeamQty(g1[i]) <= BeamQty(g2[f[i]]),
         ~Unavailable(g2, n2)
  PROVE  ~Unavailable(g1, n1)
  <1>1. TotalBeamQty(g1, n1) <= TotalBeamQty(g2, n2)
    BY NoMoreBeams
  <1>2. /\ TotalBeamQty(g1, n1) \in Nat /\ TotalBeamQty(g2, n2) \in Nat
        /\ TotalBeams \in Nat /\ GroupBeams \in Nat
    BY AllBeamsFinite, GroupsAssumption
  <1>3. ASSUME NEW i \in 0 .. n1 - 1 PROVE ~(BeamQty(g1[i]) > GroupBeams)
    <2>1. f[i] \in 0 .. n2 - 1
      BY DEF Injection
    <2>2. i \in Slots /\ f[i] \in Slots
      BY <2>1, GroupsAssumption DEF Slots
    <2>3. BeamQty(g1[i]) \in Nat /\ BeamQty(g2[f[i]]) \in Nat
      BY <2>2, BeamQtyNat
    <2>4. ~(BeamQty(g2[f[i]]) > GroupBeams)
      BY <2>1 DEF Unavailable
    <2> QED
      BY <1>2, <2>3, <2>4
  <1>4. ~(TotalBeamQty(g1, n1) > TotalBeams)
    BY <1>1, <1>2 DEF Unavailable
  <1> QED
    BY <1>3, <1>4 DEF Unavailable

\* The same list, with no more beams in any group
LEMMA EditedAvailable ==
  ASSUME NEW g1 \in [Slots -> Group], NEW g2 \in [Slots -> Group], NEW n \in 0 .. MaxGroups,
         \A i \in 0 .. n - 1 : BeamQty(g1[i]) <= BeamQty(g2[i]),
         ~Unavailable(g2, n)
  PROVE  ~Unavailable(g1, n)
  <1> DEFINE id == [i \in 0 .. n - 1 |-> i]
  <1>1. id \in Injection(0 .. n - 1, 0 .. n - 1)
    BY DEF Injection, IsInjective
  <1>2. \A i \in 0 .. n - 1 : BeamQty(g1[i]) <= BeamQty(g2[id[i]])
    OBVIOUS
  <1> HIDE DEF id
  <1> QED
    BY <1>1, <1>2, StillAvailable

\* The list without one of its groups
LEMMA RemovedAvailable ==
  ASSUME NEW g \in [Slots -> Group], NEW n \in 1 .. MaxGroups, NEW i \in 0 .. n - 1,
         ~Unavailable(g, n)
  PROVE  ~Unavailable(Without(g, n, i, Unused), n - 1)
  <1> DEFINE shift == [j \in 0 .. n - 1 - 1 |-> IF j < i THEN j ELSE j + 1]
             rest == Without(g, n, i, Unused)
  <1>1. shift \in Injection(0 .. n - 1 - 1, 0 .. n - 1)
    BY DEF Injection, IsInjective
  <1>2. rest \in [Slots -> Group]
    <2>1. i \in Int /\ Unused \in Group
      BY UnusedType
    <2> QED
      BY <2>1, WithoutType
  <1>3. n - 1 \in 0 .. MaxGroups /\ n \in 0 .. MaxGroups
    BY GroupsAssumption
  <1>4. ASSUME NEW j \in 0 .. n - 1 - 1 PROVE BeamQty(rest[j]) <= BeamQty(g[shift[j]])
    <2>1. j \in Slots /\ shift[j] \in Slots
      BY GroupsAssumption DEF Slots
    <2>2. rest[j] = g[shift[j]]
      BY <2>1 DEF Without
    <2>3. BeamQty(g[shift[j]]) \in Nat
      BY <2>1, BeamQtyNat
    <2> QED
      BY <2>2, <2>3
  <1> HIDE DEF shift, rest
  <1>5. ~Unavailable(rest, n - 1)
    BY <1>1, <1>2, <1>3, <1>4, StillAvailable
  <1> QED
    BY <1>5 DEF rest

\* The limits are those the checks look at.
LEMMA LimitsAreChecked ==
  ASSUME NEW grp \in [Slots -> Group], NEW n \in 0 .. MaxGroups
  PROVE  ~Unavailable(grp, n) <=> Within(grp, n)
  <1>1. TotalBeamQty(grp, n) \in Nat /\ TotalBeams \in Nat /\ GroupBeams \in Nat
    BY AllBeamsFinite, GroupsAssumption
  <1>2. ASSUME NEW i \in 0 .. n - 1 PROVE BeamQty(grp[i]) \in Nat
    <2>1. i \in Slots
      BY GroupsAssumption DEF Slots
    <2> QED
      BY <2>1, BeamQtyNat
  <1>3. (\A i \in 0 .. n - 1 : BeamQty(grp[i]) <= GroupBeams) <=>
        ~(\E i \in 0 .. n - 1 : BeamQty(grp[i]) > GroupBeams)
    BY <1>1, <1>2
  <1>4. TotalBeamQty(grp, n) <= TotalBeams <=> ~(TotalBeamQty(grp, n) > TotalBeams)
    BY <1>1
  <1> QED
    BY <1>3, <1>4 DEF Unavailable, Within

\* A new group is in use only if the groups with it pass the checks, under whatever name
\* they were looked at.
LEMMA LimitsNew ==
  ASSUME TypeInv, groupQty < MaxGroups, NEW index \in Nat, NEW o \in Fresh,
         NEW o2 \in Owners \cup {NoOwner},
         ~Unavailable(WithNew(groupQty, index, o2), groupQty + 1),
         NewGroup(WithNew(groupQty, index, o), groupQty, o)
  PROVE  ~Unavailable(group', groupQty')
  <1> DEFINE new == WithNew(groupQty, index, o)
             seen == WithNew(groupQty, index, o2)
  <1>1. groupQty \in Nat /\ groupQty \in Slots /\ groupQty + 1 \in 0 .. MaxGroups
    BY GroupsAssumption DEF TypeInv, TypeOK, Slots
  <1>2. new \in [Slots -> Group] /\ seen \in [Slots -> Group]
    BY <1>1, FreshType, WithNewType DEF TypeInv, TypeOK
  <1>3. ASSUME NEW i \in 0 .. groupQty + 1 - 1 PROVE BeamQty(new[i]) <= BeamQty(seen[i])
    <2>1. i \in Slots
      BY <1>1, GroupsAssumption DEF Slots
    <2>2. BeamQty(seen[i]) \in Nat
      BY <1>2, <2>1, BeamQtyNat
    <2>3. BeamQty(new[i]) = BeamQty(seen[i])
      <3>1. new[i].mode = seen[i].mode /\ new[i].beams = seen[i].beams
        <4>1. ASSUME index < groupQty PROVE group[index] \in Group
          <5>1. index \in Slots
            BY <1>1, <4>1, GroupsAssumption DEF Slots
          <5> QED
            BY <5>1 DEF TypeInv, TypeOK
        <4>2. CASE i = groupQty
          BY <2>1, <4>1, <4>2 DEF WithNew, CopyOf, Blank, Group, TypeInv, TypeOK
        <4>3. CASE i # groupQty
          BY <2>1, <4>3 DEF WithNew, TypeInv, TypeOK
        <4> QED
          BY <4>2, <4>3
      <3> QED
        BY <3>1 DEF BeamQty
    <2> QED
      BY <2>2, <2>3
  <1>4. group' = new /\ groupQty' = groupQty + 1
    BY DEF NewGroup
  <1>5. ~Unavailable(seen, groupQty + 1)
    OBVIOUS
  <1> DEFINE qty == groupQty + 1
  <1> HIDE DEF new, seen
  <1>6. qty \in 0 .. MaxGroups /\ ~Unavailable(seen, qty)
    BY <1>1, <1>5
  <1>7. \A i \in 0 .. qty - 1 : BeamQty(new[i]) <= BeamQty(seen[i])
    BY <1>1, <1>3
  <1>8. group' = new /\ groupQty' = qty
    BY <1>4
  <1> HIDE DEF qty
  <1>9. ~Unavailable(new, qty)
    BY <1>2, <1>6, <1>7, EditedAvailable
  <1> QED
    BY <1>8, <1>9

\* A removed group takes its beams with it.
LEMMA LimitsRemoved ==
  ASSUME TypeInv, ~Unavailable(group, groupQty), NEW i \in 0 .. groupQty - 1,
         group' = WithoutGroup(i), groupQty' = groupQty - 1
  PROVE  ~Unavailable(group', groupQty')
  <1>1. groupQty \in 1 .. MaxGroups /\ group \in [Slots -> Group]
    BY DEF TypeInv, TypeOK
  <1> QED
    BY <1>1, RemovedAvailable DEF WithoutGroup

\* A step that changes no group and adds none keeps the limits.
LEMMA LimitsSame ==
  ASSUME TypeInv, UNCHANGED <<group, groupQty>>
  PROVE  LimitsKept
  BY DEF LimitsKept, TypeInv, TypeOK

\* A step after which the checks pass keeps the limits.
LEMMA LimitsAfter ==
  ASSUME TypeInv', ~Unavailable(group', groupQty')
  PROVE  LimitsKept
  <1>1. group' \in [Slots -> Group] /\ groupQty' \in 0 .. MaxGroups
    BY DEF TypeInv, TypeOK
  <1>2. Within(group', groupQty')
    BY <1>1, LimitsAreChecked
  <1> QED
    BY <1>2 DEF LimitsKept

\* Adding: what was looked at is what is then in use.
LEMMA LimitsAdd ==
  ASSUME ~NetOverlaps, TypeInv, OneAtATime, NEW index \in Nat,
         \/ AddGroup(index) \/ AddGroupRefused(index) \/ NetAddOneGroup(index)
         \/ \E copy \in BOOLEAN : MultiGroupAdd(copy)
  PROVE  LimitsKept
  <1>1. TypeInv'
    BY TypeAdd, TypeAddCopy
  <1>3. groupQty \in 1 .. MaxGroups /\ MaxGroups \in Nat
    BY GroupsAssumption DEF TypeInv, TypeOK
  <1>4. CASE UNCHANGED <<group, groupQty>>
    BY <1>4, LimitsSame
  <1>5. CASE AddGroup(index)
    <2>1. PICK o \in Fresh : /\ ~Unavailable(WithNew(groupQty, index, o), groupQty + 1)
                             /\ NewGroup(WithNew(groupQty, index, o), groupQty, o)
      BY <1>5 DEF AddGroup
    <2>2. groupQty < MaxGroups /\ o \in Owners \cup {NoOwner}
      BY <1>5, FreshType DEF AddGroup
    <2>3. ~Unavailable(group', groupQty')
      BY <2>1, <2>2, LimitsNew
    <2> QED
      BY <1>1, <2>3, LimitsAfter
  <1>6. CASE AddGroupRefused(index)
    BY <1>4, <1>6 DEF AddGroupRefused, config
  <1>7. CASE NetAddOneGroup(index) /\ ~UNCHANGED <<group, groupQty>>
    <2>1. groupQty < MaxGroups
      BY <1>3, <1>7 DEF NetAddOneGroup, config
    <2>2. PICK o \in Fresh : /\ ~Unavailable(WithNew(groupQty, index, NoOwner), groupQty + 1)
                             /\ NewGroup(WithNew(groupQty, index, o), groupQty, o)
      BY <1>7 DEF NetAddOneGroup, config
    <2>3. ~Unavailable(group', groupQty')
      BY <2>1, <2>2, LimitsNew
    <2> QED
      BY <1>1, <2>3, LimitsAfter
  <1>8. ASSUME NEW copy \in BOOLEAN, MultiGroupAdd(copy), ~UNCHANGED <<group, groupQty>>
        PROVE  LimitsKept
    <2> DEFINE source == IF copy THEN 0 ELSE groupQty
    <2>1. dialog.arg = groupQty /\ groupQty < MaxGroups
      BY <1>8 DEF MultiGroupAdd, OneAtATime
    <2>2. source \in Nat
      BY <1>3
    <2>3. PICK o \in Fresh : /\ ~Unavailable(WithNew(groupQty, source, NoOwner), groupQty + 1)
                             /\ NewGroup(WithNew(groupQty, source, o), groupQty, o)
      BY <1>8, <2>1 DEF MultiGroupAdd
    <2> HIDE DEF source
    <2>4. ~Unavailable(group', groupQty')
      BY <2>1, <2>2, <2>3, LimitsNew
    <2> QED
      BY <1>1, <2>4, LimitsAfter
  <1> QED
    BY <1>4, <1>5, <1>6, <1>7, <1>8

\* Removing
LEMMA LimitsRemove ==
  ASSUME ~NetOverlaps, TypeInv, OneAtATime,
         DeleteGroup \/ MultiGroupDelete \/ \E n \in Nat : NetDeleteOneGroup(n)
  PROVE  LimitsKept
  <1>1. TypeInv'
    BY TypeRemove
  <1>3. groupQty \in 1 .. MaxGroups /\ MaxGroups \in Nat
    BY GroupsAssumption DEF TypeInv, TypeOK
  <1>4. CASE UNCHANGED <<group, groupQty>>
    BY <1>4, LimitsSame
  <1>5. ASSUME NEW i \in 0 .. groupQty - 1, group' = WithoutGroup(i), groupQty' = groupQty - 1
        PROVE  LimitsKept
    <2>1. CASE Within(group, groupQty)
      <3>1. group \in [Slots -> Group] /\ groupQty \in 0 .. MaxGroups
        BY DEF TypeInv, TypeOK
      <3>2. ~Unavailable(group, groupQty)
        BY <2>1, <3>1, LimitsAreChecked
      <3> QED
        BY <1>1, <1>5, <3>2, LimitsRemoved, LimitsAfter
    <2>2. CASE ~Within(group, groupQty)
      BY <1>3, <1>5, <2>2 DEF LimitsKept
    <2> QED
      BY <2>1, <2>2
  <1>6. CASE DeleteGroup /\ ~UNCHANGED <<group, groupQty>>
    <2>1. group' = WithoutGroup(dialog.arg) /\ groupQty' = groupQty - 1
      BY <1>6 DEF DeleteGroup, config
    <2>2. dialog.arg \in 0 .. groupQty - 1
      BY <1>3, <1>6 DEF DeleteGroup, OneAtATime, TypeInv, TypeOK, Slots
    <2> QED
      BY <1>5, <2>1, <2>2
  <1>7. CASE MultiGroupDelete
    <2>1. groupQty - 1 \in 0 .. groupQty - 1
      BY <1>3
    <2> QED
      BY <1>5, <1>7, <2>1 DEF MultiGroupDelete
  <1>8. ASSUME NEW n \in Nat, NetDeleteOneGroup(n), ~UNCHANGED <<group, groupQty>>
        PROVE  LimitsKept
    <2> DEFINE i == IF n < groupQty THEN n ELSE groupQty - 1
    <2>1. i \in 0 .. groupQty - 1
      BY <1>3
    <2>2. group' = WithoutGroup(i) /\ groupQty' = groupQty - 1
      BY <1>8 DEF NetDeleteOneGroup, config
    <2> HIDE DEF i
    <2> QED
      BY <1>5, <2>1, <2>2
  <1> QED
    BY <1>4, <1>6, <1>7, <1>8

\* The focal law wizard's check, and the edits without one
LEMMA LimitsEdit ==
  ASSUME TypeInv, Generate \/ UncheckedEdit
  PROVE  LimitsKept
  <1>1. groupQty' = groupQty /\ groupQty \in Int
    BY DEF Generate, UncheckedEdit, FinishWizard, ContinueWithLaw, Finish, ChooseProbe, SetLaw,
           NetSetLaw, config, TypeInv, TypeOK
  <1>2. CASE UncheckedEdit
    BY <1>1, <1>2 DEF LimitsKept
  <1>3. CASE Generate /\ UNCHANGED group
    BY <1>1, <1>3, LimitsSame
  <1>4. CASE Generate /\ ~UNCHANGED group
    <2>1. ~Unavailable(group', groupQty') /\ TypeInv'
      BY <1>1, <1>4, TypeGenerate DEF Generate, config
    <2> QED
      BY <2>1, LimitsAfter
  <1> QED
    BY <1>2, <1>3, <1>4

\* Every step keeps the limits, once at most one wizard is open.
LEMMA LimitsStep ==
  ~NetOverlaps /\ GroupsTypedInv /\ [Next]_vars => [LimitsKept]_vars
  <1> SUFFICES ASSUME ~NetOverlaps, TypeInv, OneAtATime, Next PROVE LimitsKept
    BY DEF GroupsTypedInv, GroupsInv
  <1>2. CASE \/ OpenGroupWizard \/ ChooseGroup \/ SelectForEdit \/ SelectAdd
             \/ EditDone \/ Back \/ AskDelete
             \/ EditGroup \/ Escape \/ OpenLawWizard \/ SelectLawGroup \/ EditLaw
             \/ MoveInLawWizard \/ AskGenerate \/ SelectGroup \/ AskCopy \/ AnswerNo
    BY <1>2, GroupsQuietRows, LimitsSame
  <1>3. 0 .. groupQty \subseteq Nat /\ 0 .. MaxGroups \subseteq Nat
    BY GroupsAssumption DEF TypeInv, TypeOK
  <1>4. CASE GroupWizardStep
    BY <1>2, <1>3, <1>4, LimitsAdd, LimitsRemove, LimitsEdit DEF GroupWizardStep, UncheckedEdit
  <1>5. CASE LawWizardStep
    BY <1>2, <1>5, LimitsEdit DEF LawWizardStep
  <1>6. CASE MenuStep
    <2>1. 0 \in Nat
      OBVIOUS
    <2> QED
      BY <1>2, <1>6, <2>1, LimitsAdd, LimitsRemove, LimitsEdit DEF MenuStep, UncheckedEdit
  <1>7. CASE NetStep
    <2>1. ASSUME NEW id \in Ids, NetSelectGroup(id) PROVE LimitsKept
      BY <2>1, LimitsSame DEF NetSelectGroup
    <2> QED
      BY <1>3, <1>7, <2>1, LimitsAdd, LimitsRemove, LimitsEdit DEF NetStep, UncheckedEdit
  <1>8. CASE Refreshed
    BY <1>8, LimitsSame DEF Refreshed
  <1> QED
    BY <1>4, <1>5, <1>6, <1>7, <1>8 DEF Next

-----------------------------------------------------------------------------
(* The focal laws *)

AllLawsFollow == \A i \in 0 .. groupQty' - 1 : LawFollows(i)

\* A group that stays where it is with its law
LEMMA LawStays ==
  ASSUME NEW i \in 0 .. groupQty - 1, group'[i] = group[i], laws'[i] = laws[i]
  PROVE  LawFollows(i)
  BY DEF LawFollows

\* One slot in use is written with its law, or only its law computed again.
LEMMA LawWritten ==
  ASSUME TypeInv, NEW pos \in Slots, UNCHANGED groupQty,
         \A i \in Slots : i # pos => group'[i] = group[i],
         laws' = [laws EXCEPT ![pos] = LawOf(group'[pos])]
  PROVE  AllLawsFollow
  <1> SUFFICES ASSUME NEW i \in 0 .. groupQty - 1 PROVE LawFollows(i)
    BY DEF AllLawsFollow
  <1>1. i \in Slots
    BY GroupsAssumption DEF TypeInv, TypeOK, Slots
  <1>2. CASE i = pos
    BY <1>1, <1>2 DEF LawFollows, TypeInv, TypeOK
  <1>3. CASE i # pos
    <2>1. group'[i] = group[i] /\ laws'[i] = laws[i]
      BY <1>1, <1>3 DEF TypeInv, TypeOK
    <2> QED
      BY <2>1, LawStays
  <1> QED
    BY <1>2, <1>3

LEMMA LawsSame ==
  ASSUME UNCHANGED <<group, groupQty, laws>>
  PROVE  AllLawsFollow
  BY LawStays DEF AllLawsFollow

\* Adding
LEMMA LawsNew ==
  ASSUME TypeInv, groupQty < MaxGroups, NEW index \in Nat, NEW o \in Fresh,
         NewGroup(WithNew(groupQty, index, o), groupQty, o)
  PROVE  AllLawsFollow
  <1> DEFINE new == WithNew(groupQty, index, o)
  <1>1. groupQty \in Slots /\ groupQty \in Nat
    BY GroupsAssumption DEF TypeInv, TypeOK, Slots
  <1>2. \A i \in Slots : i # groupQty => new[i] = group[i]
    BY <1>1, WithNewType, FreshType DEF TypeInv, TypeOK
  <1>3. /\ group' = new /\ groupQty' = groupQty + 1
        /\ laws' = [laws EXCEPT ![groupQty] = LawOf(new[groupQty])]
    BY DEF NewGroup
  <1> HIDE DEF new
  <1> SUFFICES ASSUME NEW i \in 0 .. groupQty PROVE LawFollows(i)
    BY <1>1, <1>3 DEF AllLawsFollow
  <1>4. i \in Slots
    BY <1>1, GroupsAssumption DEF Slots
  <1>5. CASE i = groupQty
    BY <1>1, <1>3, <1>5 DEF LawFollows, TypeInv, TypeOK
  <1>6. CASE i # groupQty
    <2>1. i \in 0 .. groupQty - 1
      BY <1>1, <1>6
    <2>2. group'[i] = group[i] /\ laws'[i] = laws[i]
      BY <1>2, <1>3, <1>4, <1>6 DEF TypeInv, TypeOK
    <2> QED
      BY <2>1, <2>2, LawStays
  <1> QED
    BY <1>5, <1>6

LEMMA LawsAdd ==
  ASSUME ~NetOverlaps, TypeInv, OneAtATime, NEW index \in Nat,
         \/ AddGroup(index) \/ AddGroupRefused(index) \/ NetAddOneGroup(index)
         \/ \E copy \in BOOLEAN : MultiGroupAdd(copy)
  PROVE  AllLawsFollow
  <1>3. groupQty \in 1 .. MaxGroups /\ MaxGroups \in Nat
    BY GroupsAssumption DEF TypeInv, TypeOK
  <1>4. CASE UNCHANGED <<group, groupQty, laws>>
    BY <1>4, LawsSame
  <1>5. CASE AddGroup(index)
    <2>1. PICK o \in Fresh : NewGroup(WithNew(groupQty, index, o), groupQty, o)
      BY <1>5 DEF AddGroup
    <2> QED
      BY <1>5, <2>1, LawsNew DEF AddGroup
  <1>6. CASE AddGroupRefused(index)
    BY <1>4, <1>6 DEF AddGroupRefused, config
  <1>7. CASE NetAddOneGroup(index) /\ ~UNCHANGED <<group, groupQty, laws>>
    <2>1. groupQty < MaxGroups
      BY <1>3, <1>7 DEF NetAddOneGroup, config
    <2>2. PICK o \in Fresh : NewGroup(WithNew(groupQty, index, o), groupQty, o)
      BY <1>7 DEF NetAddOneGroup, config
    <2> QED
      BY <2>1, <2>2, LawsNew
  <1>8. ASSUME NEW copy \in BOOLEAN, MultiGroupAdd(copy), ~UNCHANGED <<group, groupQty, laws>>
        PROVE  AllLawsFollow
    <2> DEFINE source == IF copy THEN 0 ELSE groupQty
    <2>1. dialog.arg = groupQty /\ groupQty < MaxGroups
      BY <1>8 DEF MultiGroupAdd, OneAtATime
    <2>2. source \in Nat
      BY <1>3
    <2>3. PICK o \in Fresh : NewGroup(WithNew(groupQty, source, o), groupQty, o)
      BY <1>8, <2>1 DEF MultiGroupAdd
    <2> HIDE DEF source
    <2> QED
      BY <2>1, <2>2, <2>3, LawsNew
  <1> QED
    BY <1>4, <1>5, <1>6, <1>7, <1>8

\* Removing: the groups that move get new laws from the wizard, and none from the PC.
LEMMA LawsRemove ==
  ASSUME ~NetOverlaps, TypeInv, OneAtATime,
         DeleteGroup \/ MultiGroupDelete \/ \E n \in Nat : NetDeleteOneGroup(n)
  PROVE  AllLawsFollow
  <1>1. groupQty \in 1 .. MaxGroups /\ MaxGroups \in Nat
    BY GroupsAssumption DEF TypeInv, TypeOK
  <1>2. CASE UNCHANGED <<group, groupQty, laws>>
    BY <1>2, LawsSame
  <1>3. ASSUME NEW i \in 0 .. groupQty - 1, group' = WithoutGroup(i), groupQty' = groupQty - 1,
               NEW j \in 0 .. groupQty' - 1, j < i,
               \/ laws' = LawsAfterDelete(i)
               \/ laws' = Without(laws, groupQty, groupQty - 1, LawOf(Unused))
        PROVE  LawFollows(j)
    <2>1. j \in Slots /\ j \in 0 .. groupQty - 1 /\ j < groupQty - 1
      BY <1>1, <1>3, GroupsAssumption DEF Slots
    <2>2. group'[j] = group[j] /\ laws'[j] = laws[j]
      BY <1>3, <2>1 DEF WithoutGroup, Without, LawsAfterDelete
    <2> QED
      BY <2>1, <2>2, LawStays
  <1>4. CASE DeleteGroup /\ ~UNCHANGED <<group, groupQty, laws>>
    <2> DEFINE i == dialog.arg
    <2>1. /\ group' = WithoutGroup(i) /\ groupQty' = groupQty - 1
          /\ laws' = LawsAfterDelete(i)
      BY <1>4 DEF DeleteGroup, config
    <2>2. i \in 0 .. groupQty - 1
      BY <1>1, <1>4 DEF DeleteGroup, OneAtATime, TypeInv, TypeOK, Slots
    <2> HIDE DEF i
    <2> SUFFICES ASSUME NEW j \in 0 .. groupQty' - 1 PROVE LawFollows(j)
      BY DEF AllLawsFollow
    <2>3. CASE j < i
      BY <1>3, <2>1, <2>2, <2>3
    <2>4. CASE ~(j < i)
      <3>1. j \in Slots
        BY <1>1, <2>1 DEF Slots
      <3> QED
        BY <2>1, <2>4, <3>1 DEF LawsAfterDelete, LawFollows
    <2> QED
      BY <2>3, <2>4
  <1>5. CASE MultiGroupDelete
    <2> DEFINE i == groupQty - 1
    <2>1. /\ group' = WithoutGroup(i) /\ groupQty' = groupQty - 1
          /\ laws' = Without(laws, groupQty, groupQty - 1, LawOf(Unused))
      BY <1>5 DEF MultiGroupDelete
    <2>2. i \in 0 .. groupQty - 1
      BY <1>1
    <2> SUFFICES ASSUME NEW j \in 0 .. groupQty' - 1 PROVE LawFollows(j)
      BY DEF AllLawsFollow
    <2>3. j < i
      BY <1>1, <2>1
    <2> HIDE DEF i
    <2> QED
      BY <1>3, <2>1, <2>2, <2>3
  <1>6. ASSUME NEW n \in Nat, NetDeleteOneGroup(n), ~UNCHANGED <<group, groupQty, laws>>
        PROVE  AllLawsFollow
    <2> DEFINE i == IF n < groupQty THEN n ELSE groupQty - 1
    <2>1. /\ group' = WithoutGroup(i) /\ groupQty' = groupQty - 1
          /\ laws' = Without(laws, groupQty, groupQty - 1, LawOf(Unused))
      BY <1>6 DEF NetDeleteOneGroup, config
    <2>2. i \in 0 .. groupQty - 1
      BY <1>1
    <2> SUFFICES ASSUME NEW j \in 0 .. groupQty' - 1 PROVE LawFollows(j)
      BY DEF AllLawsFollow
    <2>3. CASE j < i
      <3> HIDE DEF i
      <3> QED
        BY <1>3, <2>1, <2>2, <2>3
    <2>4. CASE ~(j < i)
      <3>1. n \in 0 .. groupQty - 2 /\ n <= j
        BY <1>1, <2>1, <2>4
      <3>2. LawLeftBehind(j)
        BY <1>6, <3>1 DEF LawLeftBehind
      <3> QED
        BY <3>2 DEF LawFollows
    <2> QED
      BY <2>3, <2>4
  <1> QED
    BY <1>2, <1>4, <1>5, <1>6

\* Writing back, choosing a probe, setting the law parameters, and the responses
LEMMA LawsEdit ==
  ASSUME TypeInv, Generate \/ Refreshed \/ UncheckedEdit
  PROVE  AllLawsFollow
  <1>1. CASE UNCHANGED <<group, groupQty, laws>>
    BY <1>1, LawsSame
  <1>2. group \in [Slots -> Group] /\ laws \in [Slots -> Law] /\ groupQty \in Int
    BY DEF TypeInv, TypeOK, Law
  <1>3. groupId < groupQty => groupId \in Slots
    BY GroupsAssumption DEF TypeInv, TypeOK, Slots, Ids
  <1>4. CASE (FinishWizard \/ ContinueWithLaw) /\ ~UNCHANGED <<group, groupQty, laws>>
    <2>1. wgroup_pos \in Slots
      BY DEF TypeInv, TypeOK
    <2>2. /\ UNCHANGED groupQty
          /\ group' = [group EXCEPT ![wgroup_pos] = UTgroup(tmpGroup)]
          /\ laws' = [laws EXCEPT ![wgroup_pos] = LawOf(UTgroup(tmpGroup))]
      BY <1>4 DEF FinishWizard, ContinueWithLaw, Finish
    <2>3. group'[wgroup_pos] = UTgroup(tmpGroup)
      BY <1>2, <2>1, <2>2
    <2>4. \A i \in Slots : i # wgroup_pos => group'[i] = group[i]
      BY <1>2, <2>2
    <2> QED
      BY <2>1, <2>2, <2>3, <2>4, LawWritten
  <1>5. CASE Generate /\ ~UNCHANGED <<group, groupQty, laws>>
    <2>1. lawPopPos \in Slots
      BY DEF TypeInv, TypeOK
    <2>2. /\ UNCHANGED groupQty
          /\ group' = [group EXCEPT ![lawPopPos] = tmpGroup]
          /\ laws' = [laws EXCEPT ![lawPopPos] = LawOf(tmpGroup)]
      BY <1>5 DEF Generate, config
    <2>3. group'[lawPopPos] = tmpGroup
      BY <1>2, <2>1, <2>2
    <2>4. \A i \in Slots : i # lawPopPos => group'[i] = group[i]
      BY <1>2, <2>2
    <2> QED
      BY <2>1, <2>2, <2>3, <2>4, LawWritten
  <1>6. CASE ChooseProbe /\ ~UNCHANGED <<group, groupQty, laws>>
    <2>1. /\ UNCHANGED groupQty /\ groupId \in Slots
          /\ laws' = [laws EXCEPT ![groupId] = LawOf(group'[groupId])]
      BY <1>3, <1>6 DEF ChooseProbe
    <2>2. \A i \in Slots : i # groupId => group'[i] = group[i]
      BY <1>2, <1>6 DEF ChooseProbe
    <2> QED
      BY <2>1, <2>2, LawWritten
  <1>7. CASE Refreshed
    <2>1. /\ UNCHANGED groupQty /\ groupId \in Slots /\ group' = group
          /\ laws' = [laws EXCEPT ![groupId] = LawOf(group'[groupId])]
      BY <1>3, <1>7 DEF Refreshed
    <2> QED
      BY <2>1, LawWritten
  <1>8. ASSUME NEW b \in Beams, SetLaw(b) PROVE AllLawsFollow
    <2>1. group' = [group EXCEPT ![groupId].beams = b] /\ UNCHANGED <<groupQty, laws>>
      BY <1>8 DEF SetLaw
    <2> SUFFICES ASSUME NEW i \in 0 .. groupQty - 1 PROVE LawFollows(i)
      BY <2>1 DEF AllLawsFollow
    <2>2. CASE i = groupId
      BY <1>8, <2>2 DEF LawFollows, LawLeftBehind
    <2>3. CASE i # groupId
      <3>1. i \in Slots
        BY GroupsAssumption DEF TypeInv, TypeOK, Slots
      <3>2. group'[i] = group[i] /\ laws'[i] = laws[i]
        BY <1>2, <2>1, <2>3, <3>1
      <3> QED
        BY <3>2, LawStays
    <2> QED
      BY <2>2, <2>3
  <1>9. ASSUME NEW i \in Slots, NEW b \in Beams, NetSetLaw(i, b) PROVE AllLawsFollow
    <2>1. UNCHANGED groupQty /\ laws' = [laws EXCEPT ![i] = LawOf(group'[i])]
      BY <1>9 DEF NetSetLaw
    <2>2. \A j \in Slots : j # i => group'[j] = group[j]
      BY <1>2, <1>9 DEF NetSetLaw
    <2> QED
      BY <2>1, <2>2, LawWritten
  <1> QED
    BY <1>1, <1>4, <1>5, <1>6, <1>7, <1>8, <1>9 DEF UncheckedEdit

LEMMA LawsStep ==
  ~NetOverlaps /\ GroupsTypedInv /\ [Next]_vars => [AllLawsFollow]_vars
  <1> SUFFICES ASSUME ~NetOverlaps, TypeInv, OneAtATime, Next PROVE AllLawsFollow
    BY DEF GroupsTypedInv, GroupsInv
  <1>2. CASE \/ OpenGroupWizard \/ ChooseGroup \/ SelectForEdit \/ SelectAdd
             \/ EditDone \/ Back \/ AskDelete
             \/ EditGroup \/ Escape \/ OpenLawWizard \/ SelectLawGroup \/ EditLaw
             \/ MoveInLawWizard \/ AskGenerate \/ SelectGroup \/ AskCopy \/ AnswerNo
    BY <1>2, GroupsQuietRows, LawsSame
  <1>3. 0 .. groupQty \subseteq Nat /\ 0 .. MaxGroups \subseteq Nat
    BY GroupsAssumption DEF TypeInv, TypeOK
  <1>4. CASE GroupWizardStep
    BY <1>2, <1>3, <1>4, LawsAdd, LawsRemove, LawsEdit DEF GroupWizardStep, UncheckedEdit
  <1>5. CASE LawWizardStep
    BY <1>2, <1>5, LawsEdit DEF LawWizardStep
  <1>6. CASE MenuStep
    <2>1. 0 \in Nat
      OBVIOUS
    <2> QED
      BY <1>2, <1>6, <2>1, LawsAdd, LawsRemove, LawsEdit DEF MenuStep, UncheckedEdit
  <1>7. CASE NetStep
    <2>1. ASSUME NEW id \in Ids, NetSelectGroup(id) PROVE AllLawsFollow
      BY <2>1, LawsSame DEF NetSelectGroup
    <2> QED
      BY <1>3, <1>7, <2>1, LawsAdd, LawsRemove, LawsEdit DEF NetStep, UncheckedEdit
  <1>8. CASE Refreshed
    BY <1>8, LawsEdit
  <1> QED
    BY <1>4, <1>5, <1>6, <1>7, <1>8 DEF Next

-----------------------------------------------------------------------------
(* The invariant and the theorems *)

LEMMA GroupsInit == ~NetOverlaps /\ Init => GroupsInv
  <1> SUFFICES ASSUME Init PROVE GroupsInv
    OBVIOUS
  <1> USE DEF Init
  <1>1. OneAtATime /\ Positions
    BY DEF OneAtATime, Positions, NoDialog
  <1>2. NoGroupLost
    <2>1. PICK o \in Owners :
            /\ group = [i \in Slots |-> IF i = 0 THEN Blank(o) ELSE Unused]
            /\ roster = [i \in Slots |-> IF i = 0 THEN o ELSE NoOwner]
      OBVIOUS
    <2> SUFFICES ASSUME NEW i \in Slots
                 PROVE  /\ group[i].owner = roster[i]
                        /\ i < groupQty <=> group[i].owner # NoOwner
      BY DEF NoGroupLost
    <2>2. i < groupQty <=> i = 0
      BY DEF Slots
    <2> QED
      BY <2>1, <2>2, GroupsAssumption DEF Blank, Unused
  <1>4. WizardEditsItsGroup /\ CurrentGroupExists
    BY DEF WizardEditsItsGroup, CurrentGroupExists
  <1> QED
    BY <1>1, <1>2, <1>4 DEF GroupsInv

LEMMA GroupsStep == ~NetOverlaps /\ GroupsTypedInv /\ [Next]_vars => GroupsInv'
  <1> SUFFICES ASSUME ~NetOverlaps, GroupsTypedInv, [Next]_vars PROVE GroupsInv'
    OBVIOUS
  <1> USE DEF GroupsTypedInv
  <1>1. CASE UNCHANGED vars
    <2>1. UNCHANGED <<group, groupQty, groupId, names, step, lastPopPos, wgroup_pos, tmpGroup,
                      tmpNames, lawStep, lawPopPos, dialog, roster, stray>>
      BY <1>1 DEF vars, config, wizard, lawWizard, history
    <2>2. NoGroupLost'
      BY <2>1, RowsKept DEF GroupsInv
    <2>3. OneAtATime' /\ Positions' /\ WizardEditsItsGroup' /\ CurrentGroupExists'
      BY <2>1 DEF GroupsInv, OneAtATime, Positions, WizardEditsItsGroup, CurrentGroupExists
    <2> QED
      BY <2>2, <2>3 DEF GroupsInv
  <1>2. CASE \/ OpenGroupWizard \/ ChooseGroup \/ SelectForEdit \/ SelectAdd
             \/ EditDone \/ Back \/ AskDelete
    BY <1>2, GroupsQuietRows, RowsKept, GroupsWizardQuiet DEF GroupsInv
  <1>3. CASE \/ EditGroup \/ Escape \/ OpenLawWizard \/ SelectLawGroup \/ EditLaw
             \/ MoveInLawWizard \/ AskGenerate \/ SelectGroup \/ AskCopy \/ AnswerNo
    BY <1>3, GroupsQuietRows, RowsKept, GroupsEditQuiet DEF GroupsInv
  <1>4. ASSUME NEW n \in 0 .. groupQty, AddGroup(n) \/ AddGroupRefused(n) PROVE GroupsInv'
    <2>1. n \in Nat
      BY DEF TypeInv, TypeOK
    <2> QED
      BY <1>4, <2>1, GroupsAdd
  <1>5. CASE GroupWizardStep
    BY <1>2, <1>3, <1>4, <1>5, GroupsRemove, GroupsFinish DEF GroupWizardStep
  <1>6. CASE LawWizardStep
    BY <1>3, <1>6, GroupsGenerate DEF LawWizardStep
  <1>7. CASE MenuStep
    BY <1>3, <1>7, GroupsRemove, GroupsAddCopy, GroupsSet DEF MenuStep
  <1>8. CASE NetStep
    <2>1. 0 .. MaxGroups \subseteq Nat
      BY GroupsAssumption
    <2> QED
      BY <1>8, <2>1, GroupsNet, GroupsNetSelect, GroupsSet DEF NetStep
  <1> QED
    BY <1>1, <1>5, <1>6, <1>7, <1>8, GroupsSet DEF Next

LEMMA GroupsInvariant == ASSUME ~NetOverlaps PROVE Spec => []GroupsInv
  <1>1. Init => GroupsInv
    BY GroupsInit
  <1>2. TypeInv /\ GroupsInv /\ [Next]_vars => GroupsInv'
    BY GroupsStep DEF GroupsTypedInv
  <1> QED
    BY <1>1, <1>2, TypeInvariant, PTL DEF Spec

\* For any number of groups and any limits, no edit, copy or removal lands on another
\* group than its own, as long as the PC adds or removes none under an open wizard or
\* question (which the code does not ensure).
THEOREM GroupsKept == Spec => []NoGroupLost
  <1>1. CASE NetOverlaps
    <2>1. NoGroupLost
      BY <1>1 DEF NoGroupLost
    <2> QED
      BY <2>1, PTL
  <1>2. CASE ~NetOverlaps
    <2>1. GroupsInv => NoGroupLost
      BY DEF GroupsInv
    <2> QED
      BY <1>2, <2>1, GroupsInvariant, PTL
  <1> QED
    BY <1>1, <1>2

\* The working copy the two wizards share is that of the group they will write back, and
\* so are its names if the group had its own, under the same condition and but for a
\* position that a refused copy has left past the groups in use.
THEOREM WorkingCopy == Spec => []WizardEditsItsGroup
  <1>1. CASE NetOverlaps
    <2>1. WizardEditsItsGroup
      BY <1>1 DEF WizardEditsItsGroup
    <2> QED
      BY <2>1, PTL
  <1>2. CASE ~NetOverlaps
    <2>1. GroupsInv => WizardEditsItsGroup
      BY DEF GroupsInv
    <2> QED
      BY <1>2, <2>1, GroupsInvariant, PTL
  <1> QED
    BY <1>1, <1>2

\* The current group is one in use, under the same condition, except between the write
\* back of one that is not, or a negative number of the PC, and the next selection of one
\* in use.
THEOREM CurrentGroup == Spec => []CurrentGroupExists
  <1>1. CASE NetOverlaps
    <2>1. CurrentGroupExists
      BY <1>1 DEF CurrentGroupExists
    <2> QED
      BY <2>1, PTL
  <1>2. CASE ~NetOverlaps
    <2>1. GroupsInv => CurrentGroupExists
      BY DEF GroupsInv
    <2> QED
      BY <1>2, <2>1, GroupsInvariant, PTL
  <1> QED
    BY <1>1, <1>2

\* For any limits, no addition by anyone, removal or generation of a law leaves more beams
\* than they allow, as long as the PC adds or removes no group under an open wizard or
\* question; the edits whose limits the code does not check are excepted by name.
THEOREM Limits == Spec => LimitsRespected
  <1>1. CASE NetOverlaps
    <2>1. [Next]_vars => [~NetOverlaps => LimitsKept]_vars
      BY <1>1
    <2> QED
      BY <2>1, PTL DEF Spec, LimitsRespected
  <1>2. CASE ~NetOverlaps
    <2>1. TypeInv /\ GroupsInv /\ [Next]_vars => [~NetOverlaps => LimitsKept]_vars
      BY <1>2, LimitsStep DEF GroupsTypedInv
    <2> QED
      BY <1>2, <2>1, TypeInvariant, GroupsInvariant, PTL DEF Spec, LimitsRespected
  <1> QED
    BY <1>1, <1>2

\* The focal laws follow the groups through every change, under the same condition, but
\* for an edit in the law menus and a removal by the PC from the middle.
THEOREM Laws == Spec => LawsFollow
  <1>1. CASE NetOverlaps
    <2>1. [Next]_vars => [~NetOverlaps => \A i \in 0 .. groupQty' - 1 : LawFollows(i)]_vars
      BY <1>1
    <2> QED
      BY <2>1, PTL DEF Spec, LawsFollow
  <1>2. CASE ~NetOverlaps
    <2>1. TypeInv /\ GroupsInv /\ [Next]_vars
              => [~NetOverlaps => \A i \in 0 .. groupQty' - 1 : LawFollows(i)]_vars
      BY <1>2, LawsStep DEF GroupsTypedInv, AllLawsFollow
    <2> QED
      BY <1>2, <2>1, TypeInvariant, GroupsInvariant, PTL DEF Spec, LawsFollow
  <1> QED
    BY <1>1, <1>2
=============================================================================

---------------------------- MODULE MCConfigFile ----------------------------
(***************************************************************************)
(* Three groups and the files of a program that has saved one, two or      *)
(* three of them with the last one current, every second one set.  Two     *)
(* edits and two runs of the program reach every pair of an edit with a    *)
(* save, a failure or a power cut.                                         *)
(***************************************************************************)
EXTENDS ConfigFile

SavedGroups == [i \in Slots |-> IF i % 2 = 0 THEN "set" ELSE Blank]
SavedFiles == {[groupId |-> n - 1, groupQty |-> n, group |-> SavedGroups] : n \in 1 .. MaxGroups}
=============================================================================

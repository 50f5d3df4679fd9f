--------------------------- MODULE RefreshService ---------------------------
(***************************************************************************)
(* What request_refresh promises to a caller: a one-place box of marks.    *)
(* A request that finds the box empty fills it; one that finds it full     *)
(* either takes the place of the mark that waits or is forgotten, and the  *)
(* mark that stays speaks for both.  Responses are given one at a time,    *)
(* each to a mark that was requested, and a full box is always emptied.    *)
(***************************************************************************)
CONSTANTS Marks, NoMark

VARIABLES
  box,     \* the mark that waits for its response, or NoMark
  serving  \* the mark being responded to, or NoMark

serviceVars == <<box, serving>>

Init == box = NoMark /\ serving = NoMark

Request(m) ==
  /\ box' \in IF box = NoMark THEN {m} ELSE {m, box}
  /\ UNCHANGED serving

Serve ==
  /\ serving = NoMark /\ box # NoMark
  /\ serving' = box
  /\ box' = NoMark

Finish ==
  /\ serving # NoMark
  /\ serving' = NoMark
  /\ UNCHANGED box

Next == (\E m \in Marks : Request(m)) \/ Serve \/ Finish

Safety == Init /\ [][Next]_serviceVars

Spec == Safety /\ WF_serviceVars(Serve) /\ WF_serviceVars(Finish)
=============================================================================

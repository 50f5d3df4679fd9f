------------------------------- MODULE ScanLog -------------------------------
(***************************************************************************)
(* What the driver promises of the scan it records: a log of whole frames  *)
(* in a bounded store, begun anew with each restart.  A frame recorded is  *)
(* the youngest of the log.  A timer scan makes room for the next one by   *)
(* giving up its oldest frame; an encoder scan keeps one frame of each     *)
(* position.  The ring, the two DMA channels, config[9] and the frames     *)
(* dropped are no part of the promise.                                     *)
(***************************************************************************)
EXTENDS Integers, FiniteSets

CONSTANTS Room,         \* frames the store has room for
          Position(_)   \* where an encoder scan keeps the frame of an encoder value

VARIABLES source,  \* 0 timer, 1 encoder
          log      \* the frames recorded

logVars == <<source, log>>

Init == source \in {0, 1} /\ log = {}

Begin == source' \in {0, 1} /\ log' = {}

Record ==
  /\ Cardinality(log) < Room
  /\ \E f \in log' :
       /\ f.id > 0
       /\ \A g \in log : g.id < f.id
       /\ source = 1 => \A g \in log : Position(g.enc) # Position(f.enc)
       /\ log' = log \cup {f}
  /\ UNCHANGED source

MakeRoom ==
  /\ \E f \in log :
       /\ source = 0 => \A g \in log \ {f} : f.id < g.id
       /\ log' = log \ {f}
  /\ UNCHANGED source

Next == Begin \/ Record \/ MakeRoom

Spec == Init /\ [][Next]_logVars
=============================================================================

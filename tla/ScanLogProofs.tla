---------------------------- MODULE ScanLogProofs ----------------------------
(***************************************************************************)
(* Proof that the driver implements ScanLog, for a store of any size, any  *)
(* encoder and any number of restarts, if at most one FPGA frame ends      *)
(* while a store DMA runs (StoreLag <= 1).  The mapping is Logged; the     *)
(* invariant it needs is DriverInv.                                        *)
(***************************************************************************)
EXTENDS DmaDriverProofs, FiniteSetTheorems

\* The slots recorded; the log is what they hold.
Recorded == {s \in Slots : fresh[s]}

LEMMA LoggedMembers == \A f : f \in Logged <=> \E s \in Slots : fresh[s] /\ f = store[s]
BY DEF Logged

\* While a slot is not recorded, the log has room.
LEMMA LogHasRoom ==
  ASSUME NEW x \in Slots, ~fresh[x]
  PROVE  Cardinality(Logged) < MaxStoreIndex + 1
<1> DEFINE f == [s \in Recorded |-> store[s]]
<1>1. IsFiniteSet(Slots) /\ Cardinality(Slots) = MaxStoreIndex + 1 /\ MaxStoreIndex \in Nat
  BY FS_Interval, DriverAssumption DEF Slots
<1>2. IsFiniteSet(Slots \ {x}) /\ Cardinality(Slots \ {x}) = MaxStoreIndex
  <2>1. /\ IsFiniteSet(Slots \ {x})
        /\ Cardinality(Slots \ {x}) = IF x \in Slots THEN Cardinality(Slots) - 1
                                      ELSE Cardinality(Slots)
    BY <1>1, FS_RemoveElement, Zenon
  <2> QED
    BY <1>1, <2>1
<1>3. Recorded \in SUBSET (Slots \ {x})
  BY DEF Recorded
<1>4. IsFiniteSet(Recorded) /\ Cardinality(Recorded) <= MaxStoreIndex
  BY <1>2, <1>3, FS_Subset
<1>5. f \in Surjection(Recorded, Logged)
  BY DEF Surjection, Recorded, Logged
<1>6. IsFiniteSet(Logged) /\ Cardinality(Logged) <= Cardinality(Recorded)
  BY <1>4, <1>5, FS_Surjection
<1> QED
  BY <1>1, <1>4, <1>6, FS_CardinalityType

\* No two slots hold the same frame: in a timer scan one of the two is older, in an encoder
\* scan each is at its own position.
LEMMA LoggedApart ==
  ASSUME DriverInv, NEW s \in Slots, NEW t \in Slots, fresh[s], fresh[t], s # t
  PROVE  store[s] # store[t]
<1>1. s \in Int /\ t \in Int /\ timer \in Int /\ scanSource \in {0, 1}
  BY DEF DriverInv, TypeOK, Slots
<1>2. CASE scanSource = 0
  <2>1. Older(s, t) \/ Older(t, s)
    BY <1>1 DEF Older
  <2>2. store[s].id < store[t].id \/ store[t].id < store[s].id
    BY <1>2, <2>1 DEF DriverInv, TimerChronological
  <2>3. store[s].id \in Int /\ store[t].id \in Int
    BY DEF DriverInv, TypeOK, Frame
  <2> QED
    BY <2>2, <2>3
<1>3. CASE scanSource = 1
  BY <1>3 DEF DriverInv, EncoderAtOwnPosition
<1> QED
  BY <1>1, <1>2, <1>3

\* A store DMA that begins gives up what its slot holds, in a timer scan the oldest frame.
LEMMA StartMakesRoom ==
  ASSUME DriverInv, NEW x \in Slots, fresh' = [fresh EXCEPT ![x] = FALSE],
         UNCHANGED <<store, scanSource>>,
         scanSource = 0 => (timer = x \/ timer > MaxStoreIndex) /\ (timer > MaxStoreIndex => x = 0)
  PROVE  [Log!Next]_(Log!logVars)
<1>0. fresh \in [Slots -> BOOLEAN] /\ timer \in Int
  BY DEF DriverInv, TypeOK
<1>1. CASE ~fresh[x]
  <2>1. fresh' = fresh
    BY <1>0, <1>1
  <2>2. Logged' = Logged
    BY <2>1 DEF Logged
  <2> QED
    BY <2>2 DEF Log!logVars
<1>2. CASE fresh[x]
  <2>1. store[x] \in Logged
    BY <1>2, LoggedMembers
  <2>2. Logged' = Logged \ {store[x]}
    <3>1. \A s \in Slots : fresh'[s] <=> fresh[s] /\ s # x
      BY <1>0
    <3>2. \A s \in Slots : fresh[s] /\ s # x => store[s] # store[x]
      BY <1>2, LoggedApart
    <3> QED
      BY <3>1, <3>2 DEF Logged
  <2>3. ASSUME scanSource = 0, NEW g \in Logged \ {store[x]} PROVE store[x].id < g.id
    <3>1. PICK t \in Slots : fresh[t] /\ g = store[t] /\ t # x
      BY <2>3, LoggedMembers
    <3>2. Older(x, t)
      BY <1>0, <2>3, <3>1, DriverAssumption DEF Older, Slots
    <3> QED
      BY <1>2, <2>3, <3>1, <3>2 DEF DriverInv, TimerChronological
  <2>4. Log!MakeRoom
    BY <2>1, <2>2, <2>3 DEF Log!MakeRoom
  <2> QED
    BY <2>4 DEF Log!Next
<1> QED
  BY <1>1, <1>2

\* One that ends records its frame, or one of the old scan in none of the slots.
LEMMA StoreRecords ==
  ASSUME DriverInv, StoreDone
  PROVE  [Log!Next]_(Log!logVars)
<1> USE DEF DriverInv
<1>0. /\ fresh \in [Slots -> BOOLEAN] /\ store \in [Slots -> Frame] /\ storeTo \in Slots
      /\ current \in BOOLEAN /\ scanSource \in {0, 1}
  BY DEF TypeOK
<1>1. /\ busy /\ scanSource' = scanSource
      /\ store' = [store EXCEPT ![storeTo] = ring[src]]
      /\ fresh' = [fresh EXCEPT ![storeTo] = current]
  BY DEF StoreDone, SourceKept, SourceSafe
<1>2. CASE ~current
  <2>1. \A s \in Slots : ~fresh[s] /\ ~fresh'[s]
    BY <1>0, <1>1, <1>2 DEF StaleStore
  <2> QED
    BY <1>1, <2>1 DEF Logged, Log!logVars
<1>3. CASE current
  <2>1. /\ ~fresh[storeTo]
        /\ scanSource = 1 => storeTo = EncoderIndex(ring[src].enc)
    BY <1>1, <1>3 DEF StoreOnTarget
  <2>2. \A s \in Slots : /\ fresh'[s] <=> fresh[s] \/ s = storeTo
                         /\ s # storeTo => store'[s] = store[s]
    BY <1>0, <1>1, <1>3
  <2>3. store'[storeTo] = ring[src]
    BY <1>0, <1>1
  <2>4. Logged' = Logged \cup {ring[src]}
    BY <1>0, <2>1, <2>2, <2>3 DEF Logged
  <2>5. ring[src].id > 0
    BY <1>1 DEF SourceKept
  <2>6. \A g \in Logged : g.id < ring[src].id
    BY <1>1, LoggedMembers DEF SlotsOlder
  <2>7. scanSource = 1 => \A g \in Logged : EncoderIndex(g.enc) # EncoderIndex(ring[src].enc)
    BY <2>1, LoggedMembers DEF EncoderAtOwnPosition
  <2>8. Cardinality(Logged) < MaxStoreIndex + 1
    BY <1>0, <2>1, LogHasRoom
  <2>9. Log!Record
    <3>1. \E f \in Logged' :
            /\ f.id > 0
            /\ \A g \in Logged : g.id < f.id
            /\ scanSource = 1 => \A g \in Logged : EncoderIndex(g.enc) # EncoderIndex(f.enc)
            /\ Logged' = Logged \cup {f}
      <4> WITNESS ring[src] \in Logged'
      <4> QED
        BY <2>4, <2>5, <2>6, <2>7
    <3>2. Log!Cardinality(Logged) = Cardinality(Logged)
      BY DEF Cardinality, Log!Cardinality
    <3> QED
      BY <1>1, <2>8, <3>1, <3>2 DEF Log!Record
  <2> QED
    BY <2>9 DEF Log!Next
<1> QED
  BY <1>0, <1>2, <1>3

\* Every step of the driver is one of the log, or none.
LEMMA LogStep ==
  ASSUME DriverInv, [Next]_driverVars
  PROVE  [Log!Next]_(Log!logVars)
<1> USE DriverAssumption
<1>1. ASSUME UNCHANGED <<scanSource, store, fresh>> PROVE [Log!Next]_(Log!logVars)
  BY <1>1 DEF Logged, Log!logVars
<1>2. ASSUME \A s \in Slots : ~fresh'[s], scanSource' \in {0, 1}
      PROVE  [Log!Next]_(Log!logVars)
  <2>1. Logged' = {}
    BY <1>2 DEF Logged
  <2> QED
    BY <1>2, <2>1 DEF Log!Next, Log!Begin
<1>3. ASSUME NEW enc \in EncoderCounts, FrameDone(enc) PROVE [Log!Next]_(Log!logVars)
  <2>1. TypeOK /\ UNCHANGED <<scanSource, store>>
    BY <1>3, FrameDoneCases DEF DriverInv
  <2>2. CASE DropFrame \/ UNCHANGED <<timer, busy, scanMark, fresh>>
    BY <1>1, <2>1, <2>2 DEF DropFrame
  <2>3. ASSUME NEW s \in Slots, StartStore(s),
               scanSource = 0 => /\ timer = s \/ timer > MaxStoreIndex
                                 /\ timer > MaxStoreIndex => s = 0
        PROVE  [Log!Next]_(Log!logVars)
    BY <2>1, <2>3, StartMakesRoom DEF StartStore
  <2> QED
    BY <1>3, <2>1, <2>2, <2>3, FrameDoneCases
<1>4. ASSUME NEW source \in Sources, RestartSource(source) PROVE [Log!Next]_(Log!logVars)
  BY <1>2, <1>4 DEF RestartSource
<1>5. CASE RestartIndices \/ ResetScanData
  BY <1>2, <1>5 DEF RestartIndices, ResetScanData, DriverInv, TypeOK
<1>6. CASE ClearMark \/ ResetMark \/ Claim \/ UNCHANGED driverVars
  BY <1>1, <1>6 DEF ClearMark, ResetMark, Claim, driverVars, storeVars
<1>7. CASE ResetSlot
  <2>1. Resetting /\ UNCHANGED <<fresh, scanSource>>
    BY <1>7 DEF ResetSlot, Resetting
  <2>2. (\A s \in Slots : ~fresh'[s]) /\ scanSource' \in {0, 1}
    BY <2>1 DEF DriverInv, ResetEmpty, TypeOK
  <2> QED
    BY <1>2, <2>2
<1> QED
  BY <1>3, <1>4, <1>5, <1>6, <1>7, StoreRecords DEF Next

(***************************************************************************)
(* The driver implements the log: frames dropped, the wrap of config[9],   *)
(* claims of the draw thread and restarts in the middle of a store DMA are *)
(* not to be seen in what has been recorded (DmaDoppler.c).                *)
(***************************************************************************)
THEOREM DriverIsLog ==
  ASSUME StoreLag <= 1
  PROVE  Spec => RecordsLog
<1>1. Init => Log!Init
  BY DriverAssumption DEF Init, Log!Init, Logged
<1>2. DriverInv /\ [Next]_driverVars => [Log!Next]_(Log!logVars)
  BY LogStep
<1> QED
  BY <1>1, <1>2, DriverInvariant, PTL DEF Spec, RecordsLog, Log!Spec
=============================================================================

---------------------------- MODULE LiveScan_proofs ----------------------------
(***************************************************************************)
(* What a report and an exit code say of the account itself, for every     *)
(* descriptor, catalogue, account and failure.  A scan is a collection and *)
(* a gate that do not disturb each other (ScanIsACollection, ScanIsAGate), *)
(* so the theorems of Live_proofs and of Gate_proofs hold of it; ScanInv   *)
(* says that the document that is judged is what the collection left.      *)
(***************************************************************************)
EXTENDS LiveScan, Gate_proofs, Live_proofs

\* The assessment and the gate of a live scan are those of any scan.
THEOREM ScanIsAGate == LiveScanSpec => GateSpec
<1>1. LiveScanInit => GateInit
  BY DEF LiveScanInit
<1>2. [LiveScanNext]_liveScanVars => [GateNext]_gateVars
  <2> SUFFICES ASSUME [LiveScanNext]_liveScanVars PROVE GateNext \/ UNCHANGED gateVars
    OBVIOUS
  <2>1. CASE LoadInput
    <3>1. Load /\ exit = NoExit /\ UNCHANGED <<settings, exit, headline>>
      BY <2>1 DEF LoadInput
    <3> QED
      BY <3>1 DEF GateNext, Assess, Next
  <2> QED
    BY <2>1 DEF LiveScanNext, RefuseToStart, Collecting, Judging, GateNext, liveScanVars
<1> QED
  BY <1>1, <1>2, PTL DEF LiveScanSpec, GateSpec

\* Its collection is a live collection, that the judgement does not disturb.
THEOREM ScanIsACollection == LiveScanSpec => LiveSpec
<1>1. LiveScanInit => LiveInit
  BY DEF LiveScanInit
<1>2. [LiveScanNext]_liveScanVars => [LiveNext]_liveVars
  BY DEF LiveScanNext, RefuseToStart, Collecting, LoadInput, Judging, liveScanVars
<1> QED
  BY <1>1, <1>2, PTL DEF LiveScanSpec, LiveSpec

----------------------------------------------------------------------------
(* What a collection leaves behind.                                         *)

\* Nothing is read that no API holds, and no failure leaves its unit unmarked.
LeftInv ==
    /\ \A t \in DOMAIN Tasks : read[t] \subseteq Whole(t)
    /\ \A u \in Units : causes[u] # NoFailure => units[u].state = "incomplete"

\* The end of a task leaves what it mapped, which is of its owners, and marks its unit.
LEMMA RecordLeaves == ASSUME PlaceAndCall, OwnersAndWhole, LeftInv, Record PROVE LeftInv'
<1> DEFINE unit == Tasks[task].unit
           ended == IF units[unit].state = "incomplete" THEN units[unit]
                    ELSE IF failure = NoFailure THEN [state |-> "complete", error |-> NoOutcome]
                    ELSE [state |-> "incomplete", error |-> Classify(failure)]
<1>1. /\ task \in DOMAIN Tasks /\ UNCHANGED listing
      /\ read' = IF Tasks[task].aggregate THEN read ELSE [read EXCEPT ![task] = mapped]
      /\ units' = [units EXCEPT ![unit] = ended]
  BY RecordResults
<1>2. causes' = IF units[unit].state = "incomplete" THEN causes ELSE [causes EXCEPT ![unit] = failure]
  BY DEF Record
<1>3. /\ mapped \subseteq Whole(task) /\ DOMAIN read = DOMAIN Tasks
      /\ DOMAIN units = Units /\ DOMAIN causes = Units
  BY DEF Record, OwnersAndWhole, WholeInv, PlaceAndCall, CollectTypeOK
<1>4. \A t : Whole(t)' = Whole(t)
  BY <1>1 DEF Whole, Owners
<1>5. \A t \in DOMAIN Tasks : read'[t] \subseteq Whole(t)'
  BY <1>1, <1>3, <1>4 DEF LeftInv
<1>6. ended.state = IF units[unit].state = "incomplete" \/ failure # NoFailure
                    THEN "incomplete" ELSE "complete"
  OBVIOUS
<1>7. ASSUME NEW u \in Units, causes'[u] # NoFailure PROVE units'[u].state = "incomplete"
  <2> HIDE DEF ended, unit
  <2>1. CASE u = unit
    BY <1>1, <1>2, <1>3, <1>6, <1>7, <2>1
  <2>2. CASE u # unit
    BY <1>1, <1>2, <1>3, <1>7, <2>2 DEF LeftInv
  <2> QED
    BY <2>1, <2>2
<1> QED
  BY <1>5, <1>7 DEF LeftInv, Units

\* LeftInv holds at every step of a collection (engine.go:137-160, collection.go:147-211).
THEOREM LeftHolds == LiveSpec => []LeftInv
<1>1. LiveInit => LeftInv
  BY DEF LiveInit, LeftInv
<1>2. PlaceAndCall /\ OwnersAndWhole /\ LeftInv /\ [LiveNext]_liveVars => LeftInv'
  <2> SUFFICES ASSUME PlaceAndCall, OwnersAndWhole, LeftInv, [LiveNext]_liveVars PROVE LeftInv'
    OBVIOUS
  <2>1. CASE Record
    BY <2>1, RecordLeaves
  <2>2. CASE ~Record
    <3>1. UNCHANGED <<listing, read, units, causes>>
      BY <2>2, OnlyRecordRecords DEF records, environment
    <3>2. \A t : Whole(t)' = Whole(t)
      BY <3>1 DEF Whole, Owners
    <3> QED
      BY <3>1, <3>2 DEF LeftInv, Units
  <2> QED
    BY <2>1, <2>2
<1> QED
  BY <1>1, <1>2, PlaceAndCallHold, OwnersAndWholeHold, PTL DEF LiveSpec

----------------------------------------------------------------------------
(* The document that is judged.                                             *)

\* Nothing is judged before the collection has ended, and what is judged then is what it
\* left, for the collection moves no more.
ScanInv ==
    /\ pc = "load" => inv = NoInventory
    /\ pc # "load" => /\ Finished
                      /\ inv.present = CollectedResources
                      /\ inv.incomplete = IncompleteTypes

\* The judgement starts on the document of a collection that has ended.
LEMMA LoadMeets == ASSUME LoadInput PROVE ScanInv'
<1>1. PICK doc \in Documents : inv' = doc /\ Load
  BY DEF LoadInput
<1>2. /\ pc' = "build" /\ Finished' /\ UNCHANGED liveVars
  BY <1>1 DEF LoadInput, Load, Finished, liveVars
<1>3. doc.present = CollectedResources /\ doc.incomplete = IncompleteTypes
  BY DEF Documents, DocumentOf
<1>4. CollectedResources' = CollectedResources /\ IncompleteTypes' = IncompleteTypes
  BY <1>2 DEF CollectedResources, Published, MadeOf, IncompleteTypes, liveVars, records
<1> QED
  BY <1>1, <1>2, <1>3, <1>4 DEF ScanInv

\* Neither the judgement nor the stuttering moves the two ends apart.
LEMMA JudgingKeeps ==
    ASSUME ScanInv, UNCHANGED liveVars, UNCHANGED inv, pc' = "load" <=> pc = "load"
    PROVE  ScanInv'
<1>1. /\ CollectedResources' = CollectedResources /\ IncompleteTypes' = IncompleteTypes
      /\ Finished' = Finished
  BY DEF CollectedResources, Published, MadeOf, IncompleteTypes, Finished, liveVars, records
<1>2. NoInventory' = NoInventory
  BY DEF NoInventory
<1> QED
  BY <1>1, <1>2 DEF ScanInv

\* Every state of a scan meets ScanInv (scan.go:151-215, 1238-1263).
THEOREM ScanInvHolds == LiveScanSpec => []ScanInv
<1>1. LiveScanInit => ScanInv
  BY DEF LiveScanInit, GateInit, Init, ScanInv
<1>2. ScanInv /\ [LiveScanNext]_liveScanVars => ScanInv'
  <2> SUFFICES ASSUME ScanInv, [LiveScanNext]_liveScanVars PROVE ScanInv'
    OBVIOUS
  <2>1. CASE RefuseToStart
    BY <2>1, JudgingKeeps DEF RefuseToStart, Abort, vars, inputs
  <2>2. CASE Collecting
    <3>1. pc = "load" /\ UNCHANGED <<pc, inv>>
      BY <2>2 DEF Collecting, gateVars, vars, inputs
    <3> QED
      BY <3>1 DEF ScanInv, NoInventory
  <2>3. CASE Judging
    <3>1. UNCHANGED inv /\ (pc' = "load" <=> pc = "load")
      BY <2>3 DEF Judging, GateNext, Assess, Abort, Exit, Exited, gateVars, vars, inputs, Next, Load, Build,
                  WithAttestedAbsence, Degrade, Apply, Done
    <3> QED
      BY <2>3, <3>1, JudgingKeeps DEF Judging
  <2>4. CASE UNCHANGED liveScanVars
    BY <2>4, JudgingKeeps DEF liveScanVars, gateVars, vars, inputs
  <2> QED
    BY <2>1, <2>2, <2>3, <2>4, LoadMeets DEF LiveScanNext
<1> QED
  BY <1>1, <1>2, PTL DEF LiveScanSpec

----------------------------------------------------------------------------
(* What the judgement says of the account.                                  *)

\* All that the two halves establish, in one place.
BothInv ==
    /\ GateTypeOK /\ GateInv /\ PassInv /\ RefusalInv /\ PassIsEarned
    /\ PlaceAndCall /\ CompleteIsWhole /\ CountIsExact /\ LeftInv
    /\ ScanInv

\* The theorems of the gate and those of the collection hold of a scan.
LEMMA BothHold == LiveScanSpec => []BothInv
<1>1. GateSpec => [](GateTypeOK /\ GateInv /\ PassInv /\ RefusalInv /\ PassIsEarned)
  BY GateRefinesAssessment, GateTypeCorrect, GateInvIsInductive, PassInvIsInductive,
     RefusalInvIsInductive, PassCorrect, PTL
<1>2. LiveSpec => [](PlaceAndCall /\ CompleteIsWhole /\ CountIsExact /\ LeftInv)
  BY PlaceAndCallHold, CompletesAreWhole, CountsAreExact, LeftHolds, PTL
<1>3. /\ GateTypeOK /\ GateInv /\ PassInv /\ RefusalInv /\ PassIsEarned
      /\ PlaceAndCall /\ CompleteIsWhole /\ CountIsExact /\ LeftInv
      /\ ScanInv
      => BothInv
  BY DEF BothInv
<1> QED
  BY <1>1, <1>2, <1>3, ScanIsAGate, ScanIsACollection, ScanInvHolds, PTL

\* Once the collection has ended, every task is behind it.
LEMMA EveryTaskIsDone ==
    ASSUME CollectTypeOK, Finished, NEW t \in DOMAIN Tasks
    PROVE  t \in 1 .. task - 1
BY TaskTypes, CollectAssumption DEF CollectTypeOK, Finished

\* What a control reads is complete, unless the control is degraded.
LEMMA ReadsAreComplete ==
    ASSUME NEW c \in ScanScope, c \notin degraded
    PROVE  Reads(c) \cap inv.incomplete = {}
BY DEF degraded, DegradedControls, Reads

\* Of a type that is complete, the document holds all that the APIs have.
LEMMA CompleteIsAllThere ==
    ASSUME BothInv, pc # "load", NEW T, T \cap inv.incomplete = {}, NEW t \in Feeding(T)
    PROVE  /\ AllThere(t)
           /\ ~Tasks[t].aggregate => read[t] = Whole(t)
<1>1. /\ t \in DOMAIN Tasks /\ Tasks[t].enabled /\ t \notin Strangers /\ Tasks[t].type \in T
  BY DEF Feeding
<1>2. /\ Finished /\ inv.present = CollectedResources /\ inv.incomplete = IncompleteTypes
      /\ CollectTypeOK /\ CompleteIsWhole
  BY DEF BothInv, ScanInv, PlaceAndCall
<1>3. t \in 1 .. task - 1 /\ Tasks[t].type \notin IncompleteTypes
  BY <1>1, <1>2, EveryTaskIsDone
<1>4. IF Tasks[t].aggregate THEN counts[t] = Number(t) ELSE read[t] = Whole(t)
  BY <1>1, <1>2, <1>3 DEF CompleteIsWhole
<1>5. CASE Tasks[t].aggregate
  <2>1. Number(t) # NoCount
    <3>1. listing[t].of[Root] \in Seq(Items)
      BY <1>1, <1>2, ListTypes DEF CollectTypeOK
    <3> QED
      BY <3>1 DEF Number, NoCount
  <2>2. Counted[t] \in Published
    BY <1>1, <1>4, <1>5, <2>1 DEF Published
  <2> QED
    BY <1>2, <1>4, <1>5, <2>2 DEF AllThere, CollectedResources
<1>6. CASE ~Tasks[t].aggregate
  <2>1. read[t] = Whole(t)
    BY <1>4, <1>6
  <2>2. MadeOf(t, read[t]) \subseteq CollectedResources
    BY <1>1 DEF CollectedResources
  <2> QED
    BY <1>2, <1>6, <2>1, <2>2 DEF AllThere
<1> QED
  BY <1>5, <1>6

\* Whatever the pages, the joins, the bounds and the refusals: a code 0 or 4, or the
\* headline "compliant", says that all that the account holds of the types the controls in
\* scope read was in the document that was judged (ADR-0005, scan.go:372-435).
THEOREM GreenIsOfTheWhole == LiveScanSpec => []GreenIsWhole
<1>1. BothInv => GreenIsWhole
  <2> SUFFICES ASSUME BothInv, exit \in {0, 4} \/ headline = "compliant",
                      NEW c \in ScanScope, NEW t \in Feeding(Reads(c))
               PROVE  AllThere(t)
    BY DEF GreenIsWhole
  <2>1. exit \in ExitCodes \ {2}
    BY DEF BothInv, GateTypeOK, ExitCodes
  <2>2. pc = "done" /\ exit = ExitCode(gate, strict) /\ headline = Headline(gate)
    BY <2>1 DEF BothInv, GateInv
  <2>3. degraded = {}
    <3>1. CASE exit \in {0, 4}
      BY <2>2, <3>1 DEF ExitCode
    <3>2. CASE headline = "compliant"
      BY <2>2, <3>2 DEF Headline
    <3> QED
      BY <3>1, <3>2
  <2> QED
    BY <2>2, <2>3, ReadsAreComplete, CompleteIsAllThere
<1> QED
  BY <1>1, BothHold, PTL

\* A resource that was made of an item bears the type of its task.
LEMMA MadeOfItsType ==
    ASSUME CollectTypeOK, NEW t \in DOMAIN Tasks, NEW r \in MadeOf(t, read[t])
    PROVE  r \in Resources /\ TypeOf[r] = Tasks[t].type
<1>1. PICK p \in read[t] : r = Made[t][p]
  BY DEF MadeOf
<1>2. p \in Listed
  BY DEF CollectTypeOK, Listed
<1> QED
  BY <1>1, <1>2, LiveScanAssumption

\* A pass is about the account and not about what could be read of it: every item its APIs
\* hold was judged, and the attributes that decide were observed on every one of them
\* (ADR-0006; engine.go:137-305 with scan.go:929-1061).
THEOREM PassesAreOnTheAccount == LiveScanSpec => []PassIsOnTheAccount
<1>1. BothInv => PassIsOnTheAccount
  <2> SUFFICES ASSUME BothInv, pc \in {"exempt", "done"},
                      NEW c \in Controls, results[c].status = "pass", NEW t \in Feeding(Reads(c))
               PROVE  /\ AllThere(t)
                      /\ ~Tasks[t].aggregate /\ NeededOn(c, Tasks[t].type) # {} =>
                            \A r \in MadeOf(t, Whole(t)) :
                                IF c \in RequireAll
                                THEN \A a \in NeededOn(c, Tasks[t].type) : SeenOn(r, a)
                                ELSE \E a \in NeededOn(c, Tasks[t].type) : SeenOn(r, a)
    BY DEF PassIsOnTheAccount
  <2>1. c \in ScanScope /\ c \notin degraded
    BY DEF BothInv, PassInv
  <2>2. AllThere(t) /\ (~Tasks[t].aggregate => read[t] = Whole(t))
    BY <2>1, ReadsAreComplete, CompleteIsAllThere
  <2>3. ASSUME ~Tasks[t].aggregate, NEW r \in MadeOf(t, Whole(t))
        PROVE  r \in inv.present /\ TypeOf[r] = Tasks[t].type
    <3>1. t \in DOMAIN Tasks /\ CollectTypeOK /\ r \in MadeOf(t, read[t])
      BY <2>2, <2>3 DEF Feeding, BothInv, PlaceAndCall
    <3> QED
      BY <2>2, <2>3, <3>1, MadeOfItsType DEF AllThere
  <2>4. \A r \in inv.present : NeededOn(c, TypeOf[r]) # {} =>
            IF c \in RequireAll
            THEN \A a \in NeededOn(c, TypeOf[r]) : SeenOn(r, a)
            ELSE \E a \in NeededOn(c, TypeOf[r]) : SeenOn(r, a)
    BY DEF BothInv, PassIsEarned
  <2> QED
    BY <2>2, <2>3, <2>4
<1> QED
  BY <1>1, BothHold, PTL

\* "No resource of this type" is said of an account that has none, and never of an API that
\* refused to list them, of a list that was cut at its first page, or of one of two units
\* that feed the type (assess.go:503-560, collection.go:108-113).
THEOREM NoResourceIsOfTheAccount == LiveScanSpec => []NoResourceIsTrue
<1>1. BothInv => NoResourceIsTrue
  <2> DEFINE judged(c) == IF PrimaryType[c] = NoType THEN ControlTypes(c) ELSE {PrimaryType[c]}
  <2> SUFFICES ASSUME BothInv, pc = "done", NEW c \in ScanScope,
                      results[c].status = "not-evaluated", results[c].why = "no resource",
                      NEW t \in Feeding(judged(c))
               PROVE  ~Tasks[t].aggregate /\ Whole(t) = {}
    BY DEF NoResourceIsTrue
  <2>1. c \notin degraded
    BY DEF BothInv, RefusalInv
  <2>2. c \in Controls
    BY CatalogueAssumption DEF ScanScope
  <2>3. judged(c) \cap inv.incomplete = {}
    BY <2>1, CompleteUnlessDegraded DEF ControlTypes
  <2>4. AllThere(t) /\ (~Tasks[t].aggregate => read[t] = Whole(t))
    <3> HIDE DEF judged
    <3> QED
      BY <2>3, CompleteIsAllThere
  <2>5. \A r \in inv.present : TypeOf[r] \notin judged(c)
    BY DEF BothInv, RefusalInv
  <2>6. t \in DOMAIN Tasks /\ Tasks[t].type \in judged(c) /\ CollectTypeOK
    BY DEF Feeding, BothInv, PlaceAndCall
  <2> HIDE DEF judged
  <2>7. ~Tasks[t].aggregate
    BY <2>4, <2>5, <2>6, LiveScanAssumption DEF AllThere
  <2>8. ASSUME NEW p \in Whole(t) PROVE FALSE
    <3>1. Made[t][p] \in MadeOf(t, Whole(t)) /\ Made[t][p] \in MadeOf(t, read[t])
      BY <2>4, <2>7, <2>8 DEF MadeOf
    <3>2. Made[t][p] \in inv.present
      BY <2>4, <2>7, <3>1 DEF AllThere
    <3> QED
      BY <2>5, <2>6, <3>1, <3>2, MadeOfItsType
  <2> QED
    BY <2>7, <2>8
<1> QED
  BY <1>1, BothHold, PTL

\* A failure is never silent: when a call of a unit has failed, no control that reads one of
\* its types passes, one that cannot conclude says that the collection is incomplete, and
\* the exit code is neither 0 nor 4 (ADR-0005).
THEOREM FailuresAreSaid == LiveScanSpec => []FailureIsSaid
<1>1. BothInv => FailureIsSaid
  <2> SUFFICES ASSUME BothInv, NEW t \in DOMAIN Tasks, NEW c \in ScanScope, Tasks[t].enabled,
                      Tasks[t].type \in Reads(c), causes[Tasks[t].unit] # NoFailure
               PROVE  /\ pc = "done" /\ results[c].status \in {"pass", "not-evaluated"} =>
                            results[c] = NotEvaluated("incomplete")
                      /\ exit \notin {0, 4}
    BY DEF FailureIsSaid
  <2>1. units[Tasks[t].unit].state = "incomplete"
    BY DEF BothInv, LeftInv, Units
  <2>2. pc # "load" => c \in degraded
    <3>1. SUFFICES ASSUME pc # "load" PROVE c \in degraded
      OBVIOUS
    <3>2. t \in 1 .. task - 1 /\ inv.incomplete = IncompleteTypes
      BY <3>1, EveryTaskIsDone DEF BothInv, ScanInv, PlaceAndCall
    <3>3. Tasks[t].type \in IncompleteTypes
      BY <2>1, <3>2 DEF IncompleteTypes
    <3> QED
      BY <3>2, <3>3 DEF degraded, DegradedControls, Reads
  <2>3. ASSUME pc = "done", results[c].status \in {"pass", "not-evaluated"}
        PROVE  results[c] = NotEvaluated("incomplete")
    <3>1. c \in Controls /\ c \in degraded
      BY <2>2, <2>3, CatalogueAssumption DEF ScanScope
    <3>2. results[c].status = "not-evaluated" /\ results[c].why = "incomplete"
      BY <2>3, <3>1 DEF BothInv, PassInv, RefusalInv
    <3>3. results[c] \in Result
      BY <3>1 DEF BothInv, GateTypeOK, TypeOK, Lines
    <3> QED
      BY <3>2, <3>3 DEF Result, NotEvaluated
  <2>4. exit \notin {0, 4}
    <3>1. SUFFICES ASSUME exit \in {0, 4} PROVE FALSE
      OBVIOUS
    <3>2. pc = "done" /\ exit = ExitCode(gate, strict)
      BY <3>1 DEF BothInv, GateInv, ExitCodes
    <3>3. degraded = {}
      BY <3>1, <3>2 DEF ExitCode
    <3> QED
      BY <2>2, <3>2, <3>3
  <2> QED
    BY <2>3, <2>4
<1> QED
  BY <1>1, BothHold, PTL

\* Nothing is invented: a resource that is judged is one that the descriptor declares or
\* that the account holds, of the owner it is attributed to, even when an API serves the
\* same page again; and a number that is judged is the exact one (engine.go:137-305).
THEOREM InventoriesAreReal == LiveScanSpec => []InventoryIsReal
<1>1. BothInv => InventoryIsReal
  <2> SUFFICES ASSUME BothInv, NEW r \in inv.present
               PROVE  \/ r \in Declared
                      \/ \E t \in DOMAIN Tasks : r \in MadeOf(t, Whole(t))
                      \/ \E t \in DOMAIN Tasks :
                            r = Counted[t] /\ (counts[t] = Number(t) \/ t \in Strangers)
    BY DEF InventoryIsReal
  <2>1. r \in CollectedResources
    BY DEF BothInv, ScanInv, NoInventory
  <2>2. CASE r \in Declared
    BY <2>2
  <2>3. CASE r \in Published
    <3>1. PICK t \in DOMAIN Tasks : r = Counted[t] /\ counts[t] # NoCount
      BY <2>3 DEF Published
    <3> QED
      BY <3>1 DEF BothInv, CountIsExact
  <2>4. CASE r \in UNION {MadeOf(t, read[t]) : t \in DOMAIN Tasks}
    <3>1. PICK t \in DOMAIN Tasks : r \in MadeOf(t, read[t])
      BY <2>4
    <3>2. r \in MadeOf(t, Whole(t))
      BY <3>1 DEF MadeOf, BothInv, LeftInv
    <3> QED
      BY <3>2
  <2> QED
    BY <2>1, <2>2, <2>3, <2>4 DEF CollectedResources
<1> QED
  BY <1>1, BothHold, PTL

=============================================================================

------------------------------ MODULE Gate_proofs ------------------------------
(***************************************************************************)
(* What the exit code of a scan is worth, for every catalogue, inventory,  *)
(* exemption file and profile.  A scan is an assessment followed by a      *)
(* reading of it (GateRefinesAssessment), so the theorems of               *)
(* Assessment_proofs hold of it; GateInv says that an exit code other than *)
(* 2 is the reading of a finished assessment.                              *)
(***************************************************************************)
EXTENDS Gate, Assessment_proofs

\* The gate adds a reading to the assessment and never changes it: every scan is a
\* behaviour of the assessment pipeline (scan.go calls the passes in that order).
THEOREM GateRefinesAssessment == GateSpec => Spec
<1>1. GateInit => Init
  BY DEF GateInit
<1>2. [GateNext]_gateVars => [Next]_vars
  BY DEF GateNext, Assess, Abort, Exit, Exited, gateVars
<1> QED
  BY <1>1, <1>2, PTL DEF GateSpec, Spec

\* The exit code and the headline are the gate's reading of a finished assessment.
GateInv ==
    exit \in ExitCodes \ {2} =>
        pc = "done" /\ exit = ExitCode(gate, strict) /\ headline = Headline(gate)

\* What the gate reads does not move once the scan has exited.
LEMMA GateInvIsInductive == GateSpec => []GateInv
<1>1. GateInit => GateInv
  BY DEF GateInit, GateInv, NoExit, ExitCodes
<1>2. GateInv /\ [GateNext]_gateVars => GateInv'
  <2> SUFFICES ASSUME GateInv, [GateNext]_gateVars PROVE GateInv'
    OBVIOUS
  <2> USE DEF settings, ExitCodes, NoExit
  <2>1. CASE UNCHANGED gateVars
    BY <2>1 DEF gateVars, vars, inputs, GateInv, ExitCode, Headline, Open, RetainedBy, AsideSevere,
                Measured, Applied, StrictRefuses, Stale, degraded, ExemptedKeys, Deviations
  <2>2. CASE Assess \/ Abort
    BY <2>2 DEF Assess, Abort, GateInv
  <2>3. CASE Exit
    BY <2>3 DEF Exit, GateInv, vars, inputs, ExitCode, Headline, Open, RetainedBy, AsideSevere,
                Measured, Applied, StrictRefuses, Stale, degraded, ExemptedKeys, Deviations
  <2> QED
    BY <2>1, <2>2, <2>3 DEF GateNext, Exited
<1> QED
  BY <1>1, <1>2, PTL DEF GateSpec

\* A scan in which no control is degraded read everything its controls read.
LEMMA NothingDegraded ==
    ASSUME degraded = {}
    PROVE  \A c \in ScanScope : ControlTypes(c) \cap inv.incomplete = {}
BY CompleteUnlessDegraded

\* An exempted line leaves a trace in the report of exemptions.
LEMMA NoWaiverIsSilent ==
    ASSUME TypeOK, WaiversAreEarned, ReportMatchesLines, pc = "done", ~Applied,
           NEW l \in Lines
    PROVE  results[l].status # "exempted"
BY DEF WaiversAreEarned, ReportMatchesLines, Applied

\* The exit code 0 is earned.
THEOREM ZeroCorrect == GateSpec => []ZeroIsEarned
<1>1. TypeOK /\ WaiversAreEarned /\ ReportMatchesLines /\ GateInv => ZeroIsEarned
  <2> SUFFICES ASSUME TypeOK, WaiversAreEarned, ReportMatchesLines, GateInv, exit = 0
               PROVE  ZeroIsEarned
    BY DEF ZeroIsEarned
  <2>1. /\ pc = "done" /\ Conforme(Open(gate)) /\ Measured # {}
        /\ ~AsideSevere(gate) /\ degraded = {} /\ ~Applied
    BY DEF GateInv, ExitCodes, ExitCode
  <2>2. \A l \in Lines : results[l].status # "exempted"
    BY <2>1, NoWaiverIsSilent
  <2>3. Open(gate) = RetainedBy(gate)
    BY <2>2 DEF Open, ExemptedKeys
  <2>4. \A f \in found \ Inconclusive : SeverityOf[f] \notin {"critical", "high"}
    BY <2>1, <2>3 DEF AsideSevere, Severe, Conforme, Deviations
  <2>5. \A f \in found \ Inconclusive : SeverityOf[f] \in {"medium", "low"}
    BY <2>4, GateAssumption DEF TypeOK, Severities
  <2> QED
    BY <2>1, <2>2, <2>5, NothingDegraded DEF ZeroIsEarned, Measured
<1> QED
  BY <1>1, GateRefinesAssessment, TypeCorrect, WaiversCorrect, ReportCorrect, GateInvIsInductive, PTL

\* An exemption that covers a line covers every line of the same control and subject.
LEMMA SameKeySameWaiver ==
    ASSUME NEW l \in Lines, NEW m \in Lines, NEW i,
           ControlOf(l) = ControlOf(m), SubjectOfLine(l) = SubjectOfLine(m), InForce(i, l)
    PROVE  InForce(i, m)
BY DEF InForce, Covers

\* The line of a finding carries its code and its subject.
LEMMA KeyOfAFinding ==
    ASSUME NEW f \in Findings
    PROVE  f \in Lines /\ ControlOf(f) = CodeOf[f] /\ SubjectOfLine(f) = SubjectOf[f]
BY DEF Lines, ControlOf, SubjectOfLine

\* What exemptedKeys holds is covered, even when another finding put the key there.
LEMMA ExemptedKeyIsInForce ==
    ASSUME WaiversAreEarned, pc = "done", NEW f \in Findings,
           <<CodeOf[f], SubjectOf[f]>> \in ExemptedKeys
    PROVE  \E i \in DOMAIN policy : InForce(i, f)
<1>1. PICK l \in Lines : /\ results[l].status = "exempted"
                         /\ ControlOf(l) = CodeOf[f] /\ SubjectOfLine(l) = SubjectOf[f]
  BY DEF ExemptedKeys
<1>2. waivers[l] \in DOMAIN policy /\ InForce(waivers[l], l)
  BY <1>1 DEF WaiversAreEarned
<1> QED
  BY <1>1, <1>2, KeyOfAFinding, SameKeySameWaiver

\* Code 4 covers every severe deviation of the scan.
THEOREM FourCorrect == GateSpec => []FourIsCovered
<1>1. TypeOK /\ WaiversAreEarned /\ GateInv => FourIsCovered
  <2> SUFFICES ASSUME TypeOK, WaiversAreEarned, GateInv, exit = 4 PROVE FourIsCovered
    BY DEF FourIsCovered
  <2>1. pc = "done" /\ Conforme(Open(gate)) /\ ~AsideSevere(gate) /\ degraded = {}
    BY DEF GateInv, ExitCodes, ExitCode
  <2>2. ASSUME NEW f \in Severe(found \ Inconclusive)
        PROVE  Retains(gate, f) /\ \E i \in DOMAIN policy : InForce(i, f)
    <3>1. f \in RetainedBy(gate) /\ f \in Findings
      BY <2>1 DEF AsideSevere, Severe, Deviations, TypeOK
    <3>2. f \notin Open(gate)
      BY <2>1, <2>2 DEF Conforme, Severe
    <3> QED
      BY <2>1, <3>1, <3>2, ExemptedKeyIsInForce DEF Open, RetainedBy
  <2> QED
    BY <2>1, <2>2, NothingDegraded DEF FourIsCovered
<1> QED
  BY <1>1, GateRefinesAssessment, TypeCorrect, WaiversCorrect, GateInvIsInductive, PTL

\* A severe deviation the assessment affirms and the profile retains returns 1.
THEOREM SeenDeviationCorrect == GateSpec => []SeenDeviationIsOne
<1>1. TypeOK /\ FailInv /\ WaiversAreEarned /\ GateInv => SeenDeviationIsOne
  <2> SUFFICES ASSUME TypeOK, FailInv, WaiversAreEarned, GateInv, exit \in ExitCodes \ {2},
                      NEW f \in Severe(found), results[f].status = "fail", Retains(gate, f)
               PROVE  exit = 1
    BY DEF SeenDeviationIsOne
  <2>1. pc = "done" /\ exit = ExitCode(gate, strict)
    BY DEF GateInv
  <2>2. f \in Findings /\ f \in Lines /\ f \in RetainedBy(gate)
    BY DEF TypeOK, Severe, Lines, FailInv, RetainedBy, Deviations
  <2>3. <<CodeOf[f], SubjectOf[f]>> \notin ExemptedKeys
    BY <2>1, <2>2, ExemptedKeyIsInForce DEF WaiversAreEarned
  <2>4. ~Conforme(Open(gate))
    BY <2>2, <2>3 DEF Open, Conforme, Severe
  <2> QED
    BY <2>1, <2>4 DEF ExitCode
<1> QED
  BY <1>1, GateRefinesAssessment, TypeCorrect, WaiversCorrect, FailInvIsInductive,
     GateInvIsInductive, PTL

\* Neither a profile nor --strict softens the verdict.
THEOREM SettingsCorrect == GateSpec => []SettingsNeverSoften
<1>1. TypeOK => SettingsNeverSoften
  <2> SUFFICES ASSUME TypeOK, NEW p \in GateProfiles, NEW s \in BOOLEAN
               PROVE  /\ ExitCode("all", s) = 1 => ExitCode(p, s) \in {1, 3}
                      /\ ExitCode("all", s) = 4 => ExitCode(p, s) \in {3, 4}
                      /\ ExitCode(p, TRUE) # ExitCode(p, FALSE) =>
                            ExitCode(p, FALSE) = 0 /\ ExitCode(p, TRUE) = 3
    BY DEF SettingsNeverSoften
  <2>1. RetainedBy("all") = Deviations
    BY GateAssumption DEF RetainedBy, Retains, CategoriesOf, ConfidencesOf, Deviations, TypeOK
  <2>2. Open(p) \subseteq Open("all")
    BY <2>1 DEF Open, RetainedBy
  <2>3. Conforme(Open(p)) /\ ~AsideSevere(p) => Conforme(Open("all"))
    BY <2>1 DEF Conforme, Open, AsideSevere, Severe
  <2>4. Conforme(Open("all")) => Conforme(Open(p))
    BY <2>2 DEF Conforme, Severe
  <2> QED
    BY <2>3, <2>4 DEF ExitCode
<1> QED
  BY <1>1, GateRefinesAssessment, TypeCorrect, PTL

\* Every state of a scan is well formed, its assessment included.
THEOREM GateTypeCorrect == GateSpec => []GateTypeOK
<1> DEFINE Settings == gate \in GateProfiles /\ strict \in BOOLEAN /\ relaxed \in BOOLEAN
           Verdict == /\ exit \in ExitCodes \cup {NoExit} /\ headline \in Headlines
                      /\ headline # "none" => exit \in ExitCodes \ {2}
<1>1. GateInit => Settings /\ Verdict
  <2>1. GateInit => Settings
    BY GateAssumption DEF GateInit
  <2>2. GateInit => Verdict
    BY DEF GateInit, Headlines
  <2> QED
    BY <2>1, <2>2
<1>2. Settings /\ [GateNext]_gateVars => Settings'
  <2>1. [GateNext]_gateVars => UNCHANGED settings
    BY DEF GateNext, Assess, Abort, Exit, Exited, gateVars, settings
  <2> QED
    BY <2>1 DEF settings
<1>3. Verdict /\ [GateNext]_gateVars => Verdict'
  <2> SUFFICES ASSUME Verdict, [GateNext]_gateVars PROVE Verdict'
    OBVIOUS
  <2>1. CASE Exit
    <3>1. ExitCode(gate, strict) \in ExitCodes \ {2}
      BY DEF ExitCode, ExitCodes
    <3>2. Headline(gate) \in Headlines
      BY DEF Headline, Headlines
    <3> QED
      BY <2>1, <3>1, <3>2 DEF Exit
  <2>2. CASE Abort
    <3>1. exit \notin ExitCodes \ {2} /\ exit' = 2 /\ headline' = headline
      BY <2>2 DEF Abort, ExitCodes, NoExit
    <3> QED
      BY <3>1 DEF ExitCodes
  <2>3. CASE UNCHANGED <<exit, headline>>
    BY <2>3
  <2> QED
    BY <2>1, <2>2, <2>3 DEF GateNext, Assess, Exited, gateVars
<1> QED
  BY <1>1, <1>2, <1>3, GateRefinesAssessment, TypeCorrect, PTL DEF GateSpec, GateTypeOK

\* The headline and the exit code tell one story.
THEOREM HeadlineCorrect == GateSpec => []HeadlineAgrees
<1>1. TypeOK /\ GateTypeOK /\ WaiversAreEarned /\ ReportMatchesLines /\ GateInv => HeadlineAgrees
  <2> SUFFICES ASSUME TypeOK, GateTypeOK, WaiversAreEarned, ReportMatchesLines, GateInv
               PROVE  HeadlineAgrees
    OBVIOUS
  <2>a. CASE exit \notin ExitCodes \ {2}
    <3>1. exit \notin {0, 1, 4} /\ headline = "none"
      BY <2>a DEF GateTypeOK, ExitCodes
    <3> QED
      BY <3>1 DEF HeadlineAgrees
  <2> SUFFICES ASSUME exit \in ExitCodes \ {2} PROVE HeadlineAgrees
    BY <2>a
  <2>1. pc = "done" /\ exit = ExitCode(gate, strict) /\ headline = Headline(gate)
    BY DEF GateInv
  <2>2. Conforme(RetainedBy(gate)) => Conforme(Open(gate))
    BY DEF Conforme, Severe, Open
  <2>3. ExemptedKeys = {} => Open(gate) = RetainedBy(gate)
    BY DEF Open
  <2>4. ~Applied => ExemptedKeys = {}
    BY <2>1, NoWaiverIsSilent DEF ExemptedKeys
  <2>5. exit = 0 => headline \in {"relaxed", "medium or low", "compliant"}
    <3>1. exit = 0 => /\ Measured # {} /\ degraded = {} /\ ExemptedKeys = {}
                      /\ Conforme(RetainedBy(gate))
      BY <2>1, <2>3, <2>4 DEF ExitCode
    <3> QED
      BY <2>1, <3>1 DEF Headline
  <2>6. exit = 1 => headline \in {"undetermined", "non-compliant", "partly waived"}
    <3>1. exit = 1 => ~Conforme(RetainedBy(gate)) /\ ~Conforme(Open(gate))
      BY <2>1, <2>2 DEF ExitCode
    <3> QED
      BY <2>1, <3>1 DEF Headline
  <2>7. exit = 4 => headline \notin {"undetermined", "non-compliant", "incomplete"}
    <3>1. exit = 4 => Measured # {} /\ degraded = {} /\ Conforme(Open(gate))
      BY <2>1 DEF ExitCode
    <3> QED
      BY <2>1, <2>3, <3>1 DEF Headline
  <2>8. ASSUME headline = "compliant"
        PROVE  /\ exit \in {0, 3, 4} /\ ~relaxed
               /\ \A f \in found \ Inconclusive : ~Retains(gate, f)
               /\ \A c \in ScanScope : ControlTypes(c) \cap inv.incomplete = {}
    <3>1. RetainedBy(gate) = {} /\ degraded = {} /\ ~relaxed /\ Conforme(RetainedBy(gate))
      BY <2>1, <2>8 DEF Headline, Conforme
    <3>2. exit \in {0, 3, 4}
      BY <2>1, <2>2, <3>1 DEF ExitCode
    <3> QED
      BY <3>1, <3>2, NothingDegraded DEF RetainedBy, Deviations
  <2> QED
    BY <2>5, <2>6, <2>7, <2>8 DEF HeadlineAgrees
<1> QED
  BY <1>1, GateRefinesAssessment, TypeCorrect, GateTypeCorrect, WaiversCorrect, ReportCorrect,
     GateInvIsInductive, PTL
=============================================================================

--------------------------- MODULE Assessment_proofs ---------------------------
(***************************************************************************)
(* The theorems of Assessment, for every catalogue, inventory, set of      *)
(* findings and exemption file.                                            *)
(*                                                                         *)
(* Each property is about the last state of the pipeline; what makes it    *)
(* inductive is a fact about every state since Build: PassInv (a pass      *)
(* keeps the conditions it was granted on), FailInv (only a finding fails, *)
(* nothing is exempted before Apply), LineInv (which lines exist never     *)
(* changes), DeviationInv (how a deviation may have been withdrawn) and    *)
(* RefusalInv (what a refusal says).  Once loaded, the inputs never        *)
(* change, so each action has only its own rewriting to justify.           *)
(***************************************************************************)
EXTENDS Assessment, TLAPS, WellFoundedInduction

\* A set of naturals that is not empty has a least element.
LEMMA LeastIndex ==
    ASSUME NEW S \in SUBSET Nat, S # {}
    PROVE  \E i \in S : \A j \in S : i <= j
<1> DEFINE R == {ss \in Nat \X Nat : ss[1] < ss[2]}
<1>1. IsWellFoundedOn(R, Nat)
  BY NatLessThanWellFounded DEF OpToRel
<1>2. \A i, j \in Nat : j < i => <<j, i>> \in R
  OBVIOUS
<1> HIDE DEF R
<1>3. PICK i \in S : \A j \in S : <<j, i>> \notin R
  BY <1>1, WFMin
<1>4. ASSUME NEW j \in S PROVE i <= j
  <2>1. i \in Nat /\ j \in Nat
    OBVIOUS
  <2>2. ~(j < i)
    BY <1>2, <1>3, <2>1
  <2> QED
    BY <2>1, <2>2
<1> QED
  BY <1>4

\* Match names the first exemption of the file that is a candidate, if there is one.
LEMMA MatchIsACandidate ==
    ASSUME policy \in Seq(Exemption), NEW l \in Lines
    PROVE  /\ Match(l) \in Nat
           /\ Match(l) # 0 => /\ results[l].status = "fail"
                              /\ Match(l) \in Candidates(l)
                              /\ \A j \in Candidates(l) : Match(l) <= j
           /\ results[l].status = "fail" /\ Match(l) = 0 => Candidates(l) = {}
<1>1. Candidates(l) \subseteq Nat \ {0}
  BY DEF Candidates
<1>2. CASE results[l].status = "fail" /\ Candidates(l) # {}
  <2>1. \E i \in Candidates(l) : \A j \in Candidates(l) : i <= j
    BY <1>1, <1>2, LeastIndex
  <2> QED
    BY <1>1, <1>2, <2>1 DEF Match
<1>3. CASE ~(results[l].status = "fail" /\ Candidates(l) # {})
  BY <1>3 DEF Match
<1> QED
  BY <1>2, <1>3

\* The line of a finding is a result.
LEMMA FindingResultType ==
    ASSUME NEW f \in Findings
    PROVE  FindingResult(f) \in Result
BY DEF FindingResult, Result, NoResult, NotEvaluated, Status, Reason

\* The line of a control is a result.
LEMMA ControlResultType ==
    ASSUME NEW c \in Controls
    PROVE  ControlResult(c) \in Result
BY DEF ControlResult, Result, NoResult, NotEvaluated, NotEvaluatedReason, Status, Reason

\* Every state of the pipeline is well formed (assess.Build and its passes return one
\* result per line, whatever the tables hold).
THEOREM TypeCorrect == Spec => []TypeOK
<1> USE DEF Lines
<1>1. Init => TypeOK
  <2> SUFFICES ASSUME Init PROVE TypeOK
    OBVIOUS
  <2>1. inv \in Inventory /\ found \subseteq Findings
    BY DEF Init, NoInventory, Inventory, AttrState
  <2>2. results \in [Lines -> Result] /\ waivers \in [Lines -> Nat]
    BY DEF Init, Result, NoResult, Status, Reason
  <2>3. effects \in Seq(Effect)
    BY DEF Init
  <2> QED
    BY <2>1, <2>2, <2>3 DEF Init, TypeOK
<1>2. TypeOK /\ [Next]_vars => TypeOK'
  <2> SUFFICES ASSUME TypeOK, [Next]_vars PROVE TypeOK'
    OBVIOUS
  <2>1. CASE Build
    <3>1. results' \in [Lines -> Result]
      BY <2>1, FindingResultType, ControlResultType DEF Build
    <3> QED
      BY <2>1, <3>1 DEF Build, TypeOK, inputs
  <2>2. CASE WithAttestedAbsence
    <3>1. results' \in [Lines -> Result]
      BY <2>2 DEF WithAttestedAbsence, TypeOK, Result, NotEvaluated, Status, Reason
    <3> QED
      BY <2>2, <3>1 DEF WithAttestedAbsence, TypeOK, inputs
  <2>3. CASE Degrade
    <3>1. results' \in [Lines -> Result]
      BY <2>3 DEF Degrade, DegradedResult, TypeOK, Result, NotEvaluated, Status, Reason
    <3> QED
      BY <2>3, <3>1 DEF Degrade, TypeOK, inputs
  <2>4. CASE Apply
    <3>1. policy \in Seq(Exemption)
      BY ScanAssumption DEF TypeOK
    <3>2. waivers' \in [Lines -> Nat]
      BY <2>4, <3>1, MatchIsACandidate DEF Apply
    <3>3. results' \in [Lines -> Result]
      <4>1. \A l \in Lines : [results[l] EXCEPT !.status = "exempted"] \in Result
        BY DEF TypeOK, Result, Status
      <4> QED
        BY <2>4, <4>1 DEF Apply, TypeOK
    <3>4. effects' \in Seq(Effect)
      <4>1. \A i \in DOMAIN policy : EffectOf(i) \in Effect
        BY DEF EffectOf, Triage, Effect
      <4>2. DOMAIN policy = 1 .. Len(policy) /\ Len(policy) \in Nat
        BY <3>1
      <4> QED
        BY <2>4, <4>1, <4>2 DEF Apply
    <3> QED
      BY <2>4, <3>2, <3>3, <3>4 DEF Apply, TypeOK, inputs
  <2>5. CASE Done
    BY <2>5 DEF Done, TypeOK, vars, inputs
  <2>6. CASE UNCHANGED vars
    BY <2>6 DEF TypeOK, vars, inputs
  <2>7. CASE Load
    <3>1. inv' \in Inventory /\ found' \subseteq Findings
      BY <2>7, ScanAssumption DEF Load, Emittable
    <3> QED
      BY <2>7, <3>1 DEF Load, TypeOK
  <2> QED
    BY <2>1, <2>2, <2>3, <2>4, <2>5, <2>6, <2>7 DEF Next
<1> QED
  BY <1>1, <1>2, PTL DEF Spec

\* After Build no pass of the pipeline affirms anything: a step only turns a fail into a
\* not-evaluated or an exempted, or a pass into a not-evaluated.
THEOREM PassesOnlyWithdraw == Spec => OnlyWithdraws
<1> DEFINE Step ==
      pc \notin {"load", "build"} =>
         \A l \in Lines : results'[l].status # results[l].status =>
             \/ results[l].status = "fail" /\ results'[l].status \in {"not-evaluated", "exempted"}
             \/ results[l].status = "pass" /\ results'[l].status = "not-evaluated"
<1>1. TypeOK /\ [Next]_vars => [Step]_vars
  <2> SUFFICES ASSUME TypeOK, Next PROVE Step
    OBVIOUS
  <2>1. CASE Build
    BY <2>1 DEF Build
  <2>2. CASE WithAttestedAbsence
    BY <2>2 DEF WithAttestedAbsence, Unattested, NotEvaluated
  <2>3. CASE Degrade
    BY <2>3 DEF Degrade, DegradedResult, NotEvaluated
  <2>4. CASE Apply
    <3>1. policy \in Seq(Exemption)
      BY ScanAssumption DEF TypeOK
    <3> SUFFICES ASSUME NEW l \in Lines, results'[l].status # results[l].status
                 PROVE  results[l].status = "fail" /\ results'[l].status = "exempted"
      OBVIOUS
    <3>2. results'[l] = IF Match(l) = 0 THEN results[l]
                        ELSE [results[l] EXCEPT !.status = "exempted"]
      BY <2>4 DEF Apply
    <3>3. Match(l) # 0
      BY <3>2
    <3> QED
      BY <3>1, <3>2, <3>3, MatchIsACandidate DEF TypeOK, Result
  <2>5. CASE Done
    BY <2>5 DEF Done, vars
  <2>6. CASE Load
    BY <2>6 DEF Load
  <2> QED
    BY <2>1, <2>2, <2>3, <2>4, <2>5, <2>6 DEF Next
<1> QED
  BY <1>1, TypeCorrect, PTL DEF Spec, OnlyWithdraws

\* On a type of the inventory, what a control needs is what decidingByType requires.
LEMMA NeededIsDeciding ==
    ASSUME NEW c \in Controls, NEW t \in types
    PROVE  NeededOn(c, t) = DecidingByType(c, t, types)
<1>1. \A u \in DOMAIN Deciding[c] :
        (u = Main /\ PrimaryType[c] \in {NoType, t} /\ t \in ControlTypes(c))
            <=> (u = Main /\ t \in TypesInScope(c, types))
  BY DEF ControlTypes, TypesInScope
<1> QED
  BY <1>1 DEF NeededOn, DecidingByType

\* What attrsByTypeOf keeps of a type was seen on each resource of the type.
LEMMA ObservedIsSeen ==
    ASSUME NEW t \in Types, NEW a \in attrsByType[t], NEW r \in inv.present, TypeOf[r] = t
    PROVE  SeenOn(r, a)
<1>1. a \in ObservedOn(inv, r)
  BY DEF attrsByType, AttrsByTypeOf, ResourcesOf
<1> QED
  BY <1>1 DEF ObservedOn, Exposed, ResourcesOf, SeenOn

\* attrCollected is a fact about every resource the control judges.
LEMMA CollectedIsSeen ==
    ASSUME TypeOK, NEW c \in Controls, AttrCollected(c, types, attrsByType),
           NEW r \in inv.present, NeededOn(c, TypeOf[r]) # {}
    PROVE  IF c \in RequireAll
           THEN \A a \in NeededOn(c, TypeOf[r]) : SeenOn(r, a)
           ELSE \E a \in NeededOn(c, TypeOf[r]) : SeenOn(r, a)
<1> DEFINE t == TypeOf[r]
<1>1. t \in Types /\ t \in types
  BY CatalogueAssumption DEF TypeOK, Inventory, types, ResourceTypesOf
<1>2. NeededOn(c, t) = DecidingByType(c, t, types)
  BY <1>1, NeededIsDeciding
<1>3. t \in DecidedTypes(c, types)
  BY <1>1, <1>2 DEF DecidingByType, DecidedTypes
<1>4. AttrsOnType(c, t, NeededOn(c, t), attrsByType)
  BY <1>2, <1>3 DEF AttrCollected, DecidedTypes
<1>5. \A a \in attrsByType[t] : SeenOn(r, a)
  BY <1>1, ObservedIsSeen
<1> QED
  BY <1>4, <1>5 DEF AttrsOnType

\* A control that applies has a resource to judge, unless it reads no type at all.
LEMMA ApplicableIsThere ==
    ASSUME NEW c \in Controls, Applicable(c, types)
    PROVE  ControlTypes(c) = {} \/ \E r \in inv.present : TypeOf[r] \in ControlTypes(c)
BY DEF Applicable, ControlTypes, types, ResourceTypesOf

\* A control that is not degraded reads no type whose collection failed.
LEMMA CompleteUnlessDegraded ==
    ASSUME NEW c \in ScanScope, c \notin degraded
    PROVE  ControlTypes(c) \cap inv.incomplete = {}
BY CatalogueAssumption, CatalogueShape DEF degraded, DegradedControls, ControlTypes, ScanScope

\* A pass was earned when it was granted, and survives no incompleteness.
PassInv ==
    /\ pc \notin {"load", "build"} =>
          \A c \in Controls : results[c].status = "pass" =>
              c \in ScanScope /\ ~HasFinding(c) /\ PassEarned(c)
    /\ pc \in {"exempt", "done"} =>
          \A c \in Controls : results[c].status = "pass" => c \notin degraded

\* PassInv holds at every pass.
LEMMA PassInvIsInductive == Spec => []PassInv
<1>1. Init => PassInv
  BY DEF Init, PassInv
<1>2. TypeOK /\ PassInv /\ [Next]_vars => PassInv'
  <2> SUFFICES ASSUME TypeOK, PassInv, [Next]_vars PROVE PassInv'
    OBVIOUS
  <2>0. Controls \subseteq Lines /\ \A c \in Controls : c \notin Findings /\ ControlOf(c) = c
    BY ScanAssumption DEF Lines, ControlOf
  <2>1. CASE Build
    <3> USE <2>1 DEF Build
    <3>1. UNCHANGED inputs
      OBVIOUS
    <3>2. ASSUME NEW c \in Controls, results'[c].status = "pass"
          PROVE  c \in ScanScope /\ ~HasFinding(c) /\ PassEarned(c)
      <4>1. results'[c] = ControlResult(c)
        BY <2>0
      <4> QED
        BY <3>2, <4>1 DEF ControlResult, NoResult, NotEvaluated, ScanScope
    <3>3. ASSUME NEW c \in Controls
          PROVE  (c \in ScanScope /\ ~HasFinding(c) /\ PassEarned(c))
                 => (c \in ScanScope /\ ~HasFinding(c) /\ PassEarned(c))'
      BY <3>1 DEF inputs, HasFinding, PassEarned, types, attrsByType
    <3> QED
      BY <3>2, <3>3 DEF PassInv
  <2>2. CASE WithAttestedAbsence
    BY <2>0, <2>2 DEF WithAttestedAbsence, PassInv, NotEvaluated, inputs, HasFinding, PassEarned,
                types, attrsByType
  <2>3. CASE Degrade
    BY <2>0, <2>3 DEF Degrade, DegradedResult, PassInv, NotEvaluated, inputs, HasFinding, PassEarned,
                types, attrsByType, degraded
  <2>4. CASE Apply
    BY <2>0, <2>4 DEF Apply, PassInv, inputs, HasFinding, PassEarned, types, attrsByType, degraded, TypeOK, Result
  <2>5. CASE UNCHANGED vars
    BY <2>5 DEF PassInv, vars, inputs, HasFinding, PassEarned, types, attrsByType, degraded
  <2>6. CASE Load
    BY <2>6 DEF Load, PassInv
  <2> QED
    BY <2>1, <2>2, <2>3, <2>4, <2>5, <2>6 DEF Next, Done
<1> QED
  BY <1>1, <1>2, TypeCorrect, PTL DEF Spec

\* No pass on what was not seen (ADR-0006): a pass that reaches the report was measured
\* on every resource it judges, on types collected entirely.
THEOREM PassCorrect == Spec => []PassIsEarned
<1>1. TypeOK /\ PassInv => PassIsEarned
  <2> SUFFICES ASSUME TypeOK, PassInv, pc \in {"exempt", "done"},
                      NEW c \in Controls, results[c].status = "pass"
               PROVE  /\ c \in ScanScope
                      /\ \A f \in found : CodeOf[f] # c
                      /\ ControlTypes(c) \cap inv.incomplete = {}
                      /\ ControlTypes(c) = {} \/ \E r \in inv.present : TypeOf[r] \in ControlTypes(c)
                      /\ \A r \in inv.present : NeededOn(c, TypeOf[r]) # {} =>
                            IF c \in RequireAll
                            THEN \A a \in NeededOn(c, TypeOf[r]) : SeenOn(r, a)
                            ELSE \E a \in NeededOn(c, TypeOf[r]) : SeenOn(r, a)
    BY DEF PassIsEarned
  <2>1. c \in ScanScope /\ ~HasFinding(c) /\ PassEarned(c) /\ c \notin degraded
    BY DEF PassInv
  <2>2. \A f \in found : CodeOf[f] # c
    BY <2>1 DEF HasFinding
  <2>3. ControlTypes(c) \cap inv.incomplete = {}
    BY <2>1, CompleteUnlessDegraded
  <2>4. ControlTypes(c) = {} \/ \E r \in inv.present : TypeOf[r] \in ControlTypes(c)
    BY <2>1, ApplicableIsThere DEF PassEarned
  <2>5. ASSUME NEW r \in inv.present, NeededOn(c, TypeOf[r]) # {}
        PROVE  IF c \in RequireAll
               THEN \A a \in NeededOn(c, TypeOf[r]) : SeenOn(r, a)
               ELSE \E a \in NeededOn(c, TypeOf[r]) : SeenOn(r, a)
    BY <2>1, <2>5, CollectedIsSeen DEF PassEarned
  <2> QED
    BY <2>1, <2>2, <2>3, <2>4, <2>5
<1> QED
  BY <1>1, TypeCorrect, PassInvIsInductive, PTL

\* Only a conclusive finding fails, no line says anything before Build, and nothing is
\* exempted before Apply.
FailInv ==
    /\ pc \in {"load", "build"} => \A l \in Lines : results[l].status = "none"
    /\ \A l \in Lines : results[l].status = "fail" =>
          l \in found \ Inconclusive /\ results[l].why = "observed"
    /\ pc # "done" => \A l \in Lines : results[l].status # "exempted"

\* FailInv holds at every pass.
LEMMA FailInvIsInductive == Spec => []FailInv
<1>1. Init => FailInv
  BY DEF Init, FailInv, NoResult
<1>2. TypeOK /\ FailInv /\ [Next]_vars => FailInv'
  <2> SUFFICES ASSUME TypeOK, FailInv, [Next]_vars PROVE FailInv'
    OBVIOUS
  <2>1. CASE Build
    <3>1. \A f \in Findings : /\ FindingResult(f).status # "exempted"
                              /\ FindingResult(f).status = "fail" =>
                                   f \in found \ Inconclusive /\ FindingResult(f).why = "observed"
      BY DEF FindingResult, NoResult, NotEvaluated
    <3>2. \A c \in Controls : ControlResult(c).status \notin {"fail", "exempted"}
      BY DEF ControlResult, NoResult, NotEvaluated
    <3> QED
      BY <2>1, <3>1, <3>2 DEF Build, FailInv, inputs, Lines
  <2>2. CASE WithAttestedAbsence
    BY <2>2 DEF WithAttestedAbsence, FailInv, inputs, NotEvaluated
  <2>3. CASE Degrade
    BY <2>3 DEF Degrade, DegradedResult, FailInv, inputs, NotEvaluated
  <2>4. CASE Apply
    <3>1. \A l \in Lines : results'[l].status = "fail" => results'[l] = results[l]
      BY <2>4 DEF Apply, TypeOK, Result
    <3> QED
      BY <2>4, <3>1 DEF Apply, FailInv, inputs
  <2>5. CASE UNCHANGED vars
    BY <2>5 DEF FailInv, vars, inputs
  <2>6. CASE Load
    BY <2>6 DEF Load, FailInv
  <2> QED
    BY <2>1, <2>2, <2>3, <2>4, <2>5, <2>6 DEF Next, Done
<1> QED
  BY <1>1, <1>2, TypeCorrect, PTL DEF Spec

\* For a deviation, the candidates of Apply are the exemptions in force.
LEMMA CandidatesAreInForce ==
    ASSUME TypeOK, NEW l \in Lines, results[l].status = "fail", NEW i \in DOMAIN policy
    PROVE  i \in Candidates(l) <=> InForce(i, l)
<1>1. policy[i] \in Exemption /\ now \in Nat
  BY ScanAssumption DEF TypeOK
<1>2. SubjectOfLine(l) \in KnownSubjects
  BY DEF KnownSubjects
<1> QED
  BY <1>1, <1>2 DEF Candidates, InForce, Triage, Expired, Covers, Exemption

\* What Apply does to one line.
LEMMA AfterApply ==
    ASSUME TypeOK, FailInv, Apply, NEW l \in Lines
    PROVE  /\ results'[l].status = "exempted" <=> Match(l) # 0
           /\ results'[l].why = results[l].why
           /\ waivers'[l] = Match(l)
           /\ results'[l].status = "fail" => results[l].status = "fail" /\ Match(l) = 0
           /\ Match(l) # 0 => results[l].status = "fail"
<1>1. results'[l] = IF Match(l) = 0 THEN results[l]
                    ELSE [results[l] EXCEPT !.status = "exempted"]
  BY DEF Apply
<1>2. results[l].status # "exempted" /\ results[l] \in Result
  BY DEF FailInv, TypeOK, Apply
<1> QED
  BY <1>1, <1>2 DEF Apply, Result, Match

\* A line is exempted exactly when the first exemption in force for it says so, and only
\* a deviation is (ADR-0008).
THEOREM WaiversCorrect == Spec => []WaiversAreEarned
<1>1. Init => WaiversAreEarned
  BY DEF Init, WaiversAreEarned
<1>2. TypeOK /\ FailInv /\ WaiversAreEarned /\ [Next]_vars => WaiversAreEarned'
  <2> SUFFICES ASSUME TypeOK, FailInv, WaiversAreEarned, [Next]_vars PROVE WaiversAreEarned'
    OBVIOUS
  <2>1. CASE Apply
    <3>1. policy \in Seq(Exemption) /\ UNCHANGED inputs
      BY <2>1, ScanAssumption DEF TypeOK, Apply
    <3>2. \A l \in Lines, i \in DOMAIN policy : InForce(i, l)' <=> InForce(i, l)
      BY <3>1 DEF inputs, InForce, Covers
    <3>3. ASSUME NEW l \in Lines, results'[l].status = "exempted"
          PROVE  /\ l \in found /\ results'[l].why = "observed"
                 /\ waivers'[l] \in DOMAIN policy
                 /\ InForce(waivers'[l], l)
                 /\ \A i \in 1 .. waivers'[l] - 1 : ~InForce(i, l)
      <4>1. /\ Match(l) # 0 /\ waivers'[l] = Match(l) /\ results[l].status = "fail"
            /\ results'[l].why = results[l].why
        BY <2>1, <3>3, AfterApply
      <4>2. /\ Match(l) \in Candidates(l) /\ Match(l) \in Nat
            /\ \A j \in Candidates(l) : Match(l) <= j
        BY <3>1, <4>1, MatchIsACandidate
      <4>3. Match(l) \in DOMAIN policy /\ InForce(Match(l), l)
        BY <4>1, <4>2, CandidatesAreInForce DEF Candidates
      <4>4. ASSUME NEW i \in 1 .. Match(l) - 1, InForce(i, l) PROVE FALSE
        <5>1. i \in DOMAIN policy /\ i < Match(l)
          BY <3>1, <4>2, <4>3
        <5> QED
          BY <4>1, <4>2, <4>4, <5>1, CandidatesAreInForce
      <4> QED
        BY <4>1, <4>3, <4>4 DEF FailInv
    <3>4. ASSUME NEW l \in Lines, results'[l].status = "fail", NEW i \in DOMAIN policy
          PROVE  ~InForce(i, l)
      <4>1. results[l].status = "fail" /\ Match(l) = 0
        BY <2>1, <3>4, AfterApply
      <4>2. Candidates(l) = {}
        BY <3>1, <4>1, MatchIsACandidate
      <4> QED
        BY <4>1, <4>2, CandidatesAreInForce
    <3> QED
      BY <3>1, <3>2, <3>3, <3>4 DEF WaiversAreEarned, inputs
  <2>2. CASE UNCHANGED vars
    BY <2>2 DEF WaiversAreEarned, vars, inputs, InForce, Covers
  <2> QED
    BY <2>1, <2>2 DEF Next, Load, Build, WithAttestedAbsence, Degrade, Done, WaiversAreEarned
<1> QED
  BY <1>1, <1>2, TypeCorrect, FailInvIsInductive, PTL DEF Spec

\* The report of exemptions agrees with the lines: exempt.Report.Applied, the fact that
\* forbids exit 0, is true exactly when some line was set aside.
THEOREM ReportCorrect == Spec => []ReportMatchesLines
<1>1. Init => ReportMatchesLines
  BY DEF Init, ReportMatchesLines
<1>2. TypeOK /\ FailInv /\ ReportMatchesLines /\ [Next]_vars => ReportMatchesLines'
  <2> SUFFICES ASSUME TypeOK, FailInv, ReportMatchesLines, [Next]_vars
               PROVE  ReportMatchesLines'
    OBVIOUS
  <2>1. CASE Apply
    <3>1. policy \in Seq(Exemption) /\ UNCHANGED inputs
      BY <2>1, ScanAssumption DEF TypeOK, Apply
    <3>2. effects' = [i \in DOMAIN policy |-> EffectOf(i)]
      BY <2>1 DEF Apply
    <3>3. ASSUME NEW i \in DOMAIN policy
          PROVE  effects'[i] = "applied" <=>
                    \E l \in Lines : results'[l].status = "exempted" /\ waivers'[l] = i
      <4>1. i # 0
        BY <3>1
      <4>2. \A l \in Lines : Match(l) = i => Triage(policy[i]) = "candidate"
        BY <3>1, <4>1, MatchIsACandidate DEF Candidates
      <4>3. EffectOf(i) = "applied" <=> \E l \in Lines : Match(l) = i
        BY <4>2 DEF EffectOf, Triage
      <4>4. \A l \in Lines : (results'[l].status = "exempted" /\ waivers'[l] = i) <=> Match(l) = i
        BY <2>1, <4>1, AfterApply
      <4> QED
        BY <3>2, <4>3, <4>4
    <3>4. ASSUME NEW i \in DOMAIN policy, policy[i].control \in Controls, now > policy[i].expires
          PROVE  effects'[i] \in {"expired", "orphan"}
      BY <3>2, <3>4 DEF EffectOf, Triage, Expired
    <3> QED
      BY <3>1, <3>2, <3>3, <3>4 DEF ReportMatchesLines, inputs
  <2>2. CASE UNCHANGED vars
    BY <2>2 DEF ReportMatchesLines, vars, inputs
  <2> QED
    BY <2>1, <2>2 DEF Next, Load, Build, WithAttestedAbsence, Degrade, Done, ReportMatchesLines
<1> QED
  BY <1>1, <1>2, TypeCorrect, FailInvIsInductive, PTL DEF Spec

\* The lines Build does not write.
Silent(l) ==
    IF l \in Findings THEN l \notin found
                      ELSE HasFinding(l) \/ (~NotApplicable(l) /\ l \notin Implemented)

\* The lines that exist after Build never change.
LineInv == pc \notin {"load", "build"} => \A l \in Lines : results[l].status = "none" <=> Silent(l)

\* LineInv holds at every pass.
LEMMA LineInvIsInductive == Spec => []LineInv
<1>1. Init => LineInv
  BY DEF Init, LineInv
<1>2. TypeOK /\ LineInv /\ [Next]_vars => LineInv'
  <2> SUFFICES ASSUME TypeOK, LineInv, [Next]_vars PROVE LineInv'
    OBVIOUS
  <2> USE DEF LineInv, Silent, HasFinding, inputs
  <2>1. CASE Build
    <3>1. \A f \in Findings : FindingResult(f).status = "none" <=> f \notin found
      BY DEF FindingResult, NoResult, NotEvaluated
    <3>2. \A c \in Controls : ControlResult(c).status = "none" <=>
                                 HasFinding(c) \/ (~NotApplicable(c) /\ c \notin Implemented)
      BY DEF ControlResult, NoResult, NotEvaluated
    <3> QED
      BY <2>1, <3>1, <3>2, ScanAssumption DEF Build, Lines
  <2>2. CASE WithAttestedAbsence
    BY <2>2 DEF WithAttestedAbsence, Unattested, NotEvaluated
  <2>3. CASE Degrade
    BY <2>3 DEF Degrade, DegradedResult, NotEvaluated
  <2>4. CASE Apply
    <3>1. \A l \in Lines : results'[l].status = "none" <=> results[l].status = "none"
      <4> SUFFICES ASSUME NEW l \in Lines
                   PROVE  results'[l].status = "none" <=> results[l].status = "none"
        OBVIOUS
      <4>1. results'[l] = IF Match(l) = 0 THEN results[l]
                          ELSE [results[l] EXCEPT !.status = "exempted"]
        BY <2>4 DEF Apply
      <4>2. Match(l) # 0 => results[l].status = "fail"
        BY DEF Match
      <4> QED
        BY <4>1, <4>2 DEF TypeOK, Result
    <3> QED
      BY <2>4, <3>1 DEF Apply
  <2>5. CASE UNCHANGED vars
    BY <2>5 DEF vars
  <2>6. CASE Load
    BY <2>6 DEF Load, LineInv
  <2> QED
    BY <2>1, <2>2, <2>3, <2>4, <2>5, <2>6 DEF Next, Done
<1> QED
  BY <1>1, <1>2, TypeCorrect, PTL DEF Spec

\* Every control in scope is answered, and no control has both a verdict and a finding.
THEOREM EveryControlCorrect == Spec => []EveryControlAnswered
<1>1. TypeOK /\ LineInv => EveryControlAnswered
  <2> SUFFICES ASSUME TypeOK, LineInv, pc = "done", NEW c \in Controls,
                      NEW lines, lines = {l \in Lines : ControlOf(l) = c /\ results[l].status # "none"}
               PROVE  /\ c \in ScanScope => lines # {}
                      /\ c \in lines => lines = {c}
    BY DEF EveryControlAnswered
  <2>1. c \in Lines /\ c \notin Findings /\ ControlOf(c) = c
    BY ScanAssumption DEF Lines, ControlOf
  <2>2. \A f \in found : f \in Lines /\ ControlOf(f) = CodeOf[f] /\ results[f].status # "none"
    BY DEF TypeOK, Lines, ControlOf, LineInv, Silent
  <2>3. c \in ScanScope => lines # {}
    BY <2>1, <2>2 DEF ScanScope, LineInv, Silent, HasFinding
  <2>4. ASSUME c \in lines, NEW l \in lines PROVE l = c
    <3>1. ~HasFinding(c)
      BY <2>1, <2>4 DEF LineInv, Silent
    <3>2. l \notin Findings
      BY <2>4, <3>1 DEF LineInv, Silent, HasFinding, ControlOf
    <3> QED
      BY <3>2 DEF ControlOf
  <2> QED
    BY <2>3, <2>4
<1> QED
  BY <1>1, TypeCorrect, LineInvIsInductive, PTL

\* The two reasons for which a deviation may be withdrawn, as ObservedDeviationStays
\* states them.
CorrelationLost(c) == \E t \in DOMAIN Deciding[c] \cap types : t # Main /\ ~Linked(c, t)

AbsenceUnsought(c) ==
    \E t \in DOMAIN AbsenceDeciders[c] :
        /\ \E r \in ResourcesOf(inv, t) : inv.sought[r] # {}
        /\ \E a \in AbsenceDeciders[c][t] : \A r \in ResourcesOf(inv, t) : a \notin inv.sought[r]

\* A broken correlation is a link that some resource lacks.
LEMMA BrokenIsUnlinked ==
    ASSUME TypeOK, NEW c \in Controls, CorrelationBroken(c, types, attrsByType)
    PROVE  CorrelationLost(c)
<1>1. PICK t \in (DOMAIN Deciding[c] \ {Main}) \cap types :
         ~AttrsOnType(c, t, Deciding[c][t], attrsByType)
  BY DEF CorrelationBroken
<1>2. t \in Types /\ Deciding[c][t] \subseteq Attrs /\ ResourcesOf(inv, t) # {}
  BY CatalogueAssumption DEF TypeOK, Inventory, types, ResourceTypesOf, ResourcesOf
<1>3. \A a \in Attrs : a \in attrsByType[t] <=> \A r \in ResourcesOf(inv, t) : SeenOn(r, a)
  BY <1>2 DEF attrsByType, AttrsByTypeOf, ObservedOn, Exposed, ResourcesOf, SeenOn
<1>4. ~Linked(c, t)
  BY <1>1, <1>2, <1>3 DEF Linked, AttrsOnType
<1> QED
  BY <1>1, <1>4 DEF CorrelationLost

\* An unattested absence is a field no resource of the type was asked for.
LEMMA UnattestedIsUnsought ==
    ASSUME NEW c \in Controls, UnattestedAbsence(c, ProvenanceOf(inv))
    PROVE  AbsenceUnsought(c)
<1>1. PICK t \in DOMAIN AbsenceDeciders[c] :
         /\ ProvenanceOf(inv)[t] # {}
         /\ AbsenceDeciders[c][t] \ ProvenanceOf(inv)[t] # {}
  BY DEF UnattestedAbsence
<1>2. ProvenanceOf(inv)[t] = UNION {inv.sought[r] : r \in ResourcesOf(inv, t)}
  BY <1>1, CatalogueAssumption DEF ProvenanceOf
<1> QED
  BY <1>1, <1>2 DEF AbsenceUnsought

\* A conclusive finding stays a deviation unless one of the two reasons holds.
DeviationInv ==
    pc \notin {"load", "build"} => \A f \in found \ Inconclusive :
        \/ results[f].status \in {"fail", "exempted"}
        \/ CodeOf[f] \in Controls /\ (CorrelationLost(CodeOf[f]) \/ AbsenceUnsought(CodeOf[f]))

\* An observed deviation is never silenced by incompleteness (ADR-0005).
THEOREM DeviationStaysCorrect == Spec => []ObservedDeviationStays
<1>1. Init => DeviationInv
  BY DEF Init, DeviationInv
<1>2. TypeOK /\ DeviationInv /\ [Next]_vars => DeviationInv'
  <2> SUFFICES ASSUME TypeOK, DeviationInv, [Next]_vars PROVE DeviationInv'
    OBVIOUS
  <2>0. \A f \in found : f \in Findings /\ f \in Lines
    BY DEF TypeOK, Lines
  <2>1. UNCHANGED inputs => \A c : /\ CorrelationLost(c)' <=> CorrelationLost(c)
                                   /\ AbsenceUnsought(c)' <=> AbsenceUnsought(c)
    BY DEF inputs, CorrelationLost, AbsenceUnsought, types, Linked, SeenOn
  <2>2. CASE Build
    <3>1. ASSUME NEW f \in found \ Inconclusive
          PROVE  \/ FindingResult(f).status = "fail"
                 \/ CodeOf[f] \in Controls /\ CorrelationLost(CodeOf[f])
      <4>1. CASE CorrelationBroken(CodeOf[f], types, attrsByType)
        BY <4>1, BrokenIsUnlinked DEF CorrelationBroken
      <4>2. CASE ~CorrelationBroken(CodeOf[f], types, attrsByType)
        BY <4>2 DEF FindingResult
      <4> QED
        BY <4>1, <4>2
    <3> QED
      BY <2>0, <2>1, <2>2, <3>1 DEF Build, DeviationInv, inputs
  <2>3. CASE WithAttestedAbsence
    <3>1. \A f \in found : Unattested(f) => /\ CodeOf[f] \in Controls
                                            /\ AbsenceUnsought(CodeOf[f])
      BY <2>0, UnattestedIsUnsought DEF Unattested, ControlOf
    <3> QED
      BY <2>0, <2>1, <2>3, <3>1 DEF WithAttestedAbsence, DeviationInv, inputs
  <2>4. CASE Degrade
    BY <2>0, <2>1, <2>4 DEF Degrade, DegradedResult, DeviationInv, inputs
  <2>5. CASE Apply
    <3>1. \A f \in found : results[f].status \in {"fail", "exempted"}
                              => results'[f].status \in {"fail", "exempted"}
      BY <2>0, <2>5 DEF Apply, TypeOK, Result
    <3> QED
      BY <2>0, <2>1, <2>5, <3>1 DEF Apply, DeviationInv, inputs
  <2>6. CASE UNCHANGED vars
    BY <2>1, <2>6 DEF DeviationInv, vars, inputs
  <2>7. CASE Load
    BY <2>7 DEF Load, DeviationInv
  <2> QED
    BY <2>2, <2>3, <2>4, <2>5, <2>6, <2>7 DEF Next, Done
<1>3. DeviationInv => ObservedDeviationStays
  BY DEF DeviationInv, ObservedDeviationStays, CorrelationLost, AbsenceUnsought
<1> QED
  BY <1>1, <1>2, <1>3, TypeCorrect, PTL DEF Spec

\* What a refusal may say, and that it names the failed collection once that is known.
RefusalInv ==
    /\ pc \notin {"load", "build"} => \A c \in ScanScope : results[c].status = "not-evaluated" =>
          /\ results[c].why # "not evaluable"
          /\ results[c].why = "no resource" =>
                \A r \in inv.present :
                    IF PrimaryType[c] = NoType THEN TypeOf[r] \notin ControlTypes(c)
                                               ELSE TypeOf[r] # PrimaryType[c]
    /\ pc \in {"exempt", "done"} => \A c \in degraded :
          results[c].status = "not-evaluated" => results[c].why = "incomplete"

\* The reasons of Build are true.
LEMMA ReasonIsTrue ==
    ASSUME NEW c \in Controls, ~PassEarned(c)
    PROVE  /\ NotEvaluatedReason(c) # "not evaluable"
           /\ NotEvaluatedReason(c) = "no resource" =>
                \A r \in inv.present :
                    IF PrimaryType[c] = NoType THEN TypeOf[r] \notin ControlTypes(c)
                                               ELSE TypeOf[r] # PrimaryType[c]
<1>1. \A r \in inv.present : TypeOf[r] \in types
  BY DEF types, ResourceTypesOf
<1>2. CASE PrimaryType[c] = NoType
  BY <1>1, <1>2, CatalogueShape
     DEF PassEarned, Applicable, NotEvaluatedReason, TypesInScope
<1>3. CASE PrimaryType[c] # NoType
  BY <1>1, <1>3, CatalogueShape DEF PassEarned, Applicable, NotEvaluatedReason
<1> QED
  BY <1>2, <1>3

\* RefusalInv holds at every pass.
LEMMA RefusalInvIsInductive == Spec => []RefusalInv
<1>1. Init => RefusalInv
  BY DEF Init, RefusalInv
<1>2. TypeOK /\ RefusalInv /\ [Next]_vars => RefusalInv'
  <2> SUFFICES ASSUME TypeOK, RefusalInv, [Next]_vars PROVE RefusalInv'
    OBVIOUS
  <2>0. /\ ScanScope \subseteq Lines /\ degraded \subseteq ScanScope
        /\ \A c \in ScanScope : c \in Controls /\ c \notin Findings /\ ControlOf(c) = c
    BY CatalogueAssumption, ScanAssumption DEF ScanScope, Lines, ControlOf, degraded, DegradedControls
  <2>1. CASE Build
    <3>1. \A c \in ScanScope : results'[c] = ControlResult(c)
      BY <2>0, <2>1 DEF Build
    <3>2. \A c \in ScanScope : ControlResult(c).status = "not-evaluated" =>
              ~PassEarned(c) /\ ControlResult(c).why = NotEvaluatedReason(c)
      BY DEF ControlResult, NoResult, NotEvaluated
    <3> QED
      BY <2>0, <2>1, <3>1, <3>2, ReasonIsTrue DEF Build, RefusalInv, inputs
  <2>2. CASE WithAttestedAbsence
    BY <2>0, <2>2 DEF WithAttestedAbsence, RefusalInv, NotEvaluated, inputs, degraded
  <2>3. CASE Degrade
    BY <2>0, <2>3 DEF Degrade, DegradedResult, RefusalInv, NotEvaluated, inputs, degraded
  <2>4. CASE Apply
    <3>1. \A c \in ScanScope : results'[c].status = "not-evaluated" => results'[c] = results[c]
      BY <2>0, <2>4 DEF Apply, TypeOK, Result
    <3> QED
      BY <2>0, <2>4, <3>1 DEF Apply, RefusalInv, inputs, degraded
  <2>5. CASE UNCHANGED vars
    BY <2>5 DEF RefusalInv, vars, inputs, degraded
  <2>6. CASE Load
    BY <2>6 DEF Load, RefusalInv
  <2> QED
    BY <2>1, <2>2, <2>3, <2>4, <2>5, <2>6 DEF Next, Done
<1> QED
  BY <1>1, <1>2, TypeCorrect, PTL DEF Spec

\* A refusal to conclude says the truth, and incompleteness is said wherever it is the
\* cause (collection.go).
THEOREM RefusalsCorrect == Spec => []RefusalsAreTrue
<1>1. RefusalInv => RefusalsAreTrue
  BY CompleteUnlessDegraded DEF RefusalInv, RefusalsAreTrue
<1> QED
  BY <1>1, RefusalInvIsInductive, PTL
=============================================================================

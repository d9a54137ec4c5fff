------------------------------ MODULE Assessment ------------------------------
(***************************************************************************)
(* The opposable assessment of one scan: Build derives one line per        *)
(* finding and one line per control without a finding, then later passes   *)
(* revise the lines - unattested absence, incomplete collection, dated     *)
(* exemptions - in the order of cmd/scan.go.                               *)
(*                                                                         *)
(* The exemption file and the instant of evaluation are chosen in Init.    *)
(* Load chooses the inventory and what the rules find on it; none of these *)
(* changes afterwards.                                                     *)
(* A line is the pair of a status and of the kind of reason its evidence   *)
(* gives; titles, references, remediations and wording are left out.       *)
(***************************************************************************)
EXTENDS Capability, Integers, Sequences

CONSTANTS
    Findings,        \* the findings a rule of the ruleset may emit
    Codes,           \* their codes; --policy-dir adds codes outside the referential
    CodeOf,          \* [Findings -> Codes]
    SubjectOf,       \* [Findings -> Subjects]
    Inconclusive,    \* findings that carry the label inconclusive
    Subjects,        \* names a result or an exemption may use
    Target,          \* targetID: the subject of a line about no resource
    AnySubject,      \* an exemption without `resource`
    Inventories,     \* the inventories Load draws from
    Policies,        \* the exemption files: sequences of Exemption
    Instants         \* the instants of evaluation

Exemption == [control : Codes, resource : Subjects \cup {AnySubject}, expires : Nat]

ASSUME ScanAssumption ==
    /\ Controls \subseteq Codes
    /\ Findings \cap Codes = {}
    /\ CodeOf \in [Findings -> Codes] /\ SubjectOf \in [Findings -> Subjects]
    /\ Inconclusive \subseteq Findings
    /\ Target \in Subjects /\ Resources \subseteq Subjects /\ AnySubject \notin Subjects
    /\ Inventories \subseteq Inventory
    /\ Policies \subseteq Seq(Exemption)
    /\ Instants \subseteq Nat

VARIABLES
    pc,              \* the next pass
    inv, found, policy, now,
    results,         \* [Lines -> Result]
    effects,         \* one Effect per exemption of the file
    waivers          \* [Lines -> the index of the exemption that covers it, or 0]

inputs == <<inv, found, policy, now>>
vars == <<pc, inputs, results, effects, waivers>>

----------------------------------------------------------------------------
(* Lines.  A finding is a line of its own; a control without a finding is   *)
(* one line about the target.                                               *)

Lines == Findings \cup Controls

ControlOf(l) == IF l \in Findings THEN CodeOf[l] ELSE l

SubjectOfLine(l) == IF l \in Findings THEN SubjectOf[l] ELSE Target

Status == {"fail", "pass", "not-evaluated", "not-applicable", "exempted", "none"}

Reason == {"observed", "inconclusive", "correlation", "clean", "contract",
           "no resource", "attribute", "not evaluable", "justified",
           "unattested", "incomplete", "none"}

Result == [status : Status, why : Reason]

NoResult == [status |-> "none", why |-> "none"]

Effect == {"orphan", "expired", "dormant", "applied"}

types == ResourceTypesOf(inv)
attrsByType == AttrsByTypeOf(inv)

NotEvaluated(why) == [status |-> "not-evaluated", why |-> why]

----------------------------------------------------------------------------
(* Build.                                                                   *)

FindingResult(f) ==
    CASE f \notin found -> NoResult
      [] f \in found /\ CorrelationBroken(CodeOf[f], types, attrsByType) ->
            NotEvaluated("correlation")
      [] f \in found /\ ~CorrelationBroken(CodeOf[f], types, attrsByType) ->
            IF f \in Inconclusive THEN NotEvaluated("inconclusive")
                                  ELSE [status |-> "fail", why |-> "observed"]

\* (mutant) an inconclusive finding does not count as the line of its control.
HasConclusiveFinding(c) == \E f \in found \ Inconclusive : CodeOf[f] = c

HasFinding(c) == \E f \in found : CodeOf[f] = c

\* What the absence of a finding is worth.
PassEarned(c) ==
    /\ Verified(c)
    /\ Applicable(c, types)
    /\ AttrCollected(c, types, attrsByType)

NotEvaluatedReason(c) ==
    IF ~Verified(c) THEN "contract"
    ELSE IF PrimaryType[c] # NoType /\ PrimaryType[c] \notin types THEN "no resource"
    ELSE IF /\ PrimaryType[c] = NoType /\ TypesInScope(c, types) = {}
            /\ ControlTypes(c) # {} THEN "no resource"
    ELSE IF ~AttrCollected(c, types, attrsByType) THEN "attribute"
    ELSE "not evaluable"

ControlResult(c) ==
    IF HasFinding(c) THEN NoResult
    ELSE IF NotApplicable(c) THEN [status |-> "not-applicable", why |-> "justified"]
    ELSE IF c \notin Implemented THEN NoResult
    ELSE IF PassEarned(c) THEN [status |-> "pass", why |-> "clean"]
    ELSE NotEvaluated(NotEvaluatedReason(c))

Build ==
    /\ pc = "build"
    /\ results' = [l \in Lines |-> IF l \in Findings THEN FindingResult(l)
                                                     ELSE ControlResult(l)]
    /\ pc' = "attest"
    /\ UNCHANGED <<inputs, effects, waivers>>

----------------------------------------------------------------------------
(* The passes.                                                              *)

\* A deviation inferred from an absence nobody sought is withdrawn.
Unattested(l) ==
    /\ results[l].status = "fail"
    /\ ControlOf(l) \in Controls
    /\ UnattestedAbsence(ControlOf(l), ProvenanceOf(inv))

WithAttestedAbsence ==
    /\ pc = "attest"
    /\ results' = [l \in Lines |-> IF Unattested(l) THEN NotEvaluated("unattested")
                                                    ELSE results[l]]
    /\ pc' = "degrade"
    /\ UNCHANGED <<inputs, effects, waivers>>

degraded == DegradedControls(inv.incomplete)

\* (mutant) every line of a degraded control is withdrawn, deviations included.
DegradedEveryLine(l) ==
    IF ControlOf(l) \in degraded /\ results[l] # NoResult
    THEN NotEvaluated("incomplete") ELSE results[l]

\* (mutant) a line that was already not evaluated keeps its former reason.
DegradedPassOnly(l) ==
    IF ControlOf(l) \in degraded /\ results[l].status = "pass"
    THEN NotEvaluated("incomplete") ELSE results[l]

\* Incompleteness withdraws a pass and names the reason of a not-evaluated; a
\* deviation that was observed stays.
DegradedResult(l) ==
    IF ControlOf(l) \in degraded /\ results[l].status \in {"pass", "not-evaluated"}
    THEN NotEvaluated("incomplete") ELSE results[l]

Degrade ==
    /\ pc = "degrade"
    /\ results' = [l \in Lines |-> DegradedResult(l)]
    /\ pc' = "exempt"
    /\ UNCHANGED <<inputs, effects, waivers>>

\* subjectsOf, completed by the subjects the lines carry.
KnownSubjects ==
    inv.present \cup {Target}
        \cup {SubjectOfLine(l) : l \in {l \in Lines : results[l].status # "none"}}

\* (mutant) an exemption lapses at the beginning of its last day.
ExpiredOnItsDay(e) == now >= e.expires

Expired(e) == now > e.expires

Triage(e) ==
    IF e.control \notin Controls THEN "orphan"
    ELSE IF e.resource # AnySubject /\ e.resource \notin KnownSubjects THEN "orphan"
    ELSE IF Expired(e) THEN "expired"
    ELSE "candidate"

Covers(e, l) ==
    /\ e.control = ControlOf(l)
    /\ e.resource \in {AnySubject, SubjectOfLine(l)}

\* The candidates that cover a line; the first of the file wins.
Candidates(l) ==
    {i \in DOMAIN policy : Triage(policy[i]) = "candidate" /\ Covers(policy[i], l)}

\* (mutant) whatever an exemption covers is exempted, measured or not.
MatchAnyStatus(l) ==
    IF Candidates(l) # {}
    THEN CHOOSE i \in Candidates(l) : \A j \in Candidates(l) : i <= j
    ELSE 0

Match(l) ==
    IF results[l].status = "fail" /\ Candidates(l) # {}
    THEN CHOOSE i \in Candidates(l) : \A j \in Candidates(l) : i <= j
    ELSE 0

\* (mutant) every exemption that covers a deviation counts as applied.
EffectCreditingAll(i) ==
    IF Triage(policy[i]) # "candidate" THEN Triage(policy[i])
    ELSE IF \E l \in Lines : Match(l) # 0 /\ i \in Candidates(l) THEN "applied" ELSE "dormant"

EffectOf(i) ==
    IF Triage(policy[i]) # "candidate" THEN Triage(policy[i])
    ELSE IF \E l \in Lines : Match(l) = i THEN "applied" ELSE "dormant"

Apply ==
    /\ pc = "exempt"
    /\ waivers' = [l \in Lines |-> Match(l)]
    /\ results' = [l \in Lines |-> IF Match(l) = 0 THEN results[l]
                                   ELSE [results[l] EXCEPT !.status = "exempted"]]
    /\ effects' = [i \in DOMAIN policy |-> EffectOf(i)]
    /\ pc' = "done"
    /\ UNCHANGED inputs

----------------------------------------------------------------------------
\* A rule names a resource it read.  A subject that is not a resource (the group
\* of a security group rule) may be named by any of them.
Emittable(i) == {f \in Findings : SubjectOf[f] \in Resources => SubjectOf[f] \in i.present}

NoInventory ==
    [present |-> {}, value |-> [r \in Resources |-> [a \in Attrs |-> "absent"]],
     sought |-> [r \in Resources |-> {}], incomplete |-> {}]

Init ==
    /\ pc = "load"
    /\ inv = NoInventory /\ found = {}
    /\ policy \in Policies
    /\ now \in Instants
    /\ results = [l \in Lines |-> NoResult]
    /\ effects = <<>>
    /\ waivers = [l \in Lines |-> 0]

\* The document is read and the rules are evaluated on it.
Load ==
    /\ pc = "load"
    /\ inv' \in Inventories
    /\ found' \in SUBSET Emittable(inv')
    /\ pc' = "build"
    /\ UNCHANGED <<policy, now, results, effects, waivers>>

Done == pc = "done" /\ UNCHANGED vars

Next == Load \/ Build \/ WithAttestedAbsence \/ Degrade \/ Apply \/ Done

Spec == Init /\ [][Next]_vars

----------------------------------------------------------------------------
(* Properties.                                                              *)

\* The state of the pipeline is well formed at every pass.
TypeOK ==
    /\ pc \in {"load", "build", "attest", "degrade", "exempt", "done"}
    /\ inv \in Inventory
    /\ found \subseteq Findings
    /\ policy \in Policies
    /\ now \in Instants
    /\ results \in [Lines -> Result]
    /\ effects \in Seq(Effect)
    /\ waivers \in [Lines -> Nat]

\* The attributes control c needs on the resources of type t.
NeededOn(c, t) ==
    UNION {Deciding[c][u] : u \in {u \in DOMAIN Deciding[c] :
              \/ u = t
              \/ u = Main /\ PrimaryType[c] \in {NoType, t} /\ t \in ControlTypes(c)}}

\* Attribute a of resource r was observed: its value arrived, or it was sought on r,
\* not exposed, and a resource of the same type shows the source can expose it.
SeenOn(r, a) ==
    \/ inv.value[r][a] = "value"
    \/ /\ a \in inv.sought[r]
       /\ inv.value[r][a] = "absent"
       /\ \E s \in inv.present : TypeOf[s] = TypeOf[r] /\ inv.value[s][a] = "value"

\* ADR-0006, "jamais conforme sur ce qui n'a pas ete vu".  Once incompleteness has
\* been applied, a pass says that the control is in scope, that no rule found
\* anything, that every type it reads was collected entirely, that something of
\* those types is there, and that on EVERY resource it judges, its deciding data was
\* observed.  Violating it takes a resource next to another one, in a type whose
\* collection said it went well (assess.go:377-511, scan.go:929-1061).
PassIsEarned ==
    pc \in {"exempt", "done"} =>
        \A c \in Controls : results[c].status = "pass" =>
            /\ c \in ScanScope
            /\ \A f \in found : CodeOf[f] # c
            /\ ControlTypes(c) \cap inv.incomplete = {}
            /\ ControlTypes(c) = {} \/ \E r \in inv.present : TypeOf[r] \in ControlTypes(c)
            /\ \A r \in inv.present : NeededOn(c, TypeOf[r]) # {} =>
                  IF c \in RequireAll
                  THEN \A a \in NeededOn(c, TypeOf[r]) : SeenOn(r, a)
                  ELSE \E a \in NeededOn(c, TypeOf[r]) : SeenOn(r, a)

\* After Build, a pass of the pipeline only ever withdraws an affirmation: nothing
\* becomes a pass, nothing becomes a deviation, a not-evaluated is never exempted
\* and a not-applicable never moves (attested_absence.go:68, collection.go:89,
\* apply.go:109-117).
OnlyWithdraws ==
    [][pc \notin {"load", "build"} =>
         \A l \in Lines : results'[l].status # results[l].status =>
             \/ results[l].status = "fail" /\ results'[l].status \in {"not-evaluated", "exempted"}
             \/ results[l].status = "pass" /\ results'[l].status = "not-evaluated"]_vars

\* The types of c whose link to the others was observed by one attribute at least
\* (all of them under RequireAll) on each resource.
Linked(c, t) ==
    LET everywhere == {a \in Deciding[c][t] : \A r \in ResourcesOf(inv, t) : SeenOn(r, a)}
    IN  IF c \in RequireAll THEN everywhere = Deciding[c][t] ELSE everywhere # {}

\* ADR-0005, "l'incompletude n'efface jamais un ecart observe".  A conclusive finding
\* whose correlation holds and whose absence, if it concludes from one, was sought
\* somewhere or never collected by Pepin at all, is a deviation of the final
\* report, open or exempted: no pass may silence it.
ObservedDeviationStays ==
    pc = "done" =>
        \A f \in found \ Inconclusive :
            LET c == CodeOf[f] IN
            \/ results[f].status \in {"fail", "exempted"}
            \/ /\ c \in Controls
               /\ \/ \E t \in DOMAIN Deciding[c] \cap types : t # Main /\ ~Linked(c, t)
                  \/ \E t \in DOMAIN AbsenceDeciders[c] :
                        /\ \E r \in ResourcesOf(inv, t) : inv.sought[r] # {}
                        /\ \E a \in AbsenceDeciders[c][t] :
                              \A r \in ResourcesOf(inv, t) : a \notin inv.sought[r]

\* A control in scope always has a line, and never both a verdict of its own and the
\* line of a finding: an inconclusive finding does not let a pass through.
EveryControlAnswered ==
    pc = "done" =>
        \A c \in Controls :
            LET lines == {l \in Lines : ControlOf(l) = c /\ results[l].status # "none"} IN
            /\ c \in ScanScope => lines # {}
            /\ c \in lines => lines = {c}

\* A refusal to conclude says what it stumbles on, and says it truly: never the
\* catch-all reason, never "no resource of this type" when there is one or when the
\* API refused to list them (collection.go:108-113).
RefusalsAreTrue ==
    pc = "done" =>
        \A c \in ScanScope : results[c].status = "not-evaluated" =>
            /\ results[c].why # "not evaluable"
            /\ ControlTypes(c) \cap inv.incomplete # {} => results[c].why = "incomplete"
            /\ results[c].why = "no resource" =>
                  \A r \in inv.present :
                      IF PrimaryType[c] = NoType THEN TypeOf[r] \notin ControlTypes(c)
                                                 ELSE TypeOf[r] # PrimaryType[c]

\* An exemption that is in force for a finding: it names a control of the
\* referential, has not lapsed at the instant of evaluation, and covers the line.
InForce(i, l) ==
    /\ policy[i].control \in Controls
    /\ now <= policy[i].expires
    /\ Covers(policy[i], l)

\* ADR-0008.  A line is exempted exactly when it was a deviation that some exemption
\* in force covers, it names the FIRST such exemption of the file, and what was
\* withdrawn or inconclusive is never exempted: one does not waive a control one
\* could not measure.
WaiversAreEarned ==
    pc = "done" =>
        \A l \in Lines :
            /\ results[l].status = "exempted" =>
                  /\ l \in found /\ results[l].why = "observed"
                  /\ waivers[l] \in DOMAIN policy
                  /\ InForce(waivers[l], l)
                  /\ \A i \in 1 .. waivers[l] - 1 : ~InForce(i, l)
            /\ results[l].status = "fail" => \A i \in DOMAIN policy : ~InForce(i, l)

\* The report of exemptions and the lines agree: an exemption counts as applied, the
\* fact that forbids exit 0, exactly when it set a deviation aside, and a lapsed or
\* orphan one is always reported (apply.go:77-81).
ReportMatchesLines ==
    pc = "done" =>
        /\ DOMAIN effects = DOMAIN policy
        /\ \A i \in DOMAIN policy :
              /\ effects[i] = "applied" <=>
                    \E l \in Lines : results[l].status = "exempted" /\ waivers[l] = i
              /\ policy[i].control \in Controls /\ now > policy[i].expires
                    => effects[i] \in {"expired", "orphan"}

=============================================================================

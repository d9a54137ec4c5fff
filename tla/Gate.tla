--------------------------------- MODULE Gate ---------------------------------
(***************************************************************************)
(* The gate: from the revised assessment and the findings to the exit code *)
(* and to the headline of the report (the end of cmd/scan.go, with         *)
(* internal/profile, internal/scoring and the two facts of exempt.Report). *)
(*                                                                         *)
(* Two readings of one scan meet here.  The exit code counts FINDINGS, the *)
(* headline and the coverage count LINES of the assessment; the properties *)
(* say how far they agree.                                                 *)
(***************************************************************************)
EXTENDS Assessment

CONSTANTS
    SeverityOf,      \* [Findings -> Severities]
    CategoryOf,      \* [Findings -> Categories], "unlabelled" when the rule gave none
    ConfidenceOf,    \* [Findings -> Confidences]
    Gates            \* the profiles Init draws from

Severities == {"critical", "high", "medium", "low"}
Categories == {"security", "compliance", "hygiene", "sovereignty", "unlabelled"}
Confidences == {"confirmed", "probable", "contextual", "unlabelled"}
GateProfiles == {"all", "security", "compliance", "sovereignty"}
ExitCodes == 0 .. 4
NoExit == -1

Headlines == {"undetermined", "waived", "partly waived", "non-compliant", "incomplete",
              "relaxed", "medium or low", "compliant", "none"}

ASSUME GateAssumption ==
    /\ SeverityOf \in [Findings -> Severities]
    /\ CategoryOf \in [Findings -> Categories]
    /\ ConfidenceOf \in [Findings -> Confidences]
    /\ Gates \subseteq GateProfiles

VARIABLES
    gate,       \* --gate
    strict,     \* --strict
    relaxed,    \* the effective configuration relaxes some control
    exit, headline

settings == <<gate, strict, relaxed>>
gateVars == <<vars, settings, exit, headline>>

----------------------------------------------------------------------------
(* What weighs.                                                             *)

CategoriesOf(p) ==
    CASE p = "all" -> Categories
      [] p = "security" -> {"security", "unlabelled"}
      [] p = "compliance" -> {"compliance", "hygiene", "unlabelled"}
      [] p = "sovereignty" -> {"sovereignty", "unlabelled"}

ConfidencesOf(p) ==
    IF p = "security" THEN {"confirmed", "probable", "unlabelled"} ELSE Confidences

\* A finding whose label is missing is retained by every profile.
Retains(p, f) == CategoryOf[f] \in CategoriesOf(p) /\ ConfidenceOf[f] \in ConfidencesOf(p)

\* SplitInconclusive: what is not a deviation weighs nowhere.
Deviations == found \ Inconclusive

RetainedBy(p) == {f \in Deviations : Retains(p, f)}

Severe(findings) == {f \in findings : SeverityOf[f] \in {"critical", "high"}}

\* (mutant) a set aside deviation is grave only when it is critical.
AsideCritical(p) == \E f \in Deviations \ RetainedBy(p) : SeverityOf[f] = "critical"

AsideSevere(p) == Severe(Deviations \ RetainedBy(p)) # {}

ExemptedKeys ==
    {<<ControlOf(l), SubjectOfLine(l)>> : l \in {l \in Lines : results[l].status = "exempted"}}

Open(p) == {f \in RetainedBy(p) : <<CodeOf[f], SubjectOf[f]>> \notin ExemptedKeys}

Conforme(findings) == Severe(findings) = {}

\* evaluatedNonGov, as a set.
Measured ==
    {l \in Lines : results[l].status \in {"pass", "fail"} /\ ControlOf(l) \notin Governance}

Applied == \E i \in DOMAIN effects : effects[i] = "applied"

Stale == \E i \in DOMAIN effects : effects[i] \in {"expired", "orphan"}

StrictRefuses(p) == RetainedBy(p) \ Severe(RetainedBy(p)) # {} \/ Stale \/ relaxed

\* (mutant) an incomplete collection is looked at before the deviations.
IncompleteFirst(p, s) ==
    IF degraded # {} THEN 3
    ELSE IF ~Conforme(Open(p)) THEN 1
    ELSE IF Measured = {} \/ AsideSevere(p) THEN 3
    ELSE IF Applied THEN 4
    ELSE IF s /\ StrictRefuses(p) THEN 3 ELSE 0

\* (mutant) --strict is looked at before the exemptions.
StrictBeforeWaiver(p, s) ==
    IF ~Conforme(Open(p)) THEN 1
    ELSE IF Measured = {} \/ AsideSevere(p) \/ degraded # {} THEN 3
    ELSE IF s /\ StrictRefuses(p) THEN 3
    ELSE IF Applied THEN 4 ELSE 0

\* (mutant) an exemption that was applied is looked at before the coverage.
WaiverFirst(p, s) ==
    IF ~Conforme(Open(p)) THEN 1
    ELSE IF Applied THEN 4
    ELSE IF Measured = {} \/ AsideSevere(p) \/ degraded # {} THEN 3
    ELSE IF s /\ StrictRefuses(p) THEN 3 ELSE 0

\* (mutant) a scan that measured nothing is a technical error.
NothingMeasuredIsAnError(p, s) ==
    IF Measured = {} THEN 2
    ELSE IF ~Conforme(Open(p)) THEN 1
    ELSE IF AsideSevere(p) \/ degraded # {} THEN 3
    ELSE IF Applied THEN 4
    ELSE IF s /\ StrictRefuses(p) THEN 3 ELSE 0

ExitCode(p, s) ==
    IF ~Conforme(Open(p)) THEN 1
    ELSE IF Measured = {} \/ AsideSevere(p) \/ degraded # {} THEN 3
    ELSE IF Applied THEN 4
    ELSE IF s /\ StrictRefuses(p) THEN 3 ELSE 0

\* (mutant) the headline forgets that the collection was incomplete.
HeadlineWithoutDegraded(p) ==
    IF Measured = {} THEN "undetermined"
    ELSE IF ~Conforme(RetainedBy(p)) THEN "non-compliant"
    ELSE IF relaxed THEN "relaxed"
    ELSE IF RetainedBy(p) # {} THEN "medium or low" ELSE "compliant"

Headline(p) ==
    IF Measured = {} THEN "undetermined"
    ELSE IF ~Conforme(RetainedBy(p)) /\ Conforme(Open(p)) /\ ExemptedKeys # {} THEN "waived"
    ELSE IF ~Conforme(RetainedBy(p)) /\ ExemptedKeys # {} THEN "partly waived"
    ELSE IF ~Conforme(RetainedBy(p)) THEN "non-compliant"
    ELSE IF degraded # {} THEN "incomplete"
    ELSE IF relaxed THEN "relaxed"
    ELSE IF RetainedBy(p) # {} THEN "medium or low" ELSE "compliant"

----------------------------------------------------------------------------
(* The end of a scan.                                                       *)

GateInit ==
    /\ Init
    /\ gate \in Gates /\ strict \in BOOLEAN /\ relaxed \in BOOLEAN
    /\ exit = NoExit /\ headline = "none"

Assess == exit = NoExit /\ Next /\ UNCHANGED <<settings, exit, headline>>

\* The inventory or the rules could not be read, the bundle or the report not written.
Abort ==
    /\ exit = NoExit /\ pc \in {"load", "build", "done"}
    /\ exit' = 2
    /\ UNCHANGED <<vars, settings, headline>>

Exit ==
    /\ exit = NoExit /\ pc = "done"
    /\ exit' = ExitCode(gate, strict)
    /\ headline' = Headline(gate)
    /\ UNCHANGED <<vars, settings>>

Exited == exit # NoExit /\ UNCHANGED gateVars

GateNext == Assess \/ Abort \/ Exit \/ Exited

GateSpec == GateInit /\ [][GateNext]_gateVars

----------------------------------------------------------------------------
(* Properties.                                                              *)

\* The state of a scan is well formed, its assessment included.
GateTypeOK ==
    /\ TypeOK
    /\ gate \in GateProfiles /\ strict \in BOOLEAN /\ relaxed \in BOOLEAN
    /\ exit \in ExitCodes \cup {NoExit} /\ headline \in Headlines
    /\ headline # "none" => exit \in ExitCodes \ {2}

\* A green light is earned: whatever the profile set aside and whatever was exempted,
\* the rules found no severe deviation on this inventory, some control that is not a
\* self-declared governance fact was really measured, and no control this scan could
\* conclude reads a type whose collection failed (scan.go:372-435, ADR-0005).
ZeroIsEarned ==
    exit = 0 =>
        /\ \A f \in found \ Inconclusive : SeverityOf[f] \in {"medium", "low"}
        /\ \E l \in Lines : results[l].status \in {"pass", "fail"} /\ ControlOf(l) \notin Governance
        /\ \A c \in ScanScope : ControlTypes(c) \cap inv.incomplete = {}
        /\ \A l \in Lines : results[l].status # "exempted"

\* No setting turns a red chain green (ADR-0019, ADR-0008): where the default
\* profile returns 1, another returns 1 or 3; where it returns 4, another returns 3 or
\* 4; and --strict only ever turns a 0 into a 3.
SettingsNeverSoften ==
    exit \in ExitCodes \ {2} =>
        \A p \in GateProfiles, s \in BOOLEAN :
            /\ ExitCode("all", s) = 1 => ExitCode(p, s) \in {1, 3}
            /\ ExitCode("all", s) = 4 => ExitCode(p, s) \in {3, 4}
            /\ ExitCode(p, TRUE) # ExitCode(p, FALSE) =>
                  ExitCode(p, FALSE) = 0 /\ ExitCode(p, TRUE) = 3

\* Code 4 says "assumed, dated and attributed", and of every severe deviation of the
\* scan: each one is covered by an exemption in force at the instant of evaluation,
\* none was set aside by the profile, and nothing was left unread.
FourIsCovered ==
    exit = 4 =>
        /\ \A f \in Severe(found \ Inconclusive) :
              Retains(gate, f) /\ \E i \in DOMAIN policy : InForce(i, f)
        /\ \A c \in ScanScope : ControlTypes(c) \cap inv.incomplete = {}

\* "Un ecart observe reste observe": a severe deviation that the profile retains and
\* the assessment still affirms returns 1, however much of the scope was left unread,
\* whatever else is exempted (scan.go:372-375).
SeenDeviationIsOne ==
    exit \in ExitCodes \ {2} =>
        \A f \in Severe(found) :
            results[f].status = "fail" /\ Retains(gate, f) => exit = 1

\* The headline and the code tell one story: a 0 is never printed under a headline
\* that denies compliance, and the headline "compliant" is never printed over a
\* deviation that weighs nor over a scope left unread.
HeadlineAgrees ==
    /\ exit = 0 => headline \in {"relaxed", "medium or low", "compliant"}
    /\ exit = 1 => headline \in {"undetermined", "non-compliant", "partly waived"}
    /\ exit = 4 => headline \notin {"undetermined", "non-compliant", "incomplete"}
    /\ headline = "compliant" =>
          /\ exit \in {0, 3, 4}
          /\ ~relaxed
          /\ \A f \in found \ Inconclusive : ~Retains(gate, f)
          /\ \A c \in ScanScope : ControlTypes(c) \cap inv.incomplete = {}

\* Contradicted by the code.  assessment-model.md says of not-evaluated that "treating
\* it as a fail would be equally wrong: nothing was observed to be broken": code 1
\* shows at least one severe line the assessment affirms.  The gate counts findings,
\* and a finding the assessment withdrew, for a broken correlation or an unattested
\* absence, still weighs.
OneShowsADeviation ==
    exit = 1 => \E f \in Severe(found) : results[f].status = "fail"

\* Contradicted by the code.  ADR-0008: the exempted deviation "reste dans les
\* decomptes de severite ; summary.conforme reste faux".  The summary is computed
\* after the profile has set deviations aside.
ExemptedStaysInSummary ==
    exit \in ExitCodes \ {2} =>
        \A f \in Severe(found) : results[f].status = "exempted" => ~Conforme(RetainedBy(gate))

=============================================================================

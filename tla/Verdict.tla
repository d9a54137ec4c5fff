------------------------------- MODULE Verdict -------------------------------
(***************************************************************************)
(* What a scan concludes, as a function of what it evaluates: the document *)
(* input.json, the exemptions, the instant they are judged at and the      *)
(* rules.  The passes themselves are the subject of Assessment; here only  *)
(* their outcome matters, because a bundle is written by one command and   *)
(* evaluated again by another one.                                         *)
(*                                                                         *)
(* A FACT is something of the tenant a rule reports when it reads it: it   *)
(* belongs to a control and to a resource, may count only from an instant  *)
(* on (the age of a key), may be read in a value that redaction hides, may *)
(* be known to a rule of --policy-dir only.                                *)
(***************************************************************************)
EXTENDS FiniteSets, Naturals, Sequences

CONSTANTS
    Controls,        \* the controls of the referential in the scope of the scans
    Facts,
    FactControl,     \* [Facts -> control codes; --policy-dir adds codes of its own]
    FactResource,    \* [Facts -> Resources \cup {Target}]
    FactSince,       \* [Facts -> Nat]: the instant a fact counts from
    Secret,          \* facts read in an attribute that --redact replaces
    External,        \* facts only a rule of --policy-dir reports
    Resources, Target,
    NameOf,          \* [Resources -> names]: what the rules call a resource
    StableOf,        \* [Resources -> names]: its identifiant_stable
    Configs,         \* resolved settings
    DefaultConfig,
    RelaxedBy,       \* [Configs -> SUBSET Controls]
    AnySubject,      \* an exemption without `resource`
    NoFact           \* the line of a control nothing was found on

ASSUME VerdictAssumption ==
    /\ FactResource \in [Facts -> Resources \cup {Target}]
    /\ FactSince \in [Facts -> Nat]
    /\ Secret \subseteq Facts /\ External \subseteq Facts /\ NoFact \notin Facts
    /\ \A f \in Facts : FactControl[f] \in Controls <=> f \notin External
    /\ Target \notin Resources /\ DefaultConfig \in Configs
    /\ RelaxedBy \in [Configs -> SUBSET Controls] /\ RelaxedBy[DefaultConfig] = {}

\* No two resources share a name or a stable identifier, none has the name of the tenant.
ASSUME NamesAssumption ==
    /\ \A r, s \in Resources : r # s => /\ NameOf[r] # NameOf[s] /\ StableOf[r] # StableOf[s]
                                        /\ NameOf[r] # StableOf[s]
    /\ \A r \in Resources : NameOf[r] # Target

Status == {"fail", "exempted", "pass", "not-evaluated"}

\* The evaluated document: the inventory, and what the scan carves into it.
Input == [facts : SUBSET Facts, present : SUBSET Resources, incomplete : BOOLEAN,
          redacted : BOOLEAN, evaluated_at : Nat, config : Configs]

Named(in, r) == IF r = Target THEN Target
                ELSE IF in.redacted THEN StableOf[r] ELSE NameOf[r]

\* The rules are a function of the document alone: time is its evaluated_at.
Findings(in, external) ==
    {f \in in.facts : /\ FactSince[f] <= in.evaluated_at
                      /\ f \in Secret => ~in.redacted
                      /\ f \in External => external}

InForce(exemptions, control, subject, at) ==
    \E i \in DOMAIN exemptions :
        /\ exemptions[i].control = control
        /\ exemptions[i].resource \in {AnySubject, subject}
        /\ at <= exemptions[i].expires

Line(fact, control, subject, status, config) ==
    [fact |-> fact, control |-> control, subject |-> subject, status |-> status,
     relaxed |-> control \in RelaxedBy[config]]

FindingLine(f, in, exemptions, at) ==
    LET c == FactControl[f]
        s == Named(in, FactResource[f]) IN
    Line(f, c, s,
         IF c \in Controls /\ InForce(exemptions, c, s, at) THEN "exempted" ELSE "fail",
         in.config)

QuietLine(c, in) ==
    Line(NoFact, c, Target,
         IF in.present = {} \/ in.incomplete THEN "not-evaluated" ELSE "pass", in.config)

Lines(in, exemptions, at, external) ==
    LET found == Findings(in, external) IN
    {FindingLine(f, in, exemptions, at) : f \in found}
        \cup {QuietLine(c, in) : c \in Controls \ {FactControl[f] : f \in found}}

SummaryOf(lines) == [s \in Status |-> Cardinality({l \in lines : l.status = s})]

----------------------------------------------------------------------------
(* --redact.                                                                *)

RedactInventory(in) == [in EXCEPT !.redacted = TRUE]

\* The names the evaluated inventory ties to a stable identifier.
Replaced(in, subject) ==
    IF \E r \in in.present : Named(in, r) = subject
    THEN StableOf[CHOOSE r \in in.present : Named(in, r) = subject]
    ELSE subject

RedactSubjects(lines, in) == {[l EXCEPT !.subject = Replaced(in, l.subject)] : l \in lines}

=============================================================================

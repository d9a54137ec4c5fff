------------------------------ MODULE Settings ------------------------------
(***************************************************************************)
(* The policy of a scan: its file, the profile it resolves to, and the     *)
(* relaxations that make a control lose its normative references.          *)
(*                                                                         *)
(* A section of the file or of the document is a function whose domain     *)
(* holds the fields that are given: an empty list that is given is not an  *)
(* absent list.  A text is a token; Norm gives the comparable form of a    *)
(* tag name and Lower the lower case of the other texts.                   *)
(***************************************************************************)
EXTENDS Integers, Sequences, FiniteSets, SequencesExt

CONSTANTS
    Blank,               \* the empty text
    Norm,                \* [tag name -> comparable form]
    Lower,               \* [text -> its lower case], the identity elsewhere
    DefaultNames,        \* defaultBillableTags
    DefaultNetworkNames, \* defaultNetworkTags
    DefaultAliases,      \* [tag name -> set of tag names]
    DefaultTypes, DefaultProduction, DefaultStates,
    DefaultAge, DefaultKeyAge,
    Constraints,         \* [control -> set of [parameter, kind]]
    ControlReferences    \* [control -> its normative references]

ASSUME SettingsAssumption ==
    /\ Norm[Blank] = Blank
    /\ \A a, b \in DOMAIN DefaultAliases : Norm[a] = Norm[b] => a = b
    /\ DOMAIN Constraints \subseteq DOMAIN ControlReferences

TagParameters == {"required_tags", "network_required_tags"}
MemberParameters == {"resource_types", "production_values", "accepted_states"}
DayParameters == {"max_age_days", "key_max_age_days"}
Parameters ==
    TagParameters \cup MemberParameters \cup DayParameters \cup {"min_confidence"}

ConfidenceLevels == <<"heuristic", "probable", "confirmed">>
LegacyConfidence ==
    [l \in {"low", "medium", "high"} |->
        CASE l = "low"    -> "heuristic"
          [] l = "medium" -> "probable"
          [] l = "high"   -> "confirmed"]

Given(section, field, default) ==
    IF field \in DOMAIN section THEN section[field] ELSE default
Modern(level) == Given(LegacyConfidence, level, level)
LowerOf(text) == Given(Lower, text, text)

(* An age is a number                                                      *)
DaysOf(section) == \A p \in DayParameters : p \in DOMAIN section => section[p] \in Int

(* The constraints are about settings; a set that may only grow is one that *)
(* the rules look for, a set that may only shrink is one that they accept   *)
(* (referentiel/controles.yaml).  What is in lower case stays as it is.     *)
ASSUME ConstraintsAssumption ==
    /\ \A control \in DOMAIN Constraints : \A c \in Constraints[control] :
        /\ c.parameter \in Parameters
        /\ c.kind = "superset_du_defaut" => c.parameter # "accepted_states"
        /\ c.kind = "sous_ensemble_du_defaut" => c.parameter \notin {"resource_types", "production_values"}
    /\ \A l \in ToSet(ConfidenceLevels) : LowerOf(l) = l
    /\ DefaultAge \in Int /\ DefaultKeyAge \in Int

(* Each setting is compared in the sense that has a meaning for it          *)
(* (referentiel/controles.yaml), and an old name is in lower case already. *)
ASSUME SensesAssumption ==
    /\ \A control \in DOMAIN Constraints : \A c \in Constraints[control] :
        \/ c.kind = "au_plus_le_defaut" /\ c.parameter \in DayParameters \cup {"min_confidence"}
        \/ c.kind = "superset_du_defaut" /\ c.parameter \in {"resource_types", "production_values"}
        \/ c.kind = "sous_ensemble_du_defaut" /\ c.parameter = "accepted_states"
        \/ c.kind = "au_moins_aussi_strict_que_le_defaut" /\ c.parameter \in TagParameters
    /\ \A l \in DOMAIN LegacyConfidence : LowerOf(l) = l

(***************************************************************************)
(* rankOfConfidence: the old names are looked up as they are written, the  *)
(* current ones whatever their case.                                       *)
(***************************************************************************)
RankOfConfidence(level) ==
    LET known == {i \in 1..Len(ConfidenceLevels) :
                    LowerOf(Modern(level)) = ConfidenceLevels[i]}
    IN  IF known = {} THEN -1 ELSE (CHOOSE i \in known : TRUE) - 1

-----------------------------------------------------------------------------
(* The file: [readable, controls, exceptions].                             *)

MandatoryFields == {"control", "justification", "owner", "approved_by", "expires_at"}

(* An exemption maps its mandatory fields to given, blank or unreadable    *)
ExemptionProblems(exceptions) ==
    {at \in (DOMAIN exceptions) \X MandatoryFields :
        \/ exceptions[at[1]][at[2]] = "blank"
        \/ at[2] = "expires_at" /\ exceptions[at[1]][at[2]] = "unreadable"}

ControlsProblems(controls) ==
    {f \in DOMAIN controls :
        \/ f \in TagParameters /\ Blank \in ToSet(controls[f])
        \/ f \in {"resource_types", "accepted_states"} /\ Blank \in controls[f]
        \/ f \in DayParameters /\ controls[f] < 1
        \/ f = "min_confidence" /\ RankOfConfidence(controls[f]) < 0}

(* Whether the section is there is told apart from a section left empty    *)
Load(file) ==
    LET says == file.controls # {} \/ file.exceptions # <<>>
        problems == ExemptionProblems(file.exceptions)
                      \cup UNION {ControlsProblems(c) \X {"controls"} : c \in file.controls}
    IN  [ok |-> file.readable /\ says /\ problems = {},
         problems |-> IF file.readable /\ says THEN problems ELSE {}]

-----------------------------------------------------------------------------
(* The resolved profile: a function over Parameters.                       *)

(***************************************************************************)
(* The aliases are indexed by comparable name while a map is walked: of    *)
(* two names that compare alike, the last one visited keeps its list.      *)
(***************************************************************************)
AliasIndexes(aliases) ==
    LET names == {Norm[n] : n \in DOMAIN aliases}
    IN  {ix \in [names -> {aliases[n] : n \in DOMAIN aliases}] :
            \A k \in names : \E n \in DOMAIN aliases :
                Norm[n] = k /\ ix[k] = aliases[n]}

KeysOf(name, index) ==
    ({Norm[name]} \cup {Norm[a] : a \in Given(index, Norm[name], {})}) \ {Blank}

ResolveTags(names, index) ==
    LET written == SelectSeq(names, LAMBDA n : n # Blank)
    IN  [i \in DOMAIN written |->
            [name |-> written[i], keys |-> KeysOf(written[i], index)]]

ResolveWith(controls, index) ==
    [p \in Parameters |->
        CASE p = "required_tags" ->
                ResolveTags(Given(controls, p, DefaultNames), index)
          [] p = "network_required_tags" ->
                ResolveTags(Given(controls, p, DefaultNetworkNames), index)
          [] p = "resource_types" -> Given(controls, p, DefaultTypes) \ {Blank}
          [] p = "production_values" ->
                IF p \in DOMAIN controls
                THEN {LowerOf(v) : v \in controls[p]} \ {Blank}
                ELSE DefaultProduction
          [] p = "accepted_states" -> Given(controls, p, DefaultStates) \ {Blank}
          [] p = "max_age_days" -> Given(controls, p, DefaultAge)
          [] p = "key_max_age_days" -> Given(controls, p, DefaultKeyAge)
          [] p = "min_confidence" ->
                Modern(LowerOf(Given(controls, p, ConfidenceLevels[1])))]

Resolutions(controls) ==
    {ResolveWith(controls, index) :
        index \in AliasIndexes(Given(controls, "aliases", DefaultAliases))}

NoControls == [f \in {} |-> {}]
Defaults == CHOOSE r \in Resolutions(NoControls) : TRUE

-----------------------------------------------------------------------------
(* Relaxations.                                                            *)

(* (mutant) a requirement is covered by one that shares a key with it       *)
CoveredByOverlap(want, got) == \E i \in DOMAIN got : got[i].keys \cap want.keys # {}
(* (mutant) a requirement is covered by an identical one only               *)
CoveredByTheSame(want, got) == \E i \in DOMAIN got : got[i].keys = want.keys

CoveredBy(want, got) ==
    \E i \in DOMAIN got : got[i].keys # {} /\ got[i].keys \subseteq want.keys
AtLeastAsStrict(got, want) == \A i \in DOMAIN want : CoveredBy(want[i], got)

Ordinal(res, p) ==
    IF p = "min_confidence" THEN RankOfConfidence(res[p]) ELSE res[p]
IsOrdinal(res, p) ==
    \/ p \in DayParameters
    \/ p = "min_confidence" /\ RankOfConfidence(res[p]) >= 0

Holds(res, c) ==
    LET p == c.parameter IN
    \/ /\ c.kind = "au_plus_le_defaut"
       /\ IsOrdinal(res, p)
       /\ Ordinal(res, p) <= Ordinal(Defaults, p)
    \/ /\ c.kind = "superset_du_defaut"
       /\ p \in MemberParameters
       /\ Defaults[p] \subseteq res[p]
    \/ /\ c.kind = "sous_ensemble_du_defaut"
       /\ p \in MemberParameters
       /\ res[p] \subseteq Defaults[p]
    \/ /\ c.kind = "au_moins_aussi_strict_que_le_defaut"
       /\ p \in TagParameters
       /\ AtLeastAsStrict(res[p], Defaults[p])

(* Per control, the parameters that break its references                   *)
Relaxations(res) ==
    [control \in DOMAIN Constraints |->
        {c.parameter : c \in {c \in Constraints[control] : ~Holds(res, c)}}]

Relaxed(relaxed) == {control \in DOMAIN relaxed : relaxed[control] # {}}

(* The lines [control, references, dropped] of the relaxed controls        *)
WithRelaxations(lines, relaxed) ==
    [i \in DOMAIN lines |->
        IF lines[i].control \in Relaxed(relaxed)
        THEN [lines[i] EXCEPT !.references = {}, !.dropped = lines[i].references]
        ELSE lines[i]]

(* What the report announces as lost                                       *)
DroppedReferences(relaxed) == UNION {ControlReferences[c] : c \in Relaxed(relaxed)}

-----------------------------------------------------------------------------
(* The configuration that a document carries: [shape, fields].  A tag of   *)
(* the document may leave its keys out: keys is a set of at most one set.  *)

Sealed(res) ==
    [shape |-> "object",
     fields |-> [p \in Parameters |->
        IF p \in TagParameters
        THEN [i \in DOMAIN res[p] |-> [name |-> res[p][i].name, keys |-> {res[p][i].keys}]]
        ELSE res[p]]]

(* encoding/json decodes an element over the one the slice already held    *)
DecodeTags(held, tags) ==
    [i \in DOMAIN tags |->
        [name |-> tags[i].name,
         keys |-> IF tags[i].keys # {} THEN UNION tags[i].keys
                  ELSE IF i \in DOMAIN held THEN held[i].keys ELSE {}]]

Decode(fields) ==
    [p \in Parameters |->
        IF p \notin DOMAIN fields THEN Defaults[p]
        ELSE IF p \in TagParameters THEN DecodeTags(Defaults[p], fields[p])
        ELSE fields[p]]

(* Carried: the set of at most one configuration of the document           *)
ConfigReadable(carried) == \A c \in carried : c.shape = "object"
ResolvedConfigOf(carried) ==
    IF carried = {} THEN Defaults ELSE Decode((CHOOSE c \in carried : TRUE).fields)

-----------------------------------------------------------------------------
(* What the rules find.  They read the document itself, field by field,    *)
(* with their own copy of the defaults: a tag without keys is never borne. *)

Read(carried, p) ==
    LET fields == (CHOOSE c \in carried : TRUE).fields
        value == Given(fields, p, Sealed(Defaults).fields[p])
    IN  IF p \in TagParameters
        THEN [i \in DOMAIN value |-> UNION value[i].keys]
        ELSE value

LevelRank ==
    [l \in ToSet(ConfidenceLevels) \cup DOMAIN LegacyConfidence |->
        (CHOOSE i \in 1..Len(ConfidenceLevels) : ConfidenceLevels[i] = Modern(l)) - 1]

Older(age, limit) == age > limit
AsSureAs(level, threshold) == Given(LevelRank, level, 0) >= Given(LevelRank, threshold, 0)

(* The subjects, of the universe S of subjects of p, that are a finding    *)
Found(p, read, S) ==
    CASE p \in TagParameters -> {s \in S : \E i \in DOMAIN read : s \cap read[i] = {}}
      [] p \in {"resource_types", "production_values"} -> S \cap read
      [] p = "accepted_states" -> S \ read
      [] p \in DayParameters -> {s \in S : Older(s, read)}
      [] p = "min_confidence" -> {s \in S : AsSureAs(s, read)}

(* The universe S holds the subjects that a profile and the defaults may    *)
(* tell apart: whatever bears some of the tags that are required, the types *)
(* and values that are looked for by default, the states that are accepted, *)
(* what is one day too old by default, and what is suspected at all.        *)
TellsApart(S, p, res) ==
    /\ p \in TagParameters => SUBSET UNION {res[p][i].keys : i \in DOMAIN res[p]} \subseteq S
    /\ p \in {"resource_types", "production_values"} => Defaults[p] \subseteq S
    /\ p = "accepted_states" => res[p] \subseteq S
    /\ p \in DayParameters => Defaults[p] + 1 \in S
    /\ p = "min_confidence" => Defaults[p] \in S
=============================================================================

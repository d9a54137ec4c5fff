---------------------------- MODULE Settings_proofs ----------------------------
(***************************************************************************)
(* Lemmas about the settings of a scan: the default profile exists, a      *)
(* profile that is resolved or decoded is well typed, and a constraint     *)
(* that holds makes the rules find all that the defaults find.             *)
(***************************************************************************)
EXTENDS Settings, TLAPS

\* A profile has every parameter, and its ages are numbers.
Profile(res) == DOMAIN res = Parameters /\ DaysOf(res)

-----------------------------------------------------------------------------
(* The resolved profiles.                                                  *)

\* Whatever the aliases, there is an index of them.
LEMMA IndexExists == ASSUME NEW aliases PROVE AliasIndexes(aliases) # {}
<1> DEFINE names == {Norm[n] : n \in DOMAIN aliases}
           ix == [k \in names |-> aliases[CHOOSE n \in DOMAIN aliases : Norm[n] = k]]
<1>1. ASSUME NEW k \in names
      PROVE  \E n \in DOMAIN aliases : Norm[n] = k /\ ix[k] = aliases[n]
  <2>1. \E n \in DOMAIN aliases : Norm[n] = k
    BY <1>1
  <2>2. LET n == CHOOSE n \in DOMAIN aliases : Norm[n] = k
        IN  n \in DOMAIN aliases /\ Norm[n] = k
    BY <2>1
  <2>3. ix[k] = aliases[CHOOSE n \in DOMAIN aliases : Norm[n] = k]
    BY <1>1
  <2> QED
    BY <2>2, <2>3
<1>2. ix \in [names -> {aliases[n] : n \in DOMAIN aliases}]
  <2> HIDE DEF ix
  <2>1. \A k \in names : ix[k] \in {aliases[n] : n \in DOMAIN aliases}
    BY <1>1
  <2> QED
    BY <2>1 DEF ix
<1>3. ix \in AliasIndexes(aliases)
  <2> HIDE DEF ix
  <2>1. \A k \in names : \E n \in DOMAIN aliases : Norm[n] = k /\ ix[k] = aliases[n]
    BY <1>1
  <2> QED
    BY <1>2, <2>1 DEF AliasIndexes
<1> QED
  BY <1>3

\* A policy whose ages are numbers resolves to a profile.
LEMMA ResolutionsAreProfiles ==
    ASSUME NEW controls, DaysOf(controls)
    PROVE  /\ Resolutions(controls) # {}
           /\ \A r \in Resolutions(controls) : Profile(r)
<1>1. AliasIndexes(Given(controls, "aliases", DefaultAliases)) # {}
  BY IndexExists
<1>2. ASSUME NEW index PROVE Profile(ResolveWith(controls, index))
  <2>1. DOMAIN ResolveWith(controls, index) = Parameters
    BY DEF ResolveWith
  <2>2. /\ ResolveWith(controls, index)["max_age_days"] = Given(controls, "max_age_days", DefaultAge)
        /\ ResolveWith(controls, index)["key_max_age_days"]
                = Given(controls, "key_max_age_days", DefaultKeyAge)
    BY DEF ResolveWith, Parameters, DayParameters, TagParameters, MemberParameters
  <2> QED
    BY <2>1, <2>2, ConstraintsAssumption DEF Profile, DaysOf, DayParameters, Given
<1> QED
  BY <1>1, <1>2 DEF Resolutions

\* The default profile is a profile.
LEMMA DefaultsAreAProfile ==
    /\ Defaults \in Resolutions(NoControls) /\ Profile(Defaults)
    /\ Defaults["min_confidence"] = "heuristic"
<1>1. DaysOf(NoControls)
  BY DEF DaysOf, NoControls
<1>2. Defaults \in Resolutions(NoControls)
  BY <1>1, ResolutionsAreProfiles DEF Defaults
<1>3. PICK index : Defaults = ResolveWith(NoControls, index)
  BY <1>2 DEF Resolutions
<1>4. ResolveWith(NoControls, index)["min_confidence"]
        = Modern(LowerOf(Given(NoControls, "min_confidence", ConfidenceLevels[1])))
  BY DEF ResolveWith, Parameters, DayParameters, TagParameters, MemberParameters
<1>5. Given(NoControls, "min_confidence", ConfidenceLevels[1]) = "heuristic"
  BY DEF Given, NoControls, ConfidenceLevels
<1>6. LowerOf("heuristic") = "heuristic"
  BY ConstraintsAssumption DEF ToSet, ConfidenceLevels
<1>7. Modern("heuristic") = "heuristic"
  BY DEF Modern, Given, LegacyConfidence
<1> QED
  BY <1>1, <1>2, <1>3, <1>4, <1>5, <1>6, <1>7, ResolutionsAreProfiles

\* What a document carries decodes to a profile.
LEMMA DecodedIsAProfile ==
    ASSUME NEW fields, DaysOf(fields) PROVE Profile(Decode(fields))
<1>1. DOMAIN Decode(fields) = Parameters
  BY DEF Decode
<1>2. ASSUME NEW p \in DayParameters PROVE Decode(fields)[p] \in Int
  <2>1. p \in Parameters /\ p \notin TagParameters
    BY <1>2 DEF Parameters, DayParameters, TagParameters
  <2>2. Decode(fields)[p] = IF p \notin DOMAIN fields THEN Defaults[p] ELSE fields[p]
    BY <2>1 DEF Decode
  <2>3. Defaults[p] \in Int
    BY <1>2, <2>1, DefaultsAreAProfile DEF Profile, DaysOf
  <2> QED
    BY <1>2, <2>2, <2>3 DEF DaysOf
<1> QED
  BY <1>1, <1>2 DEF Profile, DaysOf

-----------------------------------------------------------------------------
(* What the rules find.                                                    *)

\* The levels, their ranks and the ranks of the rules.
LEMMA LevelsOfConfidence ==
    /\ ToSet(ConfidenceLevels) = {"heuristic", "probable", "confirmed"}
    /\ DOMAIN LevelRank = {"heuristic", "probable", "confirmed", "low", "medium", "high"}
    /\ \A l \in DOMAIN LevelRank :
          /\ LevelRank[l] \in 0 .. 2
          /\ LevelRank[l] = 0 <=> Modern(l) = "heuristic"
          /\ LevelRank[l] = RankOfConfidence(l)
<1>1. ToSet(ConfidenceLevels) = {"heuristic", "probable", "confirmed"}
  BY DEF ToSet, ConfidenceLevels
<1>2. DOMAIN LevelRank = {"heuristic", "probable", "confirmed", "low", "medium", "high"}
  BY <1>1 DEF LevelRank, LegacyConfidence
<1>3. ASSUME NEW l \in DOMAIN LevelRank
      PROVE  /\ Modern(l) \in ToSet(ConfidenceLevels)
             /\ LowerOf(Modern(l)) = Modern(l)
  <2>1. Modern(l) \in ToSet(ConfidenceLevels)
    BY <1>1, <1>2 DEF Modern, Given, LegacyConfidence
  <2> QED
    BY <2>1, ConstraintsAssumption
<1>4. ASSUME NEW l \in DOMAIN LevelRank
      PROVE  /\ LevelRank[l] \in 0 .. 2
             /\ LevelRank[l] = 0 <=> Modern(l) = "heuristic"
             /\ LevelRank[l] = RankOfConfidence(l)
  <2> DEFINE m == Modern(l)
             ranks == {i \in 1 .. Len(ConfidenceLevels) : m = ConfidenceLevels[i]}
  <2>1. LevelRank[l] = (CHOOSE i \in 1 .. Len(ConfidenceLevels) : ConfidenceLevels[i] = m) - 1
    BY DEF LevelRank
  <2>2. m \in {"heuristic", "probable", "confirmed"}
    BY <1>1, <1>3
  <2>3. RankOfConfidence(l) = IF ranks = {} THEN -1 ELSE (CHOOSE i \in ranks : TRUE) - 1
    <3>1. LowerOf(Modern(l)) = m
      BY <1>3
    <3> HIDE DEF m
    <3> QED
      BY <3>1 DEF RankOfConfidence
  <2> HIDE DEF m
  <2>4. Len(ConfidenceLevels) = 3
    BY DEF ConfidenceLevels
  <2>5. PICK k \in 1 .. 3 : /\ ConfidenceLevels[k] = m
                            /\ \A i \in 1 .. 3 : ConfidenceLevels[i] = m => i = k
                            /\ k = 1 <=> m = "heuristic"
    BY <2>2 DEF ConfidenceLevels
  <2>6. (CHOOSE i \in 1 .. Len(ConfidenceLevels) : ConfidenceLevels[i] = m) = k
    BY <2>4, <2>5
  <2>7. ranks = {k}
    BY <2>4, <2>5
  <2>8. RankOfConfidence(l) = k - 1
    BY <2>3, <2>7
  <2>9. LevelRank[l] = k - 1
    BY <2>1, <2>6
  <2>10. k - 1 \in 0 .. 2 /\ (k - 1 = 0 <=> k = 1)
    BY <2>5
  <2> QED
    BY <2>5, <2>8, <2>9, <2>10 DEF m
<1> QED
  BY <1>1, <1>2, <1>4

\* What the rules read of the defaults.
LEMMA ReadDefaults ==
    ASSUME NEW p \in Parameters
    PROVE  Read({Sealed(Defaults)}, p)
             = IF p \in TagParameters THEN [i \in DOMAIN Defaults[p] |-> Defaults[p][i].keys] ELSE Defaults[p]
<1> DEFINE seal == Sealed(Defaults)
           value == seal.fields[p]
<1>1. (CHOOSE c \in {seal} : TRUE) = seal
  OBVIOUS
<1>2. DOMAIN seal.fields = Parameters
  BY DEF Sealed
<1>3. value = IF p \in TagParameters
              THEN [i \in DOMAIN Defaults[p] |-> [name |-> Defaults[p][i].name, keys |-> {Defaults[p][i].keys}]]
              ELSE Defaults[p]
  BY DEF Sealed
<1>4. Given(seal.fields, p, Sealed(Defaults).fields[p]) = value
  BY DEF Given
<1>5. Read({seal}, p) = IF p \in TagParameters THEN [i \in DOMAIN value |-> UNION value[i].keys] ELSE value
  BY <1>1, <1>4 DEF Read
<1> HIDE DEF seal
<1>6. CASE p \in TagParameters
  <2>1. DOMAIN value = DOMAIN Defaults[p]
    BY <1>3, <1>6
  <2>2. \A i \in DOMAIN Defaults[p] : value[i].keys = {Defaults[p][i].keys}
    BY <1>3, <1>6
  <2>3. \A i \in DOMAIN Defaults[p] : UNION value[i].keys = Defaults[p][i].keys
    BY <2>2
  <2> HIDE DEF value
  <2> QED
    BY <1>5, <1>6, <2>1, <2>3 DEF seal
<1>7. CASE p \notin TagParameters
  BY <1>3, <1>5, <1>7 DEF seal
<1> QED
  BY <1>6, <1>7

\* What they read of a configuration: the value that is given, or the default.
LEMMA ReadCarried ==
    ASSUME NEW fields, NEW shape, NEW p \in Parameters
    PROVE  Read({[shape |-> shape, fields |-> fields]}, p)
             = IF p \notin DOMAIN fields THEN Read({Sealed(Defaults)}, p)
               ELSE IF p \in TagParameters THEN [i \in DOMAIN fields[p] |-> UNION fields[p][i].keys]
               ELSE fields[p]
<1> DEFINE c == [shape |-> shape, fields |-> fields]
<1>1. (CHOOSE x \in {c} : TRUE).fields = fields
  <2>1. c.fields = fields
    OBVIOUS
  <2> HIDE DEF c
  <2>2. (CHOOSE x \in {c} : TRUE) = c
    OBVIOUS
  <2> QED
    BY <2>1, <2>2
<1>2. (CHOOSE x \in {Sealed(Defaults)} : TRUE) = Sealed(Defaults)
  OBVIOUS
<1>3. DOMAIN Sealed(Defaults).fields = Parameters
  BY DEF Sealed
<1> QED
  BY <1>1, <1>2, <1>3 DEF Read, Given

\* The findings of a parameter of each kind.
LEMMA FoundIs ==
    ASSUME NEW p, NEW read, NEW S
    PROVE  /\ p \in TagParameters =>
                Found(p, read, S) = {s \in S : \E i \in DOMAIN read : s \cap read[i] = {}}
           /\ p \in {"resource_types", "production_values"} => Found(p, read, S) = S \cap read
           /\ p = "accepted_states" => Found(p, read, S) = S \ read
           /\ p \in DayParameters => Found(p, read, S) = {s \in S : Older(s, read)}
           /\ p = "min_confidence" => Found(p, read, S) = {s \in S : AsSureAs(s, read)}
  BY DEF Found, TagParameters, DayParameters

\* A constraint that holds of what the document carries makes the rules find at least
\* what they find with the defaults.
LEMMA HeldConstraintFinds ==
    ASSUME NEW fields, NEW shape, DaysOf(fields), NEW control \in DOMAIN Constraints,
           NEW c \in Constraints[control], Holds(Decode(fields), c), NEW S,
           c.parameter \in DayParameters => S \subseteq Int
    PROVE  LET p == c.parameter IN
           Found(p, Read({Sealed(Defaults)}, p), S)
              \subseteq Found(p, Read({[shape |-> shape, fields |-> fields]}, p), S)
<1> DEFINE p == c.parameter
           held == Decode(fields)
           raw == Read({[shape |-> shape, fields |-> fields]}, p)
           dflt == Read({Sealed(Defaults)}, p)
<1>1. p \in Parameters
  BY ConstraintsAssumption
<1>2. /\ DOMAIN held = Parameters
      /\ p \in DOMAIN fields =>
            held[p] = IF p \in TagParameters THEN DecodeTags(Defaults[p], fields[p]) ELSE fields[p]
  BY <1>1 DEF Decode
<1>3. /\ dflt = IF p \in TagParameters THEN [i \in DOMAIN Defaults[p] |-> Defaults[p][i].keys]
                ELSE Defaults[p]
      /\ raw = IF p \notin DOMAIN fields THEN dflt
               ELSE IF p \in TagParameters THEN [i \in DOMAIN fields[p] |-> UNION fields[p][i].keys]
               ELSE fields[p]
  BY <1>1, ReadDefaults, ReadCarried
<1> HIDE DEF dflt, raw, held
<1>4. CASE p \notin DOMAIN fields
  BY <1>3, <1>4 DEF dflt, raw
<1>5. CASE p \in DOMAIN fields /\ p \in TagParameters
  <2>1. AtLeastAsStrict(held[p], Defaults[p])
    BY <1>5 DEF Holds, held, IsOrdinal, DayParameters, MemberParameters, TagParameters
  <2>2. held[p] = DecodeTags(Defaults[p], fields[p])
    BY <1>2, <1>5
  <2>3. ASSUME NEW s \in S, NEW i \in DOMAIN dflt, s \cap dflt[i] = {}
        PROVE  \E j \in DOMAIN raw : s \cap raw[j] = {}
    <3>1. i \in DOMAIN Defaults[p] /\ dflt[i] = Defaults[p][i].keys
      BY <1>3, <1>5, <2>3
    <3>2. PICK j \in DOMAIN held[p] : held[p][j].keys \subseteq Defaults[p][i].keys
      BY <2>1, <3>1 DEF AtLeastAsStrict, CoveredBy
    <3>3. j \in DOMAIN fields[p]
      BY <2>2, <3>2 DEF DecodeTags
    <3>4. fields[p][j].keys # {} => held[p][j].keys = UNION fields[p][j].keys
      BY <2>2, <3>3 DEF DecodeTags
    <3>5. j \in DOMAIN raw /\ raw[j] = UNION fields[p][j].keys
      BY <1>3, <1>5, <3>3
    <3>6. raw[j] \subseteq Defaults[p][i].keys
      BY <3>2, <3>4, <3>5
    <3> QED
      BY <2>3, <3>1, <3>5, <3>6
  <2>4. /\ Found(p, dflt, S) = {s \in S : \E i \in DOMAIN dflt : s \cap dflt[i] = {}}
        /\ Found(p, raw, S) = {s \in S : \E i \in DOMAIN raw : s \cap raw[i] = {}}
    BY <1>5, FoundIs
  <2> QED
    BY <2>3, <2>4 DEF dflt, raw
<1>6. CASE p \in DOMAIN fields /\ p \in {"resource_types", "production_values"}
  <2>1. p \notin TagParameters
    BY <1>6 DEF TagParameters
  <2>2. Defaults[p] \subseteq held[p]
    BY <1>6, ConstraintsAssumption
       DEF Holds, held, IsOrdinal, DayParameters, MemberParameters, TagParameters
  <2>3. dflt \subseteq raw
    BY <1>2, <1>3, <1>6, <2>1, <2>2
  <2>4. Found(p, dflt, S) = S \cap dflt /\ Found(p, raw, S) = S \cap raw
    BY <1>6, FoundIs
  <2> QED
    BY <2>3, <2>4 DEF dflt, raw
<1>7. CASE p \in DOMAIN fields /\ p = "accepted_states"
  <2>1. p \notin TagParameters
    BY <1>7 DEF TagParameters
  <2>2. held[p] \subseteq Defaults[p]
    BY <1>7, ConstraintsAssumption
       DEF Holds, held, IsOrdinal, DayParameters, MemberParameters, TagParameters
  <2>3. raw \subseteq dflt
    BY <1>2, <1>3, <1>7, <2>1, <2>2
  <2>4. Found(p, dflt, S) = S \ dflt /\ Found(p, raw, S) = S \ raw
    BY <1>7, FoundIs
  <2> QED
    BY <2>3, <2>4 DEF dflt, raw
<1>8. CASE p \in DOMAIN fields /\ p \in DayParameters
  <2>1. p \notin TagParameters /\ p # "min_confidence" /\ p \notin MemberParameters
    BY <1>8 DEF TagParameters, DayParameters, MemberParameters
  <2>2. held[p] <= Defaults[p]
    BY <1>8, <2>1 DEF Holds, held, IsOrdinal, Ordinal
  <2>3. Defaults[p] \in Int /\ fields[p] \in Int
    BY <1>1, <1>8, DefaultsAreAProfile DEF Profile, DaysOf
  <2>4. dflt \in Int /\ raw \in Int /\ raw <= dflt
    BY <1>2, <1>3, <1>8, <2>1, <2>2, <2>3
  <2>5. /\ Found(p, dflt, S) = {s \in S : Older(s, dflt)}
        /\ Found(p, raw, S) = {s \in S : Older(s, raw)}
    BY <1>8, FoundIs
  <2>6. \A s \in S : s \in Int
    BY <1>8
  <2>7. \A s \in S : Older(s, dflt) => Older(s, raw)
    BY <2>4, <2>6 DEF Older
  <2> QED
    BY <2>5, <2>7 DEF dflt, raw
<1>9. CASE p \in DOMAIN fields /\ p = "min_confidence"
  <2>1. p \notin TagParameters /\ p \notin MemberParameters /\ p \notin DayParameters
    BY <1>9 DEF TagParameters, DayParameters, MemberParameters
  <2>2. RankOfConfidence(held[p]) >= 0 /\ RankOfConfidence(held[p]) <= RankOfConfidence(Defaults[p])
    BY <1>9, <2>1 DEF Holds, held, IsOrdinal, Ordinal
  <2>3. Defaults[p] = "heuristic" /\ RankOfConfidence("heuristic") = 0 /\ LevelRank["heuristic"] = 0
    <3>1. "heuristic" \in DOMAIN LevelRank /\ Modern("heuristic") = "heuristic"
      BY LevelsOfConfidence DEF Modern, Given, LegacyConfidence
    <3> QED
      BY <1>9, <3>1, LevelsOfConfidence, DefaultsAreAProfile
  <2>4. raw = held[p] /\ dflt = "heuristic"
    BY <1>2, <1>3, <1>9, <2>1, <2>3
  <2>5. Given(LevelRank, raw, 0) = 0
    <3>1. CASE raw \in DOMAIN LevelRank
      <4>1. LevelRank[raw] = RankOfConfidence(raw) /\ LevelRank[raw] \in 0 .. 2
        BY <3>1, LevelsOfConfidence
      <4>2. LevelRank[raw] = 0
        BY <2>2, <2>3, <2>4, <4>1
      <4> QED
        BY <3>1, <4>2 DEF Given
    <3>2. CASE raw \notin DOMAIN LevelRank
      BY <3>2 DEF Given
    <3> QED
      BY <3>1, <3>2
  <2>6. \A s : Given(LevelRank, s, 0) >= 0
    <3>1. \A s \in DOMAIN LevelRank : LevelRank[s] \in 0 .. 2
      BY LevelsOfConfidence
    <3> QED
      BY <3>1 DEF Given
  <2>7. \A s \in S : AsSureAs(s, raw)
    BY <2>5, <2>6 DEF AsSureAs
  <2>8. /\ Found(p, dflt, S) = {s \in S : AsSureAs(s, dflt)}
        /\ Found(p, raw, S) = {s \in S : AsSureAs(s, raw)}
    BY <1>9, FoundIs
  <2> QED
    BY <2>7, <2>8 DEF dflt, raw
<1> QED
  BY <1>1, <1>4, <1>5, <1>6, <1>7, <1>8, <1>9 DEF Parameters, MemberParameters

-----------------------------------------------------------------------------
(* What a relaxed profile misses.                                          *)

\* A policy that was accepted resolves to one of the levels of confidence.
LEMMA ResolvedLevel ==
    ASSUME NEW controls, NEW res \in Resolutions(controls), ControlsProblems(controls) = {}
    PROVE  res["min_confidence"] \in ToSet(ConfidenceLevels)
<1> DEFINE level == Given(controls, "min_confidence", ConfidenceLevels[1])
<1>1. PICK index : res = ResolveWith(controls, index)
  BY DEF Resolutions
<1>2. res["min_confidence"] = Modern(LowerOf(level))
  BY <1>1 DEF ResolveWith, Parameters, DayParameters, TagParameters, MemberParameters
<1>3. /\ ToSet(ConfidenceLevels) = {"heuristic", "probable", "confirmed"}
      /\ \A l \in ToSet(ConfidenceLevels) : Modern(l) = l
  BY LevelsOfConfidence DEF Modern, Given, LegacyConfidence
<1>4. CASE "min_confidence" \notin DOMAIN controls
  <2>1. level = "heuristic"
    BY <1>4 DEF Given, ConfidenceLevels
  <2> HIDE DEF level
  <2>2. LowerOf(level) = "heuristic"
    BY <1>3, <2>1, ConstraintsAssumption
  <2> QED
    BY <1>2, <1>3, <2>2
<1>5. CASE "min_confidence" \in DOMAIN controls
  <2>1. level = controls["min_confidence"]
    BY <1>5 DEF Given
  <2>2. RankOfConfidence(controls["min_confidence"]) # -1
    <3>1. "min_confidence" \notin ControlsProblems(controls)
      OBVIOUS
    <3>2. ~(RankOfConfidence(controls["min_confidence"]) < 0)
      BY <1>5, <3>1 DEF ControlsProblems
    <3> QED
      BY <3>2
  <2> HIDE DEF level
  <2>3. \E i \in 1 .. Len(ConfidenceLevels) : LowerOf(Modern(level)) = ConfidenceLevels[i]
    BY <2>1, <2>2 DEF RankOfConfidence
  <2>4. LowerOf(Modern(level)) \in ToSet(ConfidenceLevels)
    BY <2>3 DEF ToSet, ConfidenceLevels
  <2>5. CASE level \in DOMAIN LegacyConfidence
    <3>1. LowerOf(level) = level
      BY <2>5, SensesAssumption
    <3>2. Modern(level) \in ToSet(ConfidenceLevels)
      BY <1>3, <2>5 DEF Modern, Given, LegacyConfidence
    <3> QED
      BY <1>2, <3>1, <3>2
  <2>6. CASE level \notin DOMAIN LegacyConfidence
    <3>1. Modern(level) = level
      BY <2>6 DEF Modern, Given
    <3> QED
      BY <1>2, <1>3, <2>4, <3>1
  <2> QED
    BY <2>5, <2>6
<1> QED
  BY <1>4, <1>5

\* The rules compare a configuration that was sealed as the profile it seals.
LEMMA SealedIsDecoded ==
    ASSUME NEW res, NEW p \in Parameters
    PROVE  /\ Decode(Sealed(res).fields)[p]
                = IF p \in TagParameters THEN [i \in DOMAIN res[p] |-> [name |-> res[p][i].name, keys |-> res[p][i].keys]]
                  ELSE res[p]
           /\ Read({Sealed(res)}, p)
                = IF p \in TagParameters THEN [i \in DOMAIN res[p] |-> res[p][i].keys] ELSE res[p]
<1> DEFINE fields == Sealed(res).fields
<1>1. /\ DOMAIN fields = Parameters
      /\ fields[p] = IF p \in TagParameters
                     THEN [i \in DOMAIN res[p] |-> [name |-> res[p][i].name, keys |-> {res[p][i].keys}]]
                     ELSE res[p]
  BY DEF Sealed
<1>2. Sealed(res) = [shape |-> "object", fields |-> fields]
  BY DEF Sealed
<1> HIDE DEF fields
<1>3. Read({Sealed(res)}, p) = IF p \in TagParameters THEN [i \in DOMAIN fields[p] |-> UNION fields[p][i].keys] ELSE fields[p]
  <2>1. Read({[shape |-> "object", fields |-> fields]}, p)
          = IF p \in TagParameters THEN [i \in DOMAIN fields[p] |-> UNION fields[p][i].keys] ELSE fields[p]
    BY <1>1, ReadCarried
  <2> QED
    BY <1>2, <2>1
<1>4. Decode(fields)[p] = IF p \in TagParameters THEN DecodeTags(Defaults[p], fields[p]) ELSE fields[p]
  BY <1>1 DEF Decode
<1>5. CASE p \in TagParameters
  <2>1. /\ DOMAIN fields[p] = DOMAIN res[p]
        /\ \A i \in DOMAIN res[p] : fields[p][i].name = res[p][i].name /\ fields[p][i].keys = {res[p][i].keys}
    BY <1>1, <1>5
  <2>2. \A i \in DOMAIN res[p] : fields[p][i].keys # {} /\ UNION fields[p][i].keys = res[p][i].keys
    BY <2>1
  <2>3. DecodeTags(Defaults[p], fields[p]) = [i \in DOMAIN res[p] |-> [name |-> res[p][i].name, keys |-> res[p][i].keys]]
    BY <2>1, <2>2 DEF DecodeTags
  <2> QED
    BY <1>3, <1>4, <1>5, <2>1, <2>2, <2>3 DEF fields
<1> QED
  BY <1>1, <1>3, <1>4, <1>5 DEF fields

\* A constraint that does not hold of a profile that is sealed, and loaded from an accepted
\* policy, makes the rules miss a subject that they find by default, unless a requirement of
\* the profile can be met by no tag.
LEMMA BrokenConstraintMisses ==
    ASSUME NEW controls, DaysOf(controls), ControlsProblems(controls) = {},
           NEW res \in Resolutions(controls),
           NEW control \in DOMAIN Constraints, NEW c \in Constraints[control],
           ~Holds(Decode(Sealed(res).fields), c), NEW S, TellsApart(S, c.parameter, res)
    PROVE  LET p == c.parameter IN
           \/ p \in TagParameters /\ {} \in Range(Read({Sealed(res)}, p))
           \/ ~ Found(p, Read({Sealed(Defaults)}, p), S) \subseteq Found(p, Read({Sealed(res)}, p), S)
<1> DEFINE p == c.parameter
           held == Decode(Sealed(res).fields)
           raw == Read({Sealed(res)}, p)
           dflt == Read({Sealed(Defaults)}, p)
<1>1. p \in Parameters /\ Profile(res)
  BY ConstraintsAssumption, ResolutionsAreProfiles
<1>2. /\ held[p] = IF p \in TagParameters
                   THEN [i \in DOMAIN res[p] |-> [name |-> res[p][i].name, keys |-> res[p][i].keys]]
                   ELSE res[p]
      /\ raw = IF p \in TagParameters THEN [i \in DOMAIN res[p] |-> res[p][i].keys] ELSE res[p]
      /\ dflt = IF p \in TagParameters THEN [i \in DOMAIN Defaults[p] |-> Defaults[p][i].keys] ELSE Defaults[p]
  BY <1>1, SealedIsDecoded, ReadDefaults
<1> HIDE DEF held, raw, dflt
<1> SUFFICES \/ p \in TagParameters /\ {} \in Range(raw)
             \/ \E s : s \in Found(p, dflt, S) /\ s \notin Found(p, raw, S)
  BY DEF raw, dflt
<1>3. CASE p \in TagParameters /\ {} \notin Range(raw)
  <2>1. c.kind = "au_moins_aussi_strict_que_le_defaut"
    BY <1>3, SensesAssumption DEF TagParameters, DayParameters
  <2>2. ~AtLeastAsStrict(held[p], Defaults[p])
    BY <1>3, <2>1 DEF Holds, held
  <2>3. PICK i \in DOMAIN Defaults[p] : ~CoveredBy(Defaults[p][i], held[p])
    BY <2>2 DEF AtLeastAsStrict
  <2> DEFINE want == Defaults[p][i].keys
             all == UNION {res[p][j].keys : j \in DOMAIN res[p]}
             s == all \ want
  <2>4. /\ DOMAIN raw = DOMAIN res[p]
        /\ \A j \in DOMAIN res[p] : raw[j] = res[p][j].keys /\ raw[j] # {} /\ ~(raw[j] \subseteq want)
    <3>1. DOMAIN raw = DOMAIN res[p] /\ \A j \in DOMAIN res[p] : raw[j] = res[p][j].keys
      BY <1>2, <1>3
    <3>2. DOMAIN held[p] = DOMAIN res[p] /\ \A j \in DOMAIN res[p] : held[p][j].keys = res[p][j].keys
      BY <1>2, <1>3
    <3>3. \A j \in DOMAIN raw : raw[j] # {}
      BY <1>3 DEF Range
    <3> QED
      BY <2>3, <3>1, <3>2, <3>3 DEF CoveredBy
  <2>5. s \in S
    <3>1. SUBSET all \subseteq S
      BY <1>3 DEF TellsApart
    <3> HIDE DEF all
    <3> QED
      BY <3>1
  <2>6. ASSUME NEW j \in DOMAIN raw PROVE s \cap raw[j] # {}
    <3>1. j \in DOMAIN res[p] /\ raw[j] = res[p][j].keys
      BY <2>4
    <3>2. PICK x \in raw[j] : x \notin want
      BY <2>4, <3>1
    <3>3. x \in all
      <4>1. res[p][j].keys \in {res[p][k].keys : k \in DOMAIN res[p]}
        BY <3>1
      <4>2. x \in res[p][j].keys
        BY <3>1, <3>2
      <4> QED
        BY <4>1, <4>2
    <3> HIDE DEF all
    <3> QED
      BY <3>2, <3>3
  <2>7. i \in DOMAIN dflt /\ dflt[i] = want
    BY <1>2, <1>3
  <2>8. s \cap dflt[i] = {}
    <3> HIDE DEF all
    <3>1. s \cap want = {}
      OBVIOUS
    <3> HIDE DEF s, want
    <3> QED
      BY <2>7, <3>1
  <2> HIDE DEF s
  <2>9. /\ Found(p, dflt, S) = {x \in S : \E k \in DOMAIN dflt : x \cap dflt[k] = {}}
        /\ Found(p, raw, S) = {x \in S : \E k \in DOMAIN raw : x \cap raw[k] = {}}
    BY <1>3, FoundIs
  <2> QED
    BY <2>5, <2>6, <2>7, <2>8, <2>9
<1>4. CASE p \in {"resource_types", "production_values"}
  <2>1. p \notin TagParameters /\ p \in MemberParameters /\ c.kind = "superset_du_defaut"
    BY <1>4, SensesAssumption DEF TagParameters, MemberParameters, DayParameters
  <2>2. ~(Defaults[p] \subseteq held[p])
    BY <2>1 DEF Holds, held
  <2>3. held[p] = res[p] /\ raw = res[p] /\ dflt = Defaults[p]
    BY <1>2, <2>1
  <2>4. Defaults[p] \subseteq S
    BY <1>4, <2>1 DEF TellsApart
  <2>5. Found(p, dflt, S) = S \cap dflt /\ Found(p, raw, S) = S \cap raw
    BY <1>4, FoundIs
  <2> QED
    BY <2>2, <2>3, <2>4, <2>5
<1>5. CASE p = "accepted_states"
  <2>1. p \notin TagParameters /\ p \in MemberParameters /\ c.kind = "sous_ensemble_du_defaut"
    BY <1>5, SensesAssumption DEF TagParameters, MemberParameters, DayParameters
  <2>2. ~(held[p] \subseteq Defaults[p])
    BY <2>1 DEF Holds, held
  <2>3. held[p] = res[p] /\ raw = res[p] /\ dflt = Defaults[p]
    BY <1>2, <2>1
  <2>4. res[p] \subseteq S
    BY <1>5, <2>1 DEF TellsApart
  <2>5. Found(p, dflt, S) = S \ dflt /\ Found(p, raw, S) = S \ raw
    BY <1>5, FoundIs
  <2> QED
    BY <2>2, <2>3, <2>4, <2>5
<1>6. CASE p \in DayParameters
  <2>1. /\ p \notin TagParameters /\ p \notin MemberParameters /\ p # "min_confidence"
        /\ c.kind = "au_plus_le_defaut"
    BY <1>6, SensesAssumption DEF TagParameters, MemberParameters, DayParameters
  <2>2. held[p] = res[p] /\ raw = res[p] /\ dflt = Defaults[p]
    BY <1>2, <2>1
  <2>3. ~(held[p] <= Defaults[p])
    BY <1>6, <2>1 DEF Holds, held, IsOrdinal, Ordinal
  <2>4. res[p] \in Int /\ Defaults[p] \in Int
    BY <1>1, <1>6, DefaultsAreAProfile DEF Profile, DaysOf
  <2>5. Defaults[p] + 1 \in S
    BY <1>6, <2>1 DEF TellsApart, DayParameters
  <2>6. /\ Found(p, dflt, S) = {s \in S : Older(s, dflt)}
        /\ Found(p, raw, S) = {s \in S : Older(s, raw)}
    BY <1>6, FoundIs
  <2>7. Older(Defaults[p] + 1, dflt) /\ ~Older(Defaults[p] + 1, raw)
    BY <2>2, <2>3, <2>4 DEF Older
  <2> QED
    BY <2>5, <2>6, <2>7
<1>7. CASE p = "min_confidence"
  <2>1. /\ p \notin TagParameters /\ p \notin MemberParameters /\ p \notin DayParameters
        /\ c.kind = "au_plus_le_defaut"
    BY <1>7, SensesAssumption DEF TagParameters, MemberParameters, DayParameters
  <2>2. held[p] = res[p] /\ raw = res[p] /\ dflt = "heuristic" /\ Defaults[p] = "heuristic"
    BY <1>2, <1>7, <2>1, DefaultsAreAProfile
  <2>3. res[p] \in DOMAIN LevelRank /\ "heuristic" \in DOMAIN LevelRank /\ Modern("heuristic") = "heuristic"
    BY <1>7, ResolvedLevel, LevelsOfConfidence DEF Modern, Given, LegacyConfidence
  <2>4. /\ LevelRank[res[p]] = RankOfConfidence(res[p]) /\ LevelRank[res[p]] \in 0 .. 2
        /\ LevelRank["heuristic"] = 0 /\ RankOfConfidence("heuristic") = 0
    BY <2>3, LevelsOfConfidence
  <2>5. IsOrdinal(held, p) /\ Ordinal(held, p) = LevelRank[res[p]] /\ Ordinal(Defaults, p) = 0
    BY <1>7, <2>2, <2>4 DEF IsOrdinal, Ordinal
  <2>6. LevelRank[res[p]] > 0
    <3>1. ~(Ordinal(held, p) <= Ordinal(Defaults, p))
      BY <2>1, <2>5 DEF Holds, held
    <3> QED
      BY <2>4, <2>5, <3>1
  <2>7. AsSureAs("heuristic", dflt) /\ ~AsSureAs("heuristic", raw)
    BY <2>2, <2>3, <2>4, <2>6 DEF AsSureAs, Given
  <2>8. "heuristic" \in S
    BY <1>7, <2>1, <2>2 DEF TellsApart
  <2>9. /\ Found(p, dflt, S) = {s \in S : AsSureAs(s, dflt)}
        /\ Found(p, raw, S) = {s \in S : AsSureAs(s, raw)}
    BY <1>7, FoundIs
  <2> QED
    BY <2>7, <2>8, <2>9
<1> QED
  BY <1>1, <1>3, <1>4, <1>5, <1>6, <1>7 DEF Parameters, MemberParameters
=============================================================================

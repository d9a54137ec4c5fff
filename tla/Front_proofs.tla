----------------------------- MODULE Front_proofs -----------------------------
(***************************************************************************)
(* What is proved of the front half of a scan, for every policy, source    *)
(* and replay that FrontAssumption admits.                                 *)
(***************************************************************************)
EXTENDS Front, Settings_proofs, Plan_proofs

\* What was read was read whole, and holds no sovereignty but those of an export.
IsRead(doc, invocation) ==
    /\ IsDocument(doc)
    /\ IF invocation.mode = "export" THEN doc = invocation.source ELSE Sovereigns(doc.resources) = {}

\* A document that can be evaluated: it has an instant, a configuration and, when the
\* provider declares one and there is a list to hold it, a sovereignty.
IsComplete(doc) ==
    /\ IsDocument(doc)
    /\ doc.evaluated_at # {} /\ doc.config # {}
    /\ Souverainete.declared /\ doc.kind = "array" => Sovereigns(doc.resources) # {}

AtMostOneAdded(doc, invocation) ==
    \/ \E n : Sovereigns(doc.resources) \subseteq {n}
    \/ invocation.mode = "export" /\ doc.resources = invocation.source.resources

\* The first scan is one of the invocations; the second one replays what was sealed.
RunInv ==
    \/ sealed = {} /\ run \in Invocations
    \/ \E s : /\ sealed = {s}
              /\ run.mode = "export" /\ run.source = s.input /\ run.flags \in Replays
              /\ IsComplete(s.input)
              /\ s.relaxed = Relaxations(ResolvedConfigOf(s.input.config))

FrontInv ==
    /\ phase \in {"start", "configured", "loaded", "augmented", "ready", "refused"}
    /\ Profile(resolved)
    /\ relaxed \in [DOMAIN Constraints -> SUBSET Parameters]
    /\ RunInv
    /\ phase = "loaded" => IsRead(input, run)
    /\ phase \in {"augmented", "ready"} =>
        /\ IsComplete(input) /\ AtMostOneAdded(input, run)
        /\ sealed # {} => input = run.source
    /\ phase = "ready" =>
        resolved = ResolvedConfigOf(input.config) /\ relaxed = Relaxations(resolved)

-----------------------------------------------------------------------------

\* What is relaxed is a set of parameters for each constrained control.
LEMMA RelaxationsType == ASSUME NEW res PROVE Relaxations(res) \in [DOMAIN Constraints -> SUBSET Parameters]
<1>1. \A control \in DOMAIN Constraints :
        {c.parameter : c \in {c \in Constraints[control] : ~Holds(res, c)}} \subseteq Parameters
  BY ConstraintsAssumption
<1> QED
  BY <1>1 DEF Relaxations

\* What is resolved of the configuration of a document is a profile.
LEMMA ResolvedIsAProfile ==
    ASSUME NEW doc, IsDocument(doc) PROVE Profile(ResolvedConfigOf(doc.config))
<1>1. CASE doc.config = {}
  BY <1>1, DefaultsAreAProfile DEF ResolvedConfigOf
<1>2. CASE doc.config # {}
  <2> DEFINE c == CHOOSE c \in doc.config : TRUE
  <2>1. c \in doc.config
    BY <1>2
  <2>2. DaysOf(c.fields)
    BY <2>1 DEF IsDocument
  <2>3. ResolvedConfigOf(doc.config) = Decode(c.fields)
    BY <1>2 DEF ResolvedConfigOf
  <2> QED
    BY <2>2, <2>3, DecodedIsAProfile
<1> QED
  BY <1>1, <1>2

\* The sovereignty is added at most once, and a document that has one keeps it.
LEMMA GovernanceOnce ==
    ASSUME NEW doc, NEW region, IsDocument(doc)
    PROVE  LET out == WithGovernance(doc, region) IN
           /\ IsDocument(out)
           /\ out = [doc EXCEPT !.resources = out.resources]
           /\ Souverainete.declared /\ out.kind = "array" => Sovereigns(out.resources) # {}
           /\ Sovereigns(doc.resources) = {} => \E n : Sovereigns(out.resources) \subseteq {n}
           /\ Sovereigns(doc.resources) # {} => out = doc
           /\ ~(Souverainete.declared /\ doc.kind = "array") => out = doc
           /\ out = doc \/ /\ Sovereigns(doc.resources) = {}
                           /\ out.resources = Append(doc.resources, GovernanceResourceIn(region))
<1> DEFINE out == WithGovernance(doc, region)
           g == GovernanceResourceIn(region)
           rs == doc.resources
           more == Append(rs, g)
<1>1. doc = [shape |-> doc.shape, provider |-> doc.provider, kind |-> doc.kind,
             resources |-> doc.resources, unmapped |-> doc.unmapped,
             evaluated_at |-> doc.evaluated_at, config |-> doc.config]
  BY DEF IsDocument
<1>2. CASE Souverainete.declared /\ doc.kind = "array" /\ Sovereigns(rs) = {}
  <2>1. out = [doc EXCEPT !.resources = more]
    BY <1>2 DEF WithGovernance, HasGovernanceResource
  <2>2. out = [shape |-> doc.shape, provider |-> doc.provider, kind |-> doc.kind,
               resources |-> more, unmapped |-> doc.unmapped,
               evaluated_at |-> doc.evaluated_at, config |-> doc.config]
    BY <1>1, <2>1
  <2>3. g.type = "governance_provider"
    BY DEF GovernanceResourceIn
  <2> HIDE DEF g
  <2>4. rs \in Seq(ToSet(rs))
    BY DEF IsDocument, IsSequence
  <2>5. /\ Len(rs) \in Nat /\ DOMAIN rs = 1 .. Len(rs)
        /\ \A i \in DOMAIN rs : rs[i] \in ToSet(rs)
    BY <2>4
  <2>6. /\ DOMAIN more = 1 .. Len(rs) + 1
        /\ more[Len(rs) + 1] = g
        /\ \A i \in 1 .. Len(rs) : more[i] = rs[i]
    <3>1. rs \in Seq(ToSet(rs) \cup {g})
      BY <2>4
    <3> QED
      BY <2>5, <3>1
  <2>7. Sovereigns(more) = {Len(rs) + 1}
    <3>1. Len(rs) + 1 \in Sovereigns(more)
      BY <2>3, <2>5, <2>6 DEF Sovereigns
    <3>2. ASSUME NEW i \in Sovereigns(more) PROVE i = Len(rs) + 1
      <4>1. i \in 1 .. Len(rs) + 1 /\ more[i].type = "governance_provider"
        BY <2>6 DEF Sovereigns
      <4>2. ASSUME i \in 1 .. Len(rs) PROVE FALSE
        <5>1. i \in DOMAIN rs /\ rs[i].type = "governance_provider"
          BY <2>5, <2>6, <4>1, <4>2
        <5> QED
          BY <1>2, <5>1 DEF Sovereigns
      <4> QED
        BY <2>5, <4>1, <4>2
    <3> QED
      BY <3>1, <3>2
  <2>8. IsSequence(more)
    <3>1. rs \in Seq(ToSet(rs) \cup {g})
      BY <2>4
    <3>2. more \in Seq(ToSet(rs) \cup {g})
      BY <3>1
    <3> HIDE DEF more
    <3> QED
      BY <3>2, SequenceOfItself
  <2> HIDE DEF more, out
  <2>9. IsDocument(out)
    BY <2>2, <2>8 DEF IsDocument
  <2>10. out = [doc EXCEPT !.resources = out.resources]
    BY <1>1, <2>2
  <2>11. out.resources = more /\ out.kind = doc.kind
    BY <2>2
  <2>12. Sovereigns(out.resources) # {} /\ \E n : Sovereigns(out.resources) \subseteq {n}
    BY <2>7, <2>11
  <2>13. out.resources = Append(rs, g)
    BY <2>11 DEF more
  <2> HIDE DEF g, rs
  <2> QED
    BY <1>2, <2>9, <2>10, <2>12, <2>13 DEF out, g, rs
<1>3. CASE ~(Souverainete.declared /\ doc.kind = "array" /\ Sovereigns(rs) = {})
  <2>1. out = doc
    BY <1>3 DEF WithGovernance, HasGovernanceResource
  <2>2. doc = [doc EXCEPT !.resources = doc.resources]
    BY <1>1
  <2>3. Sovereigns(rs) = {} => \E n : Sovereigns(rs) \subseteq {n}
    OBVIOUS
  <2> HIDE DEF out
  <2> QED
    BY <1>3, <2>1, <2>2, <2>3 DEF out
<1> QED
  BY <1>2, <1>3

\* The instant and the configuration are added when they are absent, and never replaced.
LEMMA ContextOnce ==
    ASSUME NEW doc, NEW instant, NEW res, IsDocument(doc), Profile(res)
    PROVE  LET out == WithContext(doc, instant, res) IN
           /\ IsDocument(out)
           /\ out.resources = doc.resources /\ out.kind = doc.kind
           /\ out.evaluated_at # {} /\ out.config # {}
           /\ doc.config # {} => out.config = doc.config
           /\ doc.evaluated_at # {} /\ doc.config # {} => out = doc
<1> DEFINE out == WithContext(doc, instant, res)
           at == IF doc.evaluated_at = {} THEN {instant} ELSE doc.evaluated_at
           cfg == IF doc.config = {} THEN {Sealed(res)} ELSE doc.config
<1>1. doc = [shape |-> doc.shape, provider |-> doc.provider, kind |-> doc.kind,
             resources |-> doc.resources, unmapped |-> doc.unmapped,
             evaluated_at |-> doc.evaluated_at, config |-> doc.config]
  BY DEF IsDocument
<1>2. out = [shape |-> doc.shape, provider |-> doc.provider, kind |-> doc.kind,
             resources |-> doc.resources, unmapped |-> doc.unmapped,
             evaluated_at |-> at, config |-> cfg]
  <2>1. out = [doc EXCEPT !.evaluated_at = at, !.config = cfg]
    BY <1>1 DEF WithContext
  <2> HIDE DEF out, at, cfg
  <2> QED
    BY <1>1, <2>1
<1>3. /\ Sealed(res) = [shape |-> Sealed(res).shape, fields |-> Sealed(res).fields]
      /\ DaysOf(Sealed(res).fields)
  <2>1. Sealed(res) = [shape |-> Sealed(res).shape, fields |-> Sealed(res).fields]
    BY DEF Sealed
  <2>2. \A p \in DayParameters : p \in DOMAIN Sealed(res).fields => Sealed(res).fields[p] = res[p]
    BY DEF Sealed, DayParameters, TagParameters
  <2>3. \A p \in DayParameters : p \in Parameters
    BY DEF Parameters
  <2> QED
    BY <2>1, <2>2, <2>3 DEF Profile, DaysOf
<1>4. AtMostOne(at) /\ AtMostOne(cfg) /\ at # {} /\ cfg # {}
  BY DEF IsDocument, AtMostOne
<1>5. \A c \in cfg : c = [shape |-> c.shape, fields |-> c.fields] /\ DaysOf(c.fields)
  BY <1>3 DEF IsDocument
<1>6. IsDocument(out)
  <2> HIDE DEF out, at, cfg
  <2> QED
    BY <1>2, <1>4, <1>5 DEF IsDocument
<1> QED
  BY <1>1, <1>2, <1>4, <1>6

-----------------------------------------------------------------------------
(* The invariant.                                                          *)

\* What is read of the APIs or of a plan is a document.
LEMMA DocumentIsDocument ==
    ASSUME NEW resources, NEW unmapped, IsSequence(resources)
    PROVE  LET doc == Document(resources, unmapped) IN
           IsDocument(doc) /\ doc.resources = resources /\ doc.config = {}
  BY DEF Document, IsDocument, AtMostOne

\* The resources of a live scan are of the type of its items, or buckets, and carry the
\* region of its credentials.
LEMMA LiveResources ==
    ASSUME NEW source, IsLive(source), NEW c
    PROVE  LET rs == MapItems(Provider, LiveSpec, source.items, c[RegionKey], "api")
                        \o CollectBuckets(Provider, c["region"], source.s3, source.buckets)
           IN  /\ IsSequence(rs)
               /\ \A r \in ToSet(rs) : /\ r.type # "governance_provider"
                                      /\ r.region \in {c[RegionKey], c["region"]}
<1> DEFINE items == MapItems(Provider, LiveSpec, source.items, c[RegionKey], "api")
           buckets == CollectBuckets(Provider, c["region"], source.s3, source.buckets)
<1>1. /\ DOMAIN items = DOMAIN source.items
      /\ items = [i \in DOMAIN items |-> items[i]]
      /\ \A i \in DOMAIN items : items[i].type = LiveSpec.type /\ items[i].region = c[RegionKey]
  BY DEF MapItems
<1>2. /\ DOMAIN buckets = DOMAIN source.buckets
      /\ buckets = [i \in DOMAIN buckets |-> buckets[i]]
      /\ \A i \in DOMAIN buckets : buckets[i].type = Bucket /\ buckets[i].region = c["region"]
  BY DEF CollectBuckets, CollectBucket
<1> HIDE DEF items, buckets
<1>3. IsSequence(source.items) /\ IsSequence(source.buckets)
  BY DEF IsLive
<1>4. IsSequence(items) /\ IsSequence(buckets)
  BY <1>1, <1>2, <1>3, SameDomain
<1>5. IsSequence(items \o buckets) /\ ToSet(items \o buckets) \subseteq ToSet(items) \cup ToSet(buckets)
  BY <1>4, ConcatIsSequence
<1>6. LiveSpec.type # "governance_provider" /\ Bucket # "governance_provider"
  BY DescriptorAssumption DEF Bucket
<1>7. ASSUME NEW r \in ToSet(items) \cup ToSet(buckets)
      PROVE  r.type # "governance_provider" /\ r.region \in {c[RegionKey], c["region"]}
  BY <1>1, <1>2, <1>6 DEF ToSet
<1> QED
  BY <1>5, <1>7 DEF items, buckets

\* A collection reads a document without a sovereignty.
LEMMA LiveIsRead ==
    ASSUME NEW source, IsLive(source), NEW region, NEW doc \in LoadInput("live", source, region)
    PROVE  /\ IsDocument(doc) /\ Sovereigns(doc.resources) = {}
           /\ \E c \in ResolveCreds(source, region) :
                doc.resources = MapItems(Provider, LiveSpec, source.items, c[RegionKey], "api")
                                  \o CollectBuckets(Provider, c["region"], source.s3, source.buckets)
<1> DEFINE Of(c) == MapItems(Provider, LiveSpec, source.items, c[RegionKey], "api")
                        \o CollectBuckets(Provider, c["region"], source.s3, source.buckets)
<1>1. PICK c \in ResolveCreds(source, region) : doc = Document(Of(c), NoneUnmapped)
  BY DEF LoadInput
<1>2. /\ IsSequence(Of(c))
      /\ \A r \in ToSet(Of(c)) : r.type # "governance_provider"
  BY LiveResources
<1> HIDE DEF Of
<1>3. IsDocument(doc) /\ doc.resources = Of(c)
  BY <1>1, <1>2, DocumentIsDocument
<1>4. Sovereigns(doc.resources) = {}
  BY <1>2, <1>3 DEF Sovereigns, ToSet
<1> QED
  BY <1>3, <1>4 DEF Of

\* What is made of an item is of the type of its specification.
LEMMA TypeOfMade ==
    ASSUME NEW m, NEW spec, NEW res, MadeOf(Provider, m, spec, res), NEW ids
    PROVE  /\ m.address = res.address /\ m.spec = spec /\ m.injected = Injected(spec, res)
           /\ ResoudreVersLIdentite(m, ids).type = spec.type
           /\ ResoudreVersLIdentite(m, ids).source = res.origin
<1>1. PICK i \in DOMAIN ItemsOf(spec, res) : m = Make(Provider, spec, res, ItemsOf(spec, res)[i])
  BY DEF MadeOf
<1> DEFINE item == ItemsOf(spec, res)[i]
           r == m.resource
<1>2. /\ m.address = res.address /\ m.spec = spec /\ m.injected = Injected(spec, res)
      /\ r.type = spec.type /\ r.source = res.origin
      /\ r = [provider |-> r.provider, type |-> r.type, id |-> r.id, name |-> r.name,
              region |-> r.region, attrs |-> r.attrs, prov |-> r.prov, source |-> r.source]
  BY <1>1 DEF Make
<1> HIDE DEF r
<1>3. ResoudreVersLIdentite(m, ids).type = r.type /\ ResoudreVersLIdentite(m, ids).source = r.source
  BY <1>2 DEF ResoudreVersLIdentite, r
<1> QED
  BY <1>2, <1>3

MadeBy(source) == AllMade(Provider, Specs, ParsePlan(source))
Resolved(made, m) == ResoudreVersLIdentite(m, IdParAdresse(made))

\* The resources of a plan are those that are made of it, resolved.
LEMMA PlanResources ==
    ASSUME NEW source, IsPlan(source), NEW region, NEW doc \in LoadInput("plan", source, region)
    PROVE  /\ IsDocument(doc) /\ IsSequence(MadeBy(source))
           /\ \A m \in ToSet(MadeBy(source)) :
                \E res \in ToSet(ParsePlan(source)), spec \in ToSet(Specs) : MadeOf(Provider, m, spec, res)
           /\ DOMAIN doc.resources = DOMAIN MadeBy(source)
           /\ \A i \in DOMAIN doc.resources : doc.resources[i] = Resolved(MadeBy(source), MadeBy(source)[i])
           /\ \A r \in ToSet(doc.resources) :
                \E m \in ToSet(MadeBy(source)) : r = Resolved(MadeBy(source), m)
<1> DEFINE planned == ParsePlan(source)
           made == MadeBy(source)
           inv == Apply(Provider, Specs, planned)
           out == inv.resources
<1>1. doc = Document(out, inv.unmapped)
  BY DEF LoadInput
<1>2. /\ IsSequence(planned) /\ IsSequence(Specs)
      /\ \A r \in ToSet(planned) : \A f \in DOMAIN r.blocks : IsSequence(r.blocks[f])
  BY PlannedIs, PlannedOnce, DescriptorAssumption
<1>3. made = AllMade(Provider, Specs, planned)
  BY DEF MadeBy
<1> HIDE DEF planned, made
<1>4. /\ IsSequence(made)
      /\ \A m \in ToSet(made) :
            \E res \in ToSet(planned), spec \in ToSet(Specs) : MadeOf(Provider, m, spec, res)
  BY <1>2, <1>3, MadeIs
<1>5. /\ IsSequence(out) /\ DOMAIN out = DOMAIN made
      /\ \A i \in DOMAIN out : out[i] = Resolved(made, made[i])
  BY <1>3, <1>4, AppliedIs DEF Resolved
<1>6. IsDocument(doc) /\ doc.resources = out
  BY <1>1, <1>5, DocumentIsDocument
<1> HIDE DEF out
<1>7. \A r \in ToSet(out) : \E m \in ToSet(made) : r = Resolved(made, m)
  BY <1>5 DEF ToSet
<1> QED
  BY <1>4, <1>5, <1>6, <1>7 DEF planned, made, out

\* The mapping of a plan is a document without a sovereignty.
LEMMA PlanIsRead ==
    ASSUME NEW source, IsPlan(source), NEW region, NEW doc \in LoadInput("plan", source, region)
    PROVE  IsDocument(doc) /\ Sovereigns(doc.resources) = {}
<1>1. ASSUME NEW r \in ToSet(doc.resources) PROVE r.type # "governance_provider"
  <2>1. PICK m \in ToSet(MadeBy(source)) : r = Resolved(MadeBy(source), m)
    BY PlanResources
  <2>2. PICK res \in ToSet(ParsePlan(source)), spec \in ToSet(Specs) : MadeOf(Provider, m, spec, res)
    BY PlanResources
  <2>3. r.type = spec.type
    BY <2>1, <2>2, TypeOfMade DEF Resolved
  <2> QED
    BY <2>3, DescriptorAssumption
<1>2. IsDocument(doc)
  BY PlanResources
<1> QED
  BY <1>1, <1>2 DEF Sovereigns, ToSet

\* What a scan reads, whatever its mode: the whole document, of which it is the author
\* unless it is an export.
LEMMA LoadedIsRead ==
    ASSUME RunInv, NEW doc \in LoadInput(run.mode, run.source, run.flags.region)
    PROVE  IsRead(doc, run)
<1>1. ASSUME run.mode = "live", IsLive(run.source) PROVE IsRead(doc, run)
  BY <1>1, LiveIsRead DEF IsRead
<1>2. ASSUME run.mode = "plan", IsPlan(run.source) PROVE IsRead(doc, run)
  BY <1>2, PlanIsRead DEF IsRead
<1>3. ASSUME run.mode = "export", IsDocument(run.source) PROVE IsRead(doc, run)
  BY <1>3 DEF IsRead, LoadInput
<1>4. CASE sealed = {} /\ run \in Invocations
  BY <1>1, <1>2, <1>3, <1>4, FrontAssumption
<1>5. CASE run.mode = "export" /\ IsDocument(run.source)
  BY <1>3, <1>5
<1> QED
  BY <1>4, <1>5 DEF RunInv, IsComplete

\* The initial states.
LEMMA InitInv == Init => FrontInv
<1> SUFFICES ASSUME Init PROVE FrontInv
  OBVIOUS
<1>1. Profile(resolved)
  BY DefaultsAreAProfile DEF Init
<1>2. relaxed \in [DOMAIN Constraints -> SUBSET Parameters]
  BY DEF Init, NoneRelaxed
<1> QED
  BY <1>1, <1>2 DEF Init, FrontInv, RunInv

\* The flags of a run, a first scan or a replay, are flags.
LEMMA FlagsOfTheRun == RunInv => IsFlags(run.flags)
  BY FrontAssumption DEF RunInv

\* Step LoadPolicy.
LEMMA LoadPolicyInv == FrontInv /\ LoadPolicy => FrontInv'
<1> SUFFICES ASSUME FrontInv, LoadPolicy PROVE FrontInv'
  OBVIOUS
<1> DEFINE given == run.flags.policy
           file == CHOOSE f \in given : TRUE
           controls == IF file.controls = {} THEN NoControls ELSE CHOOSE c \in file.controls : TRUE
<1>1. UNCHANGED <<run, input, relaxed, sealed>> /\ phase' \in {"configured", "refused"}
  BY DEF LoadPolicy, Refuse
<1>2. Profile(resolved')
  <2>1. CASE resolved' \in {resolved, Defaults}
    BY <2>1, DefaultsAreAProfile DEF FrontInv
  <2>2. CASE given # {} /\ resolved' \in Resolutions(controls)
    <3>1. file \in given /\ IsFlags(run.flags)
      BY <2>2, FlagsOfTheRun DEF FrontInv
    <3>2. DaysOf(controls)
      <4>1. CASE file.controls = {}
        BY <4>1 DEF NoControls, DaysOf
      <4>2. CASE file.controls # {}
        BY <3>1, <4>2 DEF IsFlags
      <4> QED
        BY <4>1, <4>2
    <3> HIDE DEF controls
    <3> QED
      BY <2>2, <3>2, ResolutionsAreProfiles
  <2>3. \/ resolved' \in {resolved, Defaults}
        \/ given # {} /\ resolved' \in Resolutions(controls)
    BY DEF LoadPolicy, Refuse
  <2> QED
    BY <2>1, <2>2, <2>3
<1> QED
  BY <1>1, <1>2 DEF FrontInv, RunInv

\* Step ReadInput.
LEMMA ReadInputInv == FrontInv /\ ReadInput => FrontInv'
<1> SUFFICES ASSUME FrontInv, ReadInput PROVE FrontInv'
  OBVIOUS
<1>1. CASE Refuse
  BY <1>1 DEF FrontInv, RunInv, Refuse
<1>2. CASE /\ phase' = "loaded"
           /\ input' \in LoadInput(run.mode, run.source, run.flags.region)
           /\ UNCHANGED <<run, resolved, relaxed, sealed>>
  <2>1. IsRead(input', run)
    BY <1>2, LoadedIsRead DEF FrontInv
  <2>2. IsRead(input, run)'
    BY <1>2, <2>1
  <2> QED
    BY <1>2, <2>2 DEF FrontInv, RunInv
<1> QED
  BY <1>1, <1>2 DEF ReadInput

\* Step Augment.
LEMMA AugmentInv == FrontInv /\ Augment => FrontInv'
<1> SUFFICES ASSUME FrontInv, Augment PROVE FrontInv'
  OBVIOUS
<1> DEFINE with == WithGovernance(input, run.flags.region)
           out == WithContext(with, run.flags.instant, resolved)
<1>1. /\ phase' = "augmented" /\ input' = out
      /\ UNCHANGED <<run, resolved, relaxed, sealed>>
      /\ IsDocument(input) /\ IsRead(input, run) /\ Profile(resolved) /\ RunInv
  BY DEF Augment, FrontInv, IsRead
<1>2. /\ IsDocument(with)
      /\ Souverainete.declared /\ with.kind = "array" => Sovereigns(with.resources) # {}
      /\ Sovereigns(input.resources) = {} => \E n : Sovereigns(with.resources) \subseteq {n}
      /\ Sovereigns(input.resources) # {} => with = input
      /\ ~(Souverainete.declared /\ input.kind = "array") => with = input
  BY <1>1, GovernanceOnce
<1> HIDE DEF with
<1>3. /\ IsDocument(out)
      /\ out.resources = with.resources /\ out.kind = with.kind
      /\ out.evaluated_at # {} /\ out.config # {}
      /\ with.evaluated_at # {} /\ with.config # {} => out = with
  BY <1>1, <1>2, ContextOnce
<1> HIDE DEF out
<1>4. IsComplete(out)
  BY <1>2, <1>3 DEF IsComplete
<1>5. AtMostOneAdded(out, run)
  BY <1>1, <1>2, <1>3 DEF AtMostOneAdded, IsRead
<1>6. sealed # {} => out = run.source
  <2> SUFFICES ASSUME sealed # {} PROVE out = run.source
    OBVIOUS
  <2>1. input = run.source /\ IsComplete(input)
    BY <1>1 DEF IsRead, RunInv
  <2>2. with = input
    BY <1>2, <2>1 DEF IsComplete
  <2> QED
    BY <1>3, <2>1, <2>2 DEF IsComplete
<1>7. (IsComplete(input) /\ AtMostOneAdded(input, run))'
  BY <1>1, <1>4, <1>5
<1> QED
  BY <1>1, <1>6, <1>7 DEF FrontInv, RunInv

\* Step Settle.
LEMMA SettleInv == FrontInv /\ Settle => FrontInv'
<1> SUFFICES ASSUME FrontInv, Settle PROVE FrontInv'
  OBVIOUS
<1>1. CASE Refuse
  BY <1>1 DEF FrontInv, RunInv, Refuse
<1>2. CASE ~Refuse
  <2>1. /\ phase = "augmented" /\ phase' = "ready"
        /\ resolved' = ResolvedConfigOf(input.config)
        /\ relaxed' = Relaxations(resolved')
        /\ UNCHANGED <<run, input, sealed>>
    BY <1>2 DEF Settle
  <2>2. IsComplete(input)
    BY <2>1 DEF FrontInv
  <2>3. Profile(ResolvedConfigOf(input.config))
    BY <2>2, ResolvedIsAProfile DEF IsComplete
  <2>4. relaxed' \in [DOMAIN Constraints -> SUBSET Parameters]
    BY <2>1, RelaxationsType
  <2>5. (IsComplete(input) /\ AtMostOneAdded(input, run) /\ RunInv)'
    BY <2>1 DEF FrontInv, RunInv
  <2>6. Profile(resolved)' /\ (relaxed = Relaxations(resolved))' /\ (resolved = ResolvedConfigOf(input.config))'
    BY <2>1, <2>3 DEF Profile, DaysOf
  <2> QED
    BY <2>1, <2>4, <2>5, <2>6 DEF FrontInv
<1> QED
  BY <1>1, <1>2

\* Step Replay.
LEMMA ReplayInv == FrontInv /\ Replay => FrontInv'
<1> SUFFICES ASSUME FrontInv, Replay PROVE FrontInv'
  OBVIOUS
<1> DEFINE s == [input |-> input, relaxed |-> relaxed]
<1>1. /\ phase = "ready" /\ phase' = "start" /\ sealed' = {s}
      /\ resolved' = Defaults /\ relaxed' = NoneRelaxed
  BY DEF Replay
<1>2. PICK flags \in Replays : run' = [mode |-> "export", flags |-> flags, source |-> input]
  BY DEF Replay
<1>3. run'.mode = "export" /\ run'.source = s.input /\ run'.flags \in Replays
  BY <1>2
<1>4. IsComplete(s.input) /\ s.relaxed = Relaxations(ResolvedConfigOf(s.input.config))
  BY <1>1 DEF FrontInv
<1>5. RunInv'
  <2> HIDE DEF s
  <2>1. \E x : /\ sealed' = {x}
               /\ run'.mode = "export" /\ run'.source = x.input /\ run'.flags \in Replays
               /\ IsComplete(x.input)
               /\ x.relaxed = Relaxations(ResolvedConfigOf(x.input.config))
    BY <1>1, <1>3, <1>4
  <2> QED
    BY <2>1 DEF RunInv
<1>6. Profile(resolved)'
  BY <1>1, DefaultsAreAProfile DEF Profile, DaysOf
<1>7. relaxed' \in [DOMAIN Constraints -> SUBSET Parameters]
  BY <1>1 DEF NoneRelaxed
<1> QED
  BY <1>1, <1>5, <1>6, <1>7 DEF FrontInv

\* FrontInv is inductive.
LEMMA SpecInv == Spec => []FrontInv
<1>1. FrontInv /\ UNCHANGED vars => FrontInv'
  <2> SUFFICES ASSUME FrontInv, UNCHANGED vars PROVE FrontInv'
    OBVIOUS
  <2>1. UNCHANGED <<phase, run, resolved, input, relaxed, sealed>>
    BY DEF vars
  <2> QED
    BY <2>1 DEF FrontInv, RunInv
<1>2. FrontInv /\ [Next]_vars => FrontInv'
  BY <1>1, LoadPolicyInv, ReadInputInv, AugmentInv, SettleInv, ReplayInv DEF Next
<1> QED
  BY <1>2, InitInv, PTL DEF Spec

-----------------------------------------------------------------------------
(* The theorems.                                                           *)

\* A document that was evaluated is evaluated again as it was (cmd/scan.go:143-170).
THEOREM ReplayIsFaithful == Spec => []ReplayKeepsTheInput
<1>1. FrontInv => ReplayKeepsTheInput
  <2> SUFFICES ASSUME FrontInv, phase = "ready", NEW s \in sealed
               PROVE  s.input = input /\ s.relaxed = relaxed
    BY DEF ReplayKeepsTheInput, Ready
  <2>1. run.source = s.input /\ s.relaxed = Relaxations(ResolvedConfigOf(s.input.config))
    BY DEF FrontInv, RunInv
  <2>2. input = run.source /\ relaxed = Relaxations(ResolvedConfigOf(input.config))
    BY DEF FrontInv
  <2> QED
    BY <2>1, <2>2
<1> QED
  BY <1>1, SpecInv, PTL

\* A set of at most one member.
LEMMA SmallCardinality ==
    ASSUME NEW S PROVE /\ S = {} => Cardinality(S) <= 1
                       /\ (\E x : S = {x}) => Cardinality(S) = 1 /\ Cardinality(S) <= 1
<1>1. ASSUME NEW x, S = {x} PROVE Cardinality(S) = 1 /\ Cardinality(S) <= 1
  <2>1. Cardinality({x}) = 1
    BY FS_Singleton
  <2> QED
    BY <1>1, <2>1
<1>2. S = {} => Cardinality(S) <= 1
  <2>1. Cardinality({}) = 0
    BY FS_EmptySet
  <2> QED
    BY <2>1
<1> QED
  BY <1>1, <1>2

\* A set of one member.
LEMMA OnlyOne == ASSUME NEW S, AtMostOne(S), S # {} PROVE \E x : S = {x}
<1>1. PICK x : x \in S
  OBVIOUS
<1>2. S = {x}
  BY <1>1 DEF AtMostOne
<1> QED
  BY <1>2

\* The states of the scan are well formed, and every reader of a ready document finds one
\* instant, one configuration and at most the sovereignty that the export held or that the
\* scan added (cmd/scan.go:143-170).
THEOREM FrontTypesHold == Spec => []FrontTypeOK
<1>1. FrontInv => FrontTypeOK
  <2> SUFFICES ASSUME FrontInv PROVE FrontTypeOK
    OBVIOUS
  <2>1. DOMAIN resolved = Parameters
    BY DEF FrontInv, Profile
  <2>2. Cardinality(sealed) <= 1
    <3>1. sealed = {} \/ \E s : sealed = {s}
      BY DEF FrontInv, RunInv
    <3> QED
      BY <3>1, SmallCardinality
  <2>3. ASSUME phase = "ready"
        PROVE  Cardinality(input.evaluated_at) = 1 /\ Cardinality(input.config) = 1
    <3>1. IsComplete(input)
      BY <2>3 DEF FrontInv
    <3>2. (\E x : input.evaluated_at = {x}) /\ \E x : input.config = {x}
      BY <3>1, OnlyOne DEF IsComplete, IsDocument
    <3> QED
      BY <3>2, SmallCardinality
  <2>4. ASSUME phase = "ready"
        PROVE  \/ Cardinality(Sovereigns(input.resources)) <= 1
               \/ run.mode = "export" /\ input.resources = run.source.resources
    <3>1. AtMostOneAdded(input, run)
      BY <2>4 DEF FrontInv
    <3>2. ASSUME NEW n, Sovereigns(input.resources) \subseteq {n}
          PROVE  Cardinality(Sovereigns(input.resources)) <= 1
      <4>1. Sovereigns(input.resources) = {} \/ Sovereigns(input.resources) = {n}
        BY <3>2
      <4> QED
        BY <4>1, SmallCardinality
    <3> QED
      BY <3>1, <3>2 DEF AtMostOneAdded
  <2> QED
    BY <2>1, <2>2, <2>3, <2>4 DEF FrontInv, FrontTypeOK, Ready
<1> QED
  BY <1>1, SpecInv, PTL

\* Whatever the policy or the configuration that the document carries, a line that cites its
\* references is of a control that finds all that it finds by default, and the references
\* that are announced as lost are those that the lines lost (internal/policy/relaxation.go:152-180).
THEOREM ReferencesAreKept == Spec => []KeptReferencesHold
<1>1. FrontInv => KeptReferencesHold
  <2> SUFFICES ASSUME FrontInv, phase = "ready" PROVE KeptReferencesHold
    BY DEF KeptReferencesHold, Ready
  <2> DEFINE lines == [c \in DOMAIN ControlReferences |->
                        [control |-> c, references |-> ControlReferences[c], dropped |-> {}]]
             cited == WithRelaxations(lines, relaxed)
  <2>1. /\ IsComplete(input) /\ relaxed = Relaxations(ResolvedConfigOf(input.config))
        /\ DOMAIN relaxed = DOMAIN Constraints
    BY DEF FrontInv
  <2>2. PICK cfg : input.config = {cfg} /\ cfg = [shape |-> cfg.shape, fields |-> cfg.fields] /\ DaysOf(cfg.fields)
    BY <2>1, OnlyOne DEF IsComplete, IsDocument
  <2>3. ResolvedConfigOf(input.config) = Decode(cfg.fields)
    BY <2>2 DEF ResolvedConfigOf
  <2>4. /\ DOMAIN cited = DOMAIN ControlReferences
        /\ \A c \in DOMAIN cited :
             /\ cited[c].control = c
             /\ c \in Relaxed(relaxed) => cited[c].references = {} /\ cited[c].dropped = ControlReferences[c]
             /\ c \notin Relaxed(relaxed) => cited[c].dropped = {}
    BY DEF WithRelaxations
  <2> HIDE DEF cited
  <2>5. ASSUME NEW l \in Range(cited), l.references # {}, l.control \in DOMAIN Constraints,
               NEW c \in Constraints[l.control]
        PROVE  LET p == c.parameter IN
               Found(p, Read({Sealed(Defaults)}, p), Subjects[p])
                  \subseteq Found(p, Read(input.config, p), Subjects[p])
    <3>1. l.control \notin Relaxed(relaxed)
      BY <2>4, <2>5 DEF Range
    <3>2. relaxed[l.control] = {}
      BY <2>1, <2>5, <3>1 DEF Relaxed
    <3>3. Holds(Decode(cfg.fields), c)
      BY <2>1, <2>3, <2>5, <3>2 DEF Relaxations
    <3>4. c.parameter \in DayParameters => Subjects[c.parameter] \subseteq Int
      BY FrontAssumption
    <3> QED
      BY <2>2, <2>5, <3>3, <3>4, HeldConstraintFinds
  <2>6. UNION {l.dropped : l \in Range(cited)} = DroppedReferences(relaxed)
    <3>1. Relaxed(relaxed) \subseteq DOMAIN ControlReferences
      BY <2>1, SettingsAssumption DEF Relaxed
    <3>2. \A x : (\E l \in Range(cited) : x \in l.dropped) <=> \E c \in Relaxed(relaxed) : x \in ControlReferences[c]
      BY <2>4, <3>1 DEF Range
    <3> QED
      BY <3>2 DEF DroppedReferences
  <2> QED
    BY <2>5, <2>6 DEF KeptReferencesHold, cited
<1> QED
  BY <1>1, SpecInv, PTL

-----------------------------------------------------------------------------
(* What a first scan seals is a profile of its policy.                     *)

\* A profile that the policy of an invocation, once accepted, resolves to.
OfThePolicy(res, invocation) ==
    \E controls \in Sections(invocation.flags) :
        DaysOf(controls) /\ ControlsProblems(controls) = {} /\ res \in Resolutions(controls)

\* The document of a first scan that reads no export carries the profile of its policy.
PolicyInv ==
    sealed = {} /\ run.mode # "export" =>
        /\ phase \in {"configured", "loaded", "augmented"} => OfThePolicy(resolved, run)
        /\ phase = "loaded" => input.config = {}
        /\ phase = "augmented" => input.config = {Sealed(resolved)}
        /\ phase = "ready" => \E res : OfThePolicy(res, run) /\ input.config = {Sealed(res)}

\* What is read of the APIs or of a plan carries no configuration.
LEMMA ReadWithoutConfig ==
    ASSUME NEW mode \in {"live", "plan"}, NEW source, NEW region, NEW doc \in LoadInput(mode, source, region)
    PROVE  doc.config = {}
<1>1. PICK resources, unmapped : doc = Document(resources, unmapped)
  <2>1. CASE mode = "live"
    BY <2>1 DEF LoadInput
  <2>2. CASE mode = "plan"
    <3>1. doc \in {Document(inv.resources, inv.unmapped) : inv \in {Apply(Provider, Specs, ParsePlan(source))}}
      BY <2>2 DEF LoadInput
    <3> QED
      BY <3>1
  <2> QED
    BY <2>1, <2>2
<1> QED
  BY <1>1 DEF Document

\* A document that carries no configuration is given the profile that was resolved.
LEMMA ProfileIsSealed ==
    ASSUME NEW doc, NEW region, NEW instant, NEW res, IsDocument(doc), doc.config = {}
    PROVE  WithContext(WithGovernance(doc, region), instant, res).config = {Sealed(res)}
<1> DEFINE with == WithGovernance(doc, region)
<1>1. doc = [shape |-> doc.shape, provider |-> doc.provider, kind |-> doc.kind,
             resources |-> doc.resources, unmapped |-> doc.unmapped,
             evaluated_at |-> doc.evaluated_at, config |-> doc.config]
  BY DEF IsDocument
<1>2. with = doc \/ with = [doc EXCEPT !.resources = Append(doc.resources, GovernanceResourceIn(region))]
  BY DEF WithGovernance
<1> HIDE DEF with
<1>3. /\ with = [shape |-> with.shape, provider |-> with.provider, kind |-> with.kind,
                resources |-> with.resources, unmapped |-> with.unmapped,
                evaluated_at |-> with.evaluated_at, config |-> with.config]
      /\ with.config = {}
  BY <1>1, <1>2
<1> DEFINE seal == Sealed(res)
           at == IF with.evaluated_at = {} THEN {instant} ELSE with.evaluated_at
<1>4. WithContext(with, instant, res) = [with EXCEPT !.evaluated_at = at, !.config = {seal}]
  BY <1>3 DEF WithContext
<1> HIDE DEF seal, at
<1>5. [with EXCEPT !.evaluated_at = at, !.config = {seal}].config = {seal}
  BY <1>3
<1> QED
  BY <1>4, <1>5 DEF with, seal

\* The profile that an accepted policy resolves to.
LEMMA AcceptedPolicy ==
    ASSUME RunInv, sealed = {}, LoadPolicy, phase' = "configured" PROVE OfThePolicy(resolved', run)
<1> DEFINE given == run.flags.policy
           file == CHOOSE f \in given : TRUE
           controls == IF file.controls = {} THEN NoControls ELSE CHOOSE c \in file.controls : TRUE
<1>1. DaysOf(NoControls) /\ ControlsProblems(NoControls) = {} /\ NoControls \in Sections(run.flags)
  BY DEF DaysOf, NoControls, ControlsProblems, Sections
<1>2. phase' # "refused"
  OBVIOUS
<1>3. \/ resolved' = Defaults
      \/ given # {} /\ Load(file).ok /\ resolved' \in Resolutions(controls)
  BY <1>2 DEF LoadPolicy, Refuse
<1>4. ASSUME resolved' = Defaults PROVE OfThePolicy(resolved', run)
  BY <1>1, <1>4, DefaultsAreAProfile DEF OfThePolicy
<1>5. ASSUME given # {}, Load(file).ok, resolved' \in Resolutions(controls) PROVE OfThePolicy(resolved', run)
  <2>1. CASE file.controls = {}
    BY <1>1, <1>5, <2>1 DEF OfThePolicy
  <2>2. CASE file.controls # {}
    <3>1. file \in given /\ controls \in file.controls
      BY <1>5, <2>2
    <3> HIDE DEF file, controls
    <3>2. controls \in Sections(run.flags)
      BY <3>1 DEF Sections
    <3>3. DaysOf(controls)
      BY <3>1, FlagsOfTheRun DEF IsFlags
    <3>4. UNION {ControlsProblems(c) \X {"controls"} : c \in file.controls} = {}
      <4> DEFINE more == UNION {ControlsProblems(c) \X {"controls"} : c \in file.controls}
      <4>1. ExemptionProblems(file.exceptions) \cup more = {}
        BY <1>5 DEF Load
      <4> HIDE DEF more
      <4>2. more = {}
        BY <4>1
      <4> QED
        BY <4>2 DEF more
    <3>5. ControlsProblems(controls) = {}
      <4> SUFFICES ASSUME NEW f \in ControlsProblems(controls) PROVE FALSE
        OBVIOUS
      <4>1. <<f, "controls">> \in ControlsProblems(controls) \X {"controls"}
        OBVIOUS
      <4> QED
        BY <3>1, <3>4, <4>1
    <3> QED
      BY <1>5, <3>2, <3>3, <3>5 DEF OfThePolicy
  <2> QED
    BY <2>1, <2>2
<1> QED
  BY <1>3, <1>4, <1>5

\* PolicyInv is inductive, relatively to FrontInv.
LEMMA SpecPolicyInv == Spec => []PolicyInv
<1>1. Init => PolicyInv
  BY DEF Init, PolicyInv
<1>2. ASSUME FrontInv, PolicyInv, LoadPolicy PROVE PolicyInv'
  <2>1. UNCHANGED <<run, input, sealed>> /\ phase' \in {"configured", "refused"}
    BY <1>2 DEF LoadPolicy, Refuse
  <2>2. sealed = {} /\ phase' = "configured" => OfThePolicy(resolved', run)
    BY <1>2, AcceptedPolicy DEF FrontInv
  <2> QED
    BY <2>1, <2>2 DEF PolicyInv
<1>3. ASSUME FrontInv, PolicyInv, ReadInput PROVE PolicyInv'
  <2>1. CASE Refuse
    BY <2>1 DEF Refuse, PolicyInv
  <2>2. CASE /\ phase' = "loaded"
             /\ input' \in LoadInput(run.mode, run.source, run.flags.region)
             /\ UNCHANGED <<run, resolved, relaxed, sealed>>
    <3>1. phase = "configured"
      BY <1>3 DEF ReadInput
    <3>2. sealed = {} /\ run.mode # "export" => run.mode \in {"live", "plan"}
      BY <1>3, FrontAssumption DEF FrontInv, RunInv
    <3>3. sealed = {} /\ run.mode # "export" => input'.config = {}
      BY <2>2, <3>2, ReadWithoutConfig
    <3> QED
      BY <1>3, <2>2, <3>1, <3>3 DEF PolicyInv
  <2> QED
    BY <1>3, <2>1, <2>2 DEF ReadInput
<1>4. ASSUME FrontInv, PolicyInv, Augment PROVE PolicyInv'
  <2>1. /\ phase = "loaded" /\ phase' = "augmented" /\ UNCHANGED <<run, resolved, relaxed, sealed>>
        /\ input' = WithContext(WithGovernance(input, run.flags.region), run.flags.instant, resolved)
    BY <1>4 DEF Augment
  <2>2. IsDocument(input)
    BY <1>4, <2>1 DEF FrontInv, IsRead
  <2>3. sealed = {} /\ run.mode # "export" => input'.config = {Sealed(resolved)}
    BY <1>4, <2>1, <2>2, ProfileIsSealed DEF PolicyInv
  <2> QED
    BY <1>4, <2>1, <2>3 DEF PolicyInv
<1>5. ASSUME FrontInv, PolicyInv, Settle PROVE PolicyInv'
  <2>1. CASE Refuse
    BY <2>1 DEF Refuse, PolicyInv
  <2>2. CASE ~Refuse
    <3>1. phase = "augmented" /\ phase' = "ready" /\ UNCHANGED <<run, input, sealed>>
      BY <1>5, <2>2 DEF Settle
    <3> QED
      BY <1>5, <3>1 DEF PolicyInv
  <2> QED
    BY <2>1, <2>2
<1>6. ASSUME Replay PROVE PolicyInv'
  BY <1>6 DEF Replay, PolicyInv
<1>7. ASSUME PolicyInv, UNCHANGED vars PROVE PolicyInv'
  <2>1. UNCHANGED <<phase, run, resolved, input, relaxed, sealed>>
    BY <1>7 DEF vars
  <2> QED
    BY <1>7, <2>1 DEF PolicyInv
<1>8. FrontInv /\ PolicyInv /\ [Next]_vars => PolicyInv'
  BY <1>2, <1>3, <1>4, <1>5, <1>6, <1>7 DEF Next
<1> QED
  BY <1>1, <1>8, SpecInv, PTL DEF Spec

\* References are not lost for nothing: of a first scan, a parameter that is said to be
\* relaxed makes the rules miss something that they find by default, unless one of its
\* requirements can be met by no tag at all (referentiel/config.go:59-66).
THEOREM RelaxationsMiss == Spec => []RelaxationIsTrue
<1>1. FrontInv /\ PolicyInv => RelaxationIsTrue
  <2> SUFFICES ASSUME FrontInv, PolicyInv, phase = "ready", run.mode # "export",
                      NEW control \in DOMAIN Constraints, NEW p \in relaxed[control]
               PROVE  \/ p \in TagParameters /\ {} \in Range(Read(input.config, p))
                      \/ ~ Found(p, Read({Sealed(Defaults)}, p), Subjects[p])
                              \subseteq Found(p, Read(input.config, p), Subjects[p])
    BY DEF RelaxationIsTrue, Ready
  <2>1. sealed = {} /\ run \in Invocations
    BY DEF FrontInv, RunInv
  <2>2. PICK res : OfThePolicy(res, run) /\ input.config = {Sealed(res)}
    BY <2>1 DEF PolicyInv
  <2>3. PICK controls \in Sections(run.flags) :
            DaysOf(controls) /\ ControlsProblems(controls) = {} /\ res \in Resolutions(controls)
    BY <2>2 DEF OfThePolicy
  <2>4. relaxed = Relaxations(Decode(Sealed(res).fields))
    <3> DEFINE seal == Sealed(res)
    <3>1. relaxed = Relaxations(ResolvedConfigOf(input.config))
      BY DEF FrontInv
    <3>2. input.config = {seal}
      BY <2>2
    <3> HIDE DEF seal
    <3>3. ResolvedConfigOf({seal}) = Decode(seal.fields)
      BY DEF ResolvedConfigOf
    <3> QED
      BY <3>1, <3>2, <3>3 DEF seal
  <2>5. PICK c \in Constraints[control] : p = c.parameter /\ ~Holds(Decode(Sealed(res).fields), c)
    BY <2>4 DEF Relaxations
  <2>6. p \in Parameters
    BY <2>5, ConstraintsAssumption
  <2>7. TellsApart(Subjects[p], p, res)
    <3>1. controls \in UNION {Sections(i.flags) : i \in Invocations}
      BY <2>1
    <3> QED
      BY <2>3, <2>6, <3>1, SubjectsAssumption
  <2> QED
    BY <2>2, <2>3, <2>5, <2>7, BrokenConstraintMisses
<1> QED
  BY <1>1, SpecInv, SpecPolicyInv, PTL

-----------------------------------------------------------------------------
(* What is evaluated comes from what was read.                             *)

ReadInv ==
    /\ phase = "loaded" => input \in LoadInput(run.mode, run.source, run.flags.region)
    /\ phase \in {"augmented", "ready"} =>
        \E doc \in LoadInput(run.mode, run.source, run.flags.region) :
            /\ IsDocument(doc)
            /\ input.resources = WithGovernance(doc, run.flags.region).resources
            /\ input.unmapped = doc.unmapped

\* What is added to a document leaves what is not mapped as it is.
LEMMA UnmappedIsKept ==
    ASSUME NEW doc, NEW region, NEW instant, NEW res, IsDocument(doc)
    PROVE  WithGovernance(doc, region).unmapped = doc.unmapped /\ WithContext(doc, instant, res).unmapped = doc.unmapped
<1>1. doc = [shape |-> doc.shape, provider |-> doc.provider, kind |-> doc.kind,
             resources |-> doc.resources, unmapped |-> doc.unmapped,
             evaluated_at |-> doc.evaluated_at, config |-> doc.config]
  BY DEF IsDocument
<1>2. WithGovernance(doc, region).unmapped = doc.unmapped
  <2> DEFINE g == GovernanceResourceIn(region)
  <2>1. WithGovernance(doc, region) = doc \/ WithGovernance(doc, region) = [doc EXCEPT !.resources = Append(doc.resources, g)]
    BY DEF WithGovernance
  <2> HIDE DEF g
  <2>2. [doc EXCEPT !.resources = Append(doc.resources, g)].unmapped = doc.unmapped
    BY <1>1
  <2> QED
    BY <2>1, <2>2
<1>3. WithContext(doc, instant, res).unmapped = doc.unmapped
  <2> DEFINE at == IF doc.evaluated_at = {} THEN {instant} ELSE doc.evaluated_at
             cfg == IF doc.config = {} THEN {Sealed(res)} ELSE doc.config
             out == WithContext(doc, instant, res)
  <2>1. out = [doc EXCEPT !.evaluated_at = at, !.config = cfg]
    BY <1>1 DEF WithContext
  <2> HIDE DEF at, cfg, out
  <2>2. out.unmapped = doc.unmapped
    BY <1>1, <2>1
  <2> QED
    BY <2>2 DEF out
<1> QED
  BY <1>2, <1>3

\* ReadInv is inductive beside FrontInv.
LEMMA SpecReadInv == Spec => []ReadInv
<1>1. Init => ReadInv
  BY DEF Init, ReadInv
<1>2. FrontInv /\ ReadInv /\ [Next]_vars => ReadInv'
  <2> SUFFICES ASSUME FrontInv, ReadInv, [Next]_vars PROVE ReadInv'
    OBVIOUS
  <2>1. CASE LoadPolicy
    BY <2>1 DEF LoadPolicy, Refuse, ReadInv
  <2>2. CASE ReadInput
    BY <2>2 DEF ReadInput, Refuse, ReadInv
  <2>3. CASE Augment
    <3> DEFINE with == WithGovernance(input, run.flags.region)
    <3>1. /\ phase = "loaded" /\ phase' = "augmented" /\ UNCHANGED <<run, sealed>>
          /\ input' = WithContext(with, run.flags.instant, resolved)
      BY <2>3 DEF Augment
    <3>2. IsDocument(input) /\ Profile(resolved)
      BY <3>1 DEF FrontInv, IsRead
    <3>3. IsDocument(with)
      BY <3>2, GovernanceOnce
    <3>4. with.unmapped = input.unmapped
      BY <3>2, UnmappedIsKept
    <3> HIDE DEF with
    <3>5. input'.resources = with.resources
      BY <3>1, <3>2, <3>3, ContextOnce
    <3>6. input'.unmapped = with.unmapped
      BY <3>1, <3>3, UnmappedIsKept
    <3> QED
      BY <3>1, <3>2, <3>4, <3>5, <3>6 DEF ReadInv, with
  <2>4. CASE Settle
    BY <2>4 DEF Settle, Refuse, ReadInv
  <2>5. CASE Replay
    BY <2>5 DEF Replay, ReadInv
  <2>6. CASE UNCHANGED vars
    BY <2>6 DEF vars, ReadInv
  <2> QED
    BY <2>1, <2>2, <2>3, <2>4, <2>5, <2>6 DEF Next
<1> QED
  BY <1>1, <1>2, SpecInv, PTL DEF Spec

\* What is appended is added to the values of a sequence.
LEMMA AppendedIs ==
    ASSUME NEW s, NEW x, IsSequence(s) PROVE ToSet(Append(s, x)) = ToSet(s) \cup {x}
<1> DEFINE S == ToSet(s) \cup {x}
<1>1. s \in Seq(ToSet(s))
  BY DEF IsSequence
<1>2. s \in Seq(S)
  BY <1>1
<1>3. /\ Len(s) \in Nat /\ DOMAIN s = 1 .. Len(s) /\ DOMAIN Append(s, x) = 1 .. Len(s) + 1
      /\ Append(s, x)[Len(s) + 1] = x /\ \A i \in 1 .. Len(s) : Append(s, x)[i] = s[i]
  BY <1>2
<1> HIDE DEF S
<1>4. \A i \in DOMAIN Append(s, x) : i \in DOMAIN s \/ i = Len(s) + 1
  BY <1>3
<1> QED
  BY <1>3, <1>4 DEF ToSet

\* What is evaluated in a first scan is what was read, and the sovereignty.
LEMMA EvaluatedIsRead ==
    ASSUME FrontInv, ReadInv, phase = "ready"
    PROVE  \E doc \in LoadInput(run.mode, run.source, run.flags.region) :
              /\ IsDocument(doc)
              /\ \A r \in Evaluated :
                    r \in ToSet(doc.resources) \/ r = GovernanceResourceIn(run.flags.region)
<1> DEFINE gov == GovernanceResourceIn(run.flags.region)
<1>1. PICK doc \in LoadInput(run.mode, run.source, run.flags.region) :
            IsDocument(doc) /\ input.resources = WithGovernance(doc, run.flags.region).resources
  BY DEF ReadInv
<1> DEFINE rs == doc.resources
<1>2. input.resources = rs \/ input.resources = Append(rs, gov)
  BY <1>1, GovernanceOnce
<1>3. rs \in Seq(ToSet(rs))
  BY <1>1 DEF IsDocument, IsSequence
<1> HIDE DEF rs, gov
<1>4. \A r \in ToSet(Append(rs, gov)) : r \in ToSet(rs) \/ r = gov
  <2>1. Append(rs, gov) \in Seq(ToSet(rs) \cup {gov})
    BY <1>3
  <2>2. \A i \in DOMAIN Append(rs, gov) : Append(rs, gov)[i] \in ToSet(rs) \cup {gov}
    BY <2>1
  <2> QED
    BY <2>2 DEF ToSet
<1> QED
  BY <1>1, <1>2, <1>4 DEF Evaluated, rs, gov

LiveResourcesOf(source, c) ==
    MapItems(Provider, LiveSpec, source.items, c[RegionKey], "api")
      \o CollectBuckets(Provider, c["region"], source.s3, source.buckets)

\* The resources of a live scan are those that its credentials read, and the sovereignty when
\* the provider declares one.
LEMMA LiveReady ==
    ASSUME FrontInv, ReadInv, OfLive
    PROVE  /\ IsLive(run.source)
           /\ \E c \in ResolveCreds(run.source, run.flags.region) :
                input.resources \in {LiveResourcesOf(run.source, c),
                                     Append(LiveResourcesOf(run.source, c),
                                            GovernanceResourceIn(run.flags.region))}
<1>1. phase = "ready" /\ sealed = {} /\ run.mode = "live"
  BY DEF OfLive, Ready, First
<1>2. IsLive(run.source)
  BY <1>1, FrontAssumption DEF FrontInv, RunInv
<1>3. PICK doc \in LoadInput("live", run.source, run.flags.region) :
            IsDocument(doc) /\ input.resources = WithGovernance(doc, run.flags.region).resources
  BY <1>1 DEF ReadInv
<1>4. PICK c \in ResolveCreds(run.source, run.flags.region) :
            doc.resources = LiveResourcesOf(run.source, c)
  <2>1. \E c \in ResolveCreds(run.source, run.flags.region) :
            doc.resources = MapItems(Provider, LiveSpec, run.source.items, c[RegionKey], "api")
                              \o CollectBuckets(Provider, c["region"], run.source.s3, run.source.buckets)
    BY <1>2, <1>3, LiveIsRead, Zenon
  <2> QED
    BY <2>1, Zenon DEF LiveResourcesOf
<1>5. input.resources \in {doc.resources, Append(doc.resources, GovernanceResourceIn(run.flags.region))}
  BY <1>3, GovernanceOnce
<1> QED
  BY <1>2, <1>4, <1>5

\* The flag wins over the environment, the file and the defaults.
LEMMA FlagWins ==
    ASSUME NEW source, IsLive(source), NEW region, region # "", region \notin DOMAIN Template,
           RegionKey = "region", NEW c \in ResolveCreds(source, region)
    PROVE  c["region"] = region
<1> DEFINE flagged == IF region = "" THEN source.env ELSE [source.env EXCEPT ![RegionKey] = region]
           Subst(x) == [k \in Logical |->
                          IF x[k] \in DOMAIN Template THEN Template[x[k]][x["region"]] ELSE x[k]]
<1>1. "region" \in Logical /\ "region" \in DOMAIN source.env
  BY DEF Logical, IsLive
<1>2. flagged["region"] = region
  BY <1>1
<1>3. \E x : /\ x = flagged \/ \E more : x = Fill(flagged, more)
             /\ c = Subst(Fill(x, CredDefaults))
  <2> DEFINE Missing(x) == x["access_key"] = "" \/ x["secret_key"] = ""
             read == IF Missing(flagged)
                     THEN {Fill(flagged, more) : more \in LoadCredFile(source.file, source.profile)}
                     ELSE {flagged}
             filled == {Fill(x, CredDefaults) : x \in read}
  <2>1. c \in {Subst(x) : x \in filled}
    BY Zenon DEF ResolveCreds
  <2> HIDE DEF Subst, read
  <2>2. PICK x \in read : c = Subst(Fill(x, CredDefaults))
    BY <2>1
  <2> USE DEF read
  <2>3. x = flagged \/ \E more : x = Fill(flagged, more)
    <3> HIDE DEF flagged
    <3> QED
      BY <2>2
  <2> HIDE DEF flagged
  <2> QED
    BY <2>2, <2>3
<1> HIDE DEF flagged
<1>4. ASSUME NEW x, NEW more, x["region"] = region PROVE Fill(x, more)["region"] = region
  BY <1>1, <1>4 DEF Fill
<1>5. PICK x : x["region"] = region /\ c = Subst(Fill(x, CredDefaults))
  BY <1>2, <1>3, <1>4
<1>6. Fill(x, CredDefaults)["region"] = region
  BY <1>4, <1>5
<1> DEFINE y == Fill(x, CredDefaults)
<1> HIDE DEF y
<1>7. Subst(y)["region"] = region
  BY <1>1, <1>6 DEF y
<1> QED
  BY <1>5, <1>7 DEF y

\* A live scan claims the qualification of a provider that delimits it only when all that it
\* read carries a region of that perimeter (cmd/scan.go, internal/genprovider/credfiles.go).
THEOREM QualificationIsEarned == Spec => []QualifiedWhereItRead
<1>1. FrontInv /\ ReadInv => QualifiedWhereItRead
  <2> SUFFICES ASSUME FrontInv, ReadInv, OfLive, Souverainete.regions # << >>,
                      NEW g \in Evaluated, g.type = "governance_provider",
                      g.attrs["secnumcloud"] = Text("qualifie"),
                      NEW r \in Evaluated, r # g
               PROVE  r.region \in ToSet(Souverainete.regions)
    BY DEF QualifiedWhereItRead, OfLive
  <2> DEFINE region == run.flags.region
             gov == GovernanceResourceIn(region)
  <2>1. PICK c \in ResolveCreds(run.source, region) :
            input.resources \in {LiveResourcesOf(run.source, c), Append(LiveResourcesOf(run.source, c), gov)}
    BY LiveReady
  <2>2. IsLive(run.source) /\ RegionKey = "region"
    BY LiveReady, DescriptorAssumption
  <2> DEFINE rs == LiveResourcesOf(run.source, c)
  <2>3. /\ IsSequence(rs)
        /\ \A x \in ToSet(rs) : x.type # "governance_provider" /\ x.region = c["region"]
    BY <2>2, LiveResources DEF LiveResourcesOf
  <2> HIDE DEF rs, gov
  <2>4. \A x \in Evaluated : x \in ToSet(rs) \/ x = gov
    <3>1. Len(rs) \in Nat /\ DOMAIN rs = 1 .. Len(rs) /\ rs \in Seq(ToSet(rs))
      BY <2>3, SequenceDomain DEF IsSequence
    <3>2. ToSet(Append(rs, gov)) \subseteq ToSet(rs) \cup {gov}
      <4>1. Append(rs, gov) \in Seq(ToSet(rs) \cup {gov})
        BY <3>1
      <4>2. \A i \in DOMAIN Append(rs, gov) : Append(rs, gov)[i] \in ToSet(rs) \cup {gov}
        BY <4>1
      <4> QED
        BY <4>2 DEF ToSet
    <3> QED
      BY <2>1, <3>2 DEF Evaluated, rs
  <2>5. g = gov /\ r \in ToSet(rs)
    BY <2>3, <2>4
  <2>6. SecNumCloudPour(region) = "qualifie"
    <3>1. gov.attrs["secnumcloud"] = Text(SecNumCloudPour(region))
      BY DEF gov, GovernanceResourceIn
    <3>2. Text(SecNumCloudPour(region)) = Text("qualifie")
      BY <2>5, <3>1
    <3>3. Text(SecNumCloudPour(region)).of[1] = Text("qualifie").of[1]
      BY <3>2
    <3> QED
      BY <3>3 DEF Text, Val
  <2>7. region # "" /\ region \in ToSet(Souverainete.regions)
    BY <2>6 DEF SecNumCloudPour
  <2>8. region \notin DOMAIN Template
    BY <2>7, DescriptorAssumption
  <2>9. c["region"] = region
    BY <2>2, <2>7, <2>8, FlagWins
  <2> QED
    BY <2>3, <2>5, <2>7, <2>9
<1> QED
  BY <1>1, SpecInv, SpecReadInv, PTL

-----------------------------------------------------------------------------
(* The attestations.                                                       *)

\* The sovereignty is attested as such.
LEMMA SovereigntyIsAttested == ASSUME NEW region PROVE Attested(GovernanceResourceIn(region))
<1> DEFINE g == GovernanceResourceIn(region)
<1>1. /\ DOMAIN g.prov = DOMAIN g.attrs
      /\ \A a \in DOMAIN g.attrs : g.prov[a].source = "descriptor:souverainete"
  BY DEF GovernanceResourceIn, Attestation
<1> HIDE DEF g
<1> QED
  BY <1>1 DEF Attested, Literals, g

\* What is read of the APIs is attested.
LEMMA LiveIsAttested ==
    ASSUME NEW source, IsLive(source), NEW region, NEW doc \in LoadInput("live", source, region),
           NEW r \in ToSet(doc.resources)
    PROVE  Attested(r)
<1>1. PICK c : doc.resources = MapItems(Provider, LiveSpec, source.items, c[RegionKey], "api")
                                 \o CollectBuckets(Provider, c["region"], source.s3, source.buckets)
  BY LiveIsRead
<1> DEFINE items == MapItems(Provider, LiveSpec, source.items, c[RegionKey], "api")
           buckets == CollectBuckets(Provider, c["region"], source.s3, source.buckets)
           Projected(i) == ProjectAttested(source.items[i], LiveSpec.map, LiveSpec.transforms,
                                      [origin |-> "api", ref |-> "api"])
           Whole(i) == WithConst(Projected(i), LiveSpec.const)
<1>2. /\ DOMAIN items = DOMAIN source.items
      /\ items = [i \in DOMAIN items |-> items[i]]
      /\ \A i \in DOMAIN items : items[i].attrs = Whole(i).attrs /\ items[i].prov = Whole(i).prov
  BY DEF MapItems
<1>3. ASSUME NEW i PROVE Seen(Projected(i))
  BY ProjectionIsSeen, DescriptorAssumption
<1> HIDE DEF Projected
<1>4. ASSUME NEW i, NEW a \in DOMAIN Whole(i).attrs
      PROVE  /\ a \in DOMAIN Whole(i).prov
             /\ Whole(i).prov[a].observed \/ Whole(i).prov[a].source \in Literals
  BY <1>3, <1>4, ConstIs DEF Literals
<1> HIDE DEF Whole
<1>5. /\ DOMAIN buckets = DOMAIN source.buckets
      /\ buckets = [i \in DOMAIN buckets |-> buckets[i]]
      /\ \A i \in DOMAIN buckets : /\ DOMAIN buckets[i].prov = DOMAIN buckets[i].attrs
                                   /\ \A a \in DOMAIN buckets[i].attrs : buckets[i].prov[a].observed
  BY DEF CollectBuckets, CollectBucket, Attestation
<1> HIDE DEF items, buckets
<1>6. IsSequence(items) /\ IsSequence(buckets)
  <2>1. IsSequence(source.items) /\ IsSequence(source.buckets)
    BY DEF IsLive
  <2> QED
    BY <1>2, <1>5, <2>1, SameDomain
<1>7. ToSet(items \o buckets) \subseteq ToSet(items) \cup ToSet(buckets)
  BY <1>6, ConcatIsSequence
<1>8. \A x \in ToSet(items) \cup ToSet(buckets) : Attested(x)
  BY <1>2, <1>4, <1>5 DEF Attested, ToSet
<1> QED
  BY <1>1, <1>7, <1>8 DEF items, buckets

\* The second pass over the mapping of a plan changes no attestation.
LEMMA ResolvedIsAttested ==
    ASSUME NEW m, NEW spec, NEW res, MadeOf(Provider, m, spec, res), NEW ids, Attested(m.resource)
    PROVE  Attested(ResoudreVersLIdentite(m, ids))
<1> DEFINE r == m.resource
           out == ResoudreVersLIdentite(m, ids)
<1>1. PICK i \in DOMAIN ItemsOf(spec, res) : m = Make(Provider, spec, res, ItemsOf(spec, res)[i])
  BY DEF MadeOf
<1>2. r = [provider |-> r.provider, type |-> r.type, id |-> r.id, name |-> r.name,
           region |-> r.region, attrs |-> r.attrs, prov |-> r.prov, source |-> r.source]
  BY <1>1 DEF Make
<1> HIDE DEF r
<1>3. out.prov = r.prov /\ DOMAIN out.attrs = DOMAIN r.attrs
  BY <1>2 DEF ResoudreVersLIdentite, r
<1> HIDE DEF out
<1>4. Attested(r)
  BY DEF r
<1> QED
  BY <1>3, <1>4 DEF Attested, out

\* The resource of the plan that something was made of.
ResourceOf(m, planned) == CHOOSE res \in Range(planned) : res.address = m.address

\* A specification of the descriptor.
LEMMA SpecsAreSpecs == \A spec \in ToSet(Specs) : IsSpec(spec)
  BY DescriptorAssumption DEF IsSpec

\* The attestations are true: what no source carried is not projected, and what is said to come
\* from a reference fills a hole of the plan (internal/tfmap/tfmap.go:232-236).
THEOREM AttestationsAreTrue == Spec => []ProvenanceIsTrue
<1>1. FrontInv /\ ReadInv => ProvenanceIsTrue
  <2> SUFFICES ASSUME FrontInv, ReadInv PROVE ProvenanceIsTrue
    OBVIOUS
  <2>1. ASSUME phase = "ready", sealed = {}, run.mode # "export", NEW r \in Evaluated PROVE Attested(r)
    <3>1. PICK doc \in LoadInput(run.mode, run.source, run.flags.region) :
              r \in ToSet(doc.resources) \/ r = GovernanceResourceIn(run.flags.region)
      BY <2>1, EvaluatedIsRead
    <3>2. \/ run.mode = "live" /\ IsLive(run.source)
          \/ run.mode = "plan" /\ IsPlan(run.source)
      BY <2>1, FrontAssumption DEF FrontInv, RunInv
    <3>3. CASE r = GovernanceResourceIn(run.flags.region)
      BY <3>3, SovereigntyIsAttested
    <3>4. CASE r \in ToSet(doc.resources) /\ run.mode = "live" /\ IsLive(run.source)
      BY <3>4, LiveIsAttested
    <3>5. CASE r \in ToSet(doc.resources) /\ run.mode = "plan" /\ IsPlan(run.source)
      <4> DEFINE made == MadeBy(run.source)
      <4>1. doc \in LoadInput("plan", run.source, run.flags.region)
        BY <3>5
      <4>2. /\ \A m \in ToSet(made) : \E res \in ToSet(ParsePlan(run.source)), spec \in ToSet(Specs) :
                    MadeOf(Provider, m, spec, res)
            /\ \A x \in ToSet(doc.resources) : \E m \in ToSet(made) : x = Resolved(made, m)
        BY <3>5, <4>1, PlanResources
      <4> HIDE DEF made
      <4>3. PICK m \in ToSet(made) : r = Resolved(made, m)
        BY <3>5, <4>2
      <4>4. PICK res \in ToSet(ParsePlan(run.source)), spec \in ToSet(Specs) :
                MadeOf(Provider, m, spec, res)
        BY <4>2
      <4>5. Attested(m.resource)
        BY <4>4, SpecsAreSpecs, MadeIsAttested
      <4> QED
        BY <4>3, <4>4, <4>5, ResolvedIsAttested DEF Resolved
    <3> QED
      BY <3>1, <3>2, <3>3, <3>4, <3>5
  <2>2. ASSUME OfPlan, NEW planned \in {Planned}, NEW m \in Range(Made)
        PROVE  Truthful(m, ResourceOf(m, planned))
    <3>1. phase = "ready" /\ sealed = {} /\ run.mode = "plan"
      BY <2>2 DEF OfPlan, Ready, First
    <3>2. IsPlan(run.source)
      BY <3>1, FrontAssumption DEF FrontInv, RunInv
    <3>3. /\ m \in ToSet(MadeBy(run.source)) /\ Range(planned) = ToSet(ParsePlan(run.source))
      BY <2>2 DEF Made, Planned, MadeBy, Range, ToSet
    <3>4. PICK doc \in LoadInput("plan", run.source, run.flags.region) : TRUE
      BY <3>1 DEF ReadInv
    <3>5. PICK r \in ToSet(ParsePlan(run.source)), spec \in ToSet(Specs) : MadeOf(Provider, m, spec, r)
      BY <3>2, <3>3, <3>4, PlanResources
    <3>6. m.address = r.address
      BY <3>5, TypeOfMade
    <3>7. ResourceOf(m, planned) = r
      <4>1. \A q \in Range(planned) : q.address = m.address => q = r
        BY <3>2, <3>3, <3>5, <3>6, PlannedOnce
      <4>2. r \in Range(planned) /\ r.address = m.address
        BY <3>3, <3>5, <3>6
      <4> QED
        BY <4>1, <4>2 DEF ResourceOf
    <3>8. IsSpec(spec)
      BY <3>5, SpecsAreSpecs
    <3>9. Truthful(m, r)
      BY <3>5, <3>8, MadeIsAttested
    <3> QED
      BY <3>7, <3>9
  <2>3. ASSUME OfPlan
        PROVE  \A planned \in {Planned} : \A m \in Range(Made) :
                LET res == CHOOSE res \in Range(planned) : res.address = m.address
                    Field(a) == m.spec.map[a][1].field
                    Known(a) == /\ Len(m.spec.map[a]) = 1 /\ Field(a) \in DOMAIN res.args
                                /\ m.spec.items = "" \/ m.spec.map[a][1].from = "parent"
                IN  \A a \in DOMAIN m.spec.map \ DOMAIN m.spec.const : Known(a) =>
                        /\ m.resource.prov[a].source # "configuration"
                        /\ a \in DOMAIN m.resource.attrs /\ ~m.resource.prov[a].derived =>
                                m.resource.attrs[a] = res.args[Field(a)]
    <3>1. ASSUME NEW planned \in {Planned}, NEW m \in Range(Made),
                 NEW a \in DOMAIN m.spec.map \ DOMAIN m.spec.const,
                 Len(m.spec.map[a]) = 1 /\ m.spec.map[a][1].field \in DOMAIN ResourceOf(m, planned).args,
                 m.spec.items = "" \/ m.spec.map[a][1].from = "parent"
          PROVE  /\ m.resource.prov[a].source # "configuration"
                 /\ a \in DOMAIN m.resource.attrs /\ ~m.resource.prov[a].derived =>
                        m.resource.attrs[a] = ResourceOf(m, planned).args[m.spec.map[a][1].field]
      <4>1. PICK res, f : res = ResourceOf(m, planned) /\ f = m.spec.map[a][1].field
        OBVIOUS
      <4>2. Knows(m.spec, res, a, f)
        BY <3>1, <4>1 DEF Knows, Names
      <4>3. Truthful(m, res)
        BY <2>2, <2>3, <4>1
      <4>4. /\ m.resource.prov[a].source # "configuration"
            /\ a \in DOMAIN m.resource.attrs /\ ~m.resource.prov[a].derived =>
                    m.resource.attrs[a] = res.args[f]
        BY <4>2, <4>3 DEF Truthful
      <4> QED
        BY <4>1, <4>4
    <3> QED
      BY <3>1, Zenon DEF ResourceOf
  <2> QED
    BY <2>1, <2>3 DEF ProvenanceIsTrue, Attested, Literals, Ready, First
<1> QED
  BY <1>1, SpecInv, SpecReadInv, PTL
-----------------------------------------------------------------------------
(* The origin of a finding.                                                *)

\* The resources of the scan of a plan are those that are made of it, in their order, and the
\* sovereignty, which has no origin.
LEMMA PlanReady ==
    ASSUME FrontInv, ReadInv, OfPlan
    PROVE  /\ IsPlan(run.source)
           /\ IsSequence(input.resources) /\ IsSequence(Made)
           /\ DOMAIN Made \subseteq DOMAIN input.resources
           /\ \A m \in ToSet(Made) :
                \E res \in ToSet(Planned), spec \in ToSet(Specs) : MadeOf(Provider, m, spec, res)
           /\ \A i \in DOMAIN Made : input.resources[i] = Resolved(Made, Made[i])
           /\ \A i \in DOMAIN input.resources \ DOMAIN Made : input.resources[i].source = NoSource
<1> DEFINE gov == GovernanceResourceIn(run.flags.region)
<1>1. phase = "ready" /\ run.mode = "plan" /\ IsPlan(run.source)
  BY FrontAssumption DEF OfPlan, Ready, First, FrontInv, RunInv
<1>2. PICK doc \in LoadInput("plan", run.source, run.flags.region) :
            IsDocument(doc) /\ input.resources = WithGovernance(doc, run.flags.region).resources
  BY <1>1 DEF ReadInv
<1> DEFINE rs == doc.resources
<1>3. input.resources = rs \/ input.resources = Append(rs, gov)
  BY <1>2, GovernanceOnce
<1>4. Made = MadeBy(run.source) /\ Planned = ParsePlan(run.source)
  BY DEF Made, MadeBy, Planned
<1>5. /\ IsSequence(Made)
      /\ \A m \in ToSet(Made) :
            \E res \in ToSet(Planned), spec \in ToSet(Specs) : MadeOf(Provider, m, spec, res)
      /\ DOMAIN rs = DOMAIN Made /\ \A i \in DOMAIN rs : rs[i] = Resolved(Made, Made[i])
  BY <1>1, <1>2, <1>4, PlanResources
<1>6. IsSequence(rs)
  BY <1>2 DEF IsDocument
<1>7. gov.source = NoSource
  BY DEF GovernanceResourceIn
<1> HIDE DEF rs, gov
<1>8. /\ IsSequence(Append(rs, gov))
      /\ DOMAIN rs \subseteq DOMAIN Append(rs, gov)
      /\ \A i \in DOMAIN rs : Append(rs, gov)[i] = rs[i]
      /\ \A i \in DOMAIN Append(rs, gov) \ DOMAIN rs : Append(rs, gov)[i] = gov
  <2> DEFINE S == ToSet(rs) \cup {gov}
             out == Append(rs, gov)
  <2>1. rs \in Seq(S) /\ gov \in S
    BY <1>6 DEF IsSequence
  <2> HIDE DEF S
  <2>2. /\ Len(rs) \in Nat /\ DOMAIN rs = 1 .. Len(rs) /\ DOMAIN out = 1 .. Len(rs) + 1
        /\ out \in Seq(S) /\ out[Len(rs) + 1] = gov /\ \A i \in 1 .. Len(rs) : out[i] = rs[i]
    BY <2>1
  <2> HIDE DEF out
  <2>3. \A i \in DOMAIN out \ DOMAIN rs : i = Len(rs) + 1
    BY <2>2
  <2>4. IsSequence(out)
    BY <2>2, SequenceOfItself
  <2>5. DOMAIN rs \subseteq DOMAIN out
    BY <2>2
  <2> QED
    BY <2>2, <2>3, <2>4, <2>5 DEF out
<1> QED
  BY <1>1, <1>3, <1>5, <1>6, <1>7, <1>8

\* The origin of a subject is that of a resource that bears it.
LEMMA OriginIsBorne ==
    ASSUME NEW resources, IsSequence(resources), NEW s \in DOMAIN OriginsOf(resources)
    PROVE  \E i \in DOMAIN resources :
              /\ s \in {resources[i].id, resources[i].name}
              /\ OriginsOf(resources)[s] = resources[i].source
<1> DEFINE located == {i \in DOMAIN resources : resources[i].source # NoSource}
           bears == {i \in located : s \in {resources[i].id, resources[i].name}}
           i == CHOOSE i \in bears : \A j \in bears : i <= j
           subjects == UNION {{resources[j].id, resources[j].name} : j \in located} \ {""}
<1>1. /\ DOMAIN OriginsOf(resources) = subjects
      /\ \A x \in subjects : OriginsOf(resources)[x] =
            LET mine == {j \in located : x \in {resources[j].id, resources[j].name}}
            IN  resources[CHOOSE j \in mine : \A k \in mine : j <= k].source
  BY DEF OriginsOf
<1>2. s \in subjects
  BY <1>1
<1>3. OriginsOf(resources)[s] = resources[i].source
  BY <1>1, <1>2, Zenon
<1>4. bears # {}
  BY <1>2
<1>5. i \in bears
  <2>1. bears \in SUBSET Nat
    <3>1. DOMAIN resources = 1 .. Len(resources) /\ Len(resources) \in Nat
      BY SequenceDomain
    <3> QED
      BY <3>1
  <2> HIDE DEF bears
  <2> QED
    BY <1>4, <2>1, LeastIndex
<1> HIDE DEF i
<1> QED
  BY <1>3, <1>5

\* The place of a result, and the place of a subject.
PlaceOf(findings, places, results, n, place) ==
    /\ results \in {findings, SubSeq(findings, 2, Len(findings))} /\ n \in DOMAIN results
    /\ place \in Locate(results, WithTerraformOrigin(findings, places))[n]
PlacedAt(places, s, place) ==
    Located(place) /\ place = IF s \in DOMAIN places THEN places[s] ELSE NoSource

\* A result is located at the place of the finding of its rank, when there are as many.
LEMMA LocatedAsTheFinding ==
    ASSUME NEW findings, IsSequence(findings), NEW places, NEW results, NEW n, NEW place,
           PlaceOf(findings, places, results, n, place)
    PROVE  PlacedAt(places, results[n], place)
<1> DEFINE located == WithTerraformOrigin(findings, places)
<1>1. /\ DOMAIN located = DOMAIN findings
      /\ located = [i \in DOMAIN located |-> located[i]]
      /\ \A i \in DOMAIN findings :
            located[i] = IF findings[i] \in DOMAIN places THEN places[findings[i]] ELSE NoSource
  BY DEF WithTerraformOrigin
<1> HIDE DEF located
<1>2. Len(results) = Len(located) /\ place = located[n] /\ Located(place)
  <2>1. n \in DOMAIN results /\ place \in Locate(results, located)[n]
    BY DEF PlaceOf, located
  <2>2. Locate(results, located)[n] = IF Len(results) = Len(located) /\ Located(located[n]) THEN {located[n]} ELSE {}
    BY <2>1 DEF Locate, Located
  <2> QED
    BY <2>1, <2>2
<1>3. results = findings
  <2>1. /\ Len(located) \in Nat /\ DOMAIN located = 1 .. Len(located)
        /\ Len(findings) \in Nat /\ DOMAIN findings = 1 .. Len(findings)
    BY <1>1, SameDomain, SequenceDomain
  <2>2. Len(located) = Len(findings)
    <3> DEFINE k == Len(located)
               l == Len(findings)
    <3>1. k \in Nat /\ l \in Nat /\ 1 .. k = 1 .. l
      BY <1>1, <2>1
    <3> HIDE DEF k, l
    <3>2. k >= 1 => k \in 1 .. l
      BY <3>1
    <3>3. l >= 1 => l \in 1 .. k
      BY <3>1
    <3>4. k = l
      BY <3>1, <3>2, <3>3
    <3> QED
      BY <3>4 DEF k, l
  <2>3. findings \in Seq(ToSet(findings))
    BY DEF IsSequence
  <2>4. CASE Len(findings) = 0
    <3>1. findings = << >>
      BY <2>3, <2>4
    <3>2. SubSeq(findings, 2, Len(findings)) = << >>
      BY <2>3, <2>4
    <3> QED
      BY <3>1, <3>2 DEF PlaceOf
  <2>5. CASE Len(findings) # 0
    <3>1. Len(SubSeq(findings, 2, Len(findings))) = Len(findings) - 1
      BY <2>1, <2>3, <2>5
    <3> QED
      BY <1>2, <2>1, <2>2, <3>1 DEF PlaceOf
  <2> QED
    BY <2>4, <2>5
<1>4. n \in DOMAIN findings
  BY <1>3 DEF PlaceOf
<1> QED
  BY <1>1, <1>2, <1>3, <1>4 DEF PlacedAt

\* A line that is given is right (internal/tfparse/origin.go:32-39).
THEOREM LinesAreRight == Spec => []OriginNeverWrong
<1>1. FrontInv /\ ReadInv => OriginNeverWrong
  <2> SUFFICES ASSUME FrontInv, ReadInv, OfPlan PROVE OriginNeverWrong
    BY DEF OriginNeverWrong
  <2> DEFINE tree == run.source.sources
             cfg == run.source.configuration
             places == OriginsOf(input.resources)
             ids == [i \in DOMAIN input.resources |-> input.resources[i].id]
             names == [i \in DOMAIN input.resources |-> input.resources[i].name]
             findings == ids \o names
             HeadsAt(address) == HeadsOf(tree, ModuleDirs(cfg, Parts[address].mods), Parts[address].decl)
             Right(made, s, place) ==
                \E i \in DOMAIN made :
                    /\ s \in {input.resources[i].id, input.resources[i].name}
                    /\ IsOnlyHeader(HeadsAt(made[i].address), tree, Parts[made[i].address].decl, place)
  <2>1. ASSUME NEW s, NEW place, PlacedAt(places, s, place) PROVE Right(Made, s, place)
    <3>1. ~Located(NoSource)
      BY DEF Located, NoSource
    <3>2. s \in DOMAIN places /\ place = places[s] /\ Located(place)
      BY <2>1, <3>1 DEF PlacedAt
    <3>3. PICK i \in DOMAIN input.resources :
              s \in {input.resources[i].id, input.resources[i].name} /\ place = input.resources[i].source
      BY <3>2, PlanReady, OriginIsBorne
    <3>4. i \in DOMAIN Made /\ input.resources[i] = Resolved(Made, Made[i])
      BY <3>1, <3>2, <3>3, PlanReady
    <3>5. PICK res \in ToSet(Planned), spec \in ToSet(Specs) : MadeOf(Provider, Made[i], spec, res)
      BY <3>4, PlanReady DEF ToSet
    <3>6. Made[i].address = res.address /\ place = res.origin
      BY <3>3, <3>4, <3>5, TypeOfMade DEF Resolved
    <3>7. IsPlan(run.source)
      BY PlanReady
    <3>8. res.address \in DOMAIN Parts /\ res.origin = Origin(tree, cfg, res.address)
      <4>1. PICK k \in DOMAIN Planned : res = Planned[k]
        BY <3>5 DEF ToSet
      <4>2. /\ Collected(run.source)[k] \in Typed(run.source)
            /\ res.address = Collected(run.source)[k].address
            /\ res.origin = Origin(tree, cfg, Collected(run.source)[k].address)
        BY <3>7, <4>1, PlannedIs DEF Planned
      <4>3. Collected(run.source)[k].address \in DOMAIN Rank
        BY <3>7, <4>2 DEF IsPlan, Typed
      <4> QED
        BY <4>2, <4>3, PlanAssumption
    <3>9. PICK a, decl, heads : a = res.address /\ decl = Parts[a].decl /\ heads = HeadsAt(a)
      OBVIOUS
    <3>10. PICK plan : plan = run.source
      OBVIOUS
    <3>11. /\ IsPlan(plan) /\ a \in DOMAIN Parts /\ decl = Parts[a].decl
           /\ place = Origin(plan.sources, plan.configuration, a) /\ Located(place)
           /\ heads = HeadsOf(plan.sources, ModuleDirs(plan.configuration, Parts[a].mods), decl)
      BY <3>2, <3>6, <3>7, <3>8, <3>9, <3>10
    <3>12. IsOnlyHeader(heads, tree, decl, place)
      BY <3>10, <3>11, OriginIs
    <3> QED
      BY <3>3, <3>4, <3>6, <3>9, <3>12
  <2>2. IsSequence(findings)
    <3>1. IsSequence(ids) /\ IsSequence(names)
      <4>1. /\ DOMAIN ids = DOMAIN input.resources /\ ids = [i \in DOMAIN ids |-> ids[i]]
            /\ DOMAIN names = DOMAIN input.resources /\ names = [i \in DOMAIN names |-> names[i]]
        OBVIOUS
      <4> HIDE DEF ids, names
      <4> QED
        BY <4>1, PlanReady, SameDomain
    <3> HIDE DEF ids, names
    <3> QED
      BY <3>1, ConcatIsSequence
  <2>3. ASSUME NEW made \in {Made}, NEW results \in {findings, SubSeq(findings, 2, Len(findings))},
               NEW n \in DOMAIN results, NEW place \in Locate(results, WithTerraformOrigin(findings, places))[n]
        PROVE  Right(made, results[n], place)
    <3> HIDE DEF findings, places, Right
    <3>1. PlaceOf(findings, places, results, n, place)
      BY DEF PlaceOf
    <3>2. PlacedAt(places, results[n], place)
      BY <2>2, <3>1, LocatedAsTheFinding
    <3>3. made = Made
      OBVIOUS
    <3> QED
      BY <2>1, <3>2, <3>3
  <2> QED
    BY <2>3, Zenon DEF OriginNeverWrong, HeadsOf, IsOnlyHeader
<1> QED
  BY <1>1, SpecInv, SpecReadInv, PTL

-----------------------------------------------------------------------------
(* One subject.                                                            *)

\* What is made of an address, and what names it in the inventory.
MadeFrom(made, A) == {j \in DOMAIN made : made[j].address = A}
SubjectOf(made, A) ==
    IF MadeFrom(made, A) = {} THEN {A} ELSE {input.resources[j].id : j \in MadeFrom(made, A)}
AreSubjects(made, texts, named) ==
    /\ \A A \in named : texts \cap SubjectOf(made, A) # {}
    /\ texts \subseteq UNION {SubjectOf(made, A) : A \in named}
Unfilled(made, A) == \A j \in MadeFrom(made, A) : made[j].spec.id \notin made[j].injected

\* The identity that an address has is one of what is made of it.
LEMMA IdentityIsASubject ==
    ASSUME FrontInv, ReadInv, OfPlan, NEW A, Unfilled(Made, A)
    PROVE  IdOf(IdParAdresse(Made), A) \in SubjectOf(Made, A)
<1> DEFINE mine == MadeFrom(Made, A)
           id == IdOf(IdParAdresse(Made), A)
<1>1. mine = {} => id = A
  BY PlanReady, IdentityOfAddress DEF MadeFrom
<1>2. mine # {} => \E j \in mine : id = Made[j].resource.id
  BY PlanReady, IdentityOfAddress DEF MadeFrom
<1>3. ASSUME NEW j \in mine PROVE input.resources[j].id = Made[j].resource.id
  <2>1. j \in DOMAIN Made /\ Made[j].spec.id \notin Made[j].injected
    BY <1>3 DEF MadeFrom, Unfilled
  <2>2. PICK res \in ToSet(Planned), spec \in ToSet(Specs) : MadeOf(Provider, Made[j], spec, res)
    BY <2>1, PlanReady DEF ToSet
  <2>3. input.resources[j] = Resolved(Made, Made[j])
    BY <2>1, PlanReady
  <2>4. Resolved(Made, Made[j]).id = Made[j].resource.id
    BY <2>1, <2>2, ResolvedNames DEF Resolved
  <2> QED
    BY <2>3, <2>4
<1> HIDE DEF mine, id
<1>4. CASE mine = {}
  BY <1>1, <1>4 DEF SubjectOf, mine, id
<1>5. CASE mine # {}
  <2>1. PICK j \in mine : id = Made[j].resource.id
    BY <1>2, <1>5
  <2>2. id = input.resources[j].id
    BY <1>3, <2>1
  <2> QED
    BY <1>5, <2>1, <2>2 DEF SubjectOf, mine, id
<1> QED
  BY <1>4, <1>5

\* The references of the argument of an attribute of what is made.
NamedBy(m, a, planned) == Range(ResourceOf(m, planned).references[m.spec.map[a][1].field])

\* What a reference fills holds the identities of what it names, and nothing else.
LEMMA FilledByIdentities ==
    ASSUME FrontInv, ReadInv, OfPlan, NEW i \in DOMAIN Made,
           NEW a \in Made[i].injected \cap DOMAIN input.resources[i].attrs, FillsHole(Made[i].spec, a)
    PROVE  Range(input.resources[i].attrs[a].of)
              = IdentitiesOf(IdParAdresse(Made), NamedBy(Made[i], a, Planned))
<1> DEFINE m == Made[i]
           ids == IdParAdresse(Made)
<1>1. m \in ToSet(Made) /\ IsPlan(run.source) /\ Planned = ParsePlan(run.source)
  BY PlanReady DEF ToSet, Planned
<1>2. input.resources[i] = ResoudreVersLIdentite(m, ids)
  BY PlanReady DEF Resolved
<1>3. PICK res \in ToSet(Planned), spec \in ToSet(Specs) : MadeOf(Provider, m, spec, res)
  BY <1>1, PlanReady
<1> HIDE DEF m, ids
<1>4. m.address = res.address /\ m.spec = spec /\ m.injected = Injected(spec, res)
  BY <1>3, TypeOfMade
<1>5. ResourceOf(m, Planned) = res
  <2>1. \A q \in ToSet(Planned) : q.address = m.address => q = res
    BY <1>1, <1>3, <1>4, PlannedOnce
  <2>2. res \in Range(Planned) /\ Range(Planned) = ToSet(Planned)
    BY <1>3 DEF Range, ToSet
  <2> QED
    BY <1>4, <2>1, <2>2 DEF ResourceOf
<1> DEFINE refs == res.references[spec.map[a][1].field]
<1>6. a \in m.injected \cap DOMAIN m.resource.attrs
  <2>1. DOMAIN ResoudreVersLIdentite(m, ids).attrs = DOMAIN m.resource.attrs
    BY <1>3, ResolvedNames
  <2> QED
    BY <1>2, <2>1 DEF m
<1>7. IsNaming(m.resource.attrs[a], refs)
  <2>1. IsSpec(spec) /\ FillsHole(spec, a)
    BY <1>3, <1>4, SpecsAreSpecs DEF m
  <2>2. a \in Injected(spec, res) /\ a \in DOMAIN m.resource.attrs
    BY <1>4, <1>6
  <2>3. res \in ToSet(ParsePlan(run.source))
    BY <1>1, <1>3
  <2> QED
    BY <1>1, <1>3, <2>1, <2>2, <2>3, MadeNames
<1> HIDE DEF refs
<1>8. ToSet(ResoudreVersLIdentite(m, ids).attrs[a].of) = IdentitiesOf(ids, ToSet(refs))
  BY <1>3, <1>6, <1>7, ResolvedNames
<1>9. NamedBy(m, a, Planned) = ToSet(refs)
  BY <1>4, <1>5 DEF NamedBy, Range, ToSet, refs
<1>10. Range(input.resources[i].attrs[a].of) = ToSet(ResoudreVersLIdentite(m, ids).attrs[a].of)
  BY <1>2 DEF Range, ToSet
<1> QED
  BY <1>8, <1>9, <1>10 DEF m, ids

\* A transform of steps that keep what is not empty, or none.
LEMMA UnconvertedIsKeeping ==
    ASSUME NEW spec, IsSpec(spec), NEW a,
           a \in DOMAIN spec.transforms => \A k \in DOMAIN spec.transforms[a] :
                spec.transforms[a][k].op \in KeepingOps
    PROVE  IsKeeping(TransformOf(spec.transforms, a))
<1>1. CASE a \in DOMAIN spec.transforms
  <2> DEFINE t == spec.transforms[a]
  <2>1. IsSequence(t) /\ \A k \in DOMAIN t : t[k].op \in KeepingOps
    BY <1>1 DEF IsSpec
  <2>2. TransformOf(spec.transforms, a) = t
    BY <1>1 DEF TransformOf
  <2> HIDE DEF t
  <2>3. Len(t) \in Nat /\ DOMAIN t = 1 .. Len(t)
    BY <2>1, SequenceDomain
  <2> QED
    BY <2>1, <2>2, <2>3 DEF IsKeeping
<1>2. CASE a \notin DOMAIN spec.transforms
  BY <1>2 DEF TransformOf, IsKeeping
<1> QED
  BY <1>1, <1>2

\* One subject: what a reference fills names a resource by the identity it has in the inventory
\* (internal/tfmap/tfmap.go:148-165).
THEOREM SubjectsAreOne == Spec => []OneSubject
<1>1. FrontInv /\ ReadInv => OneSubject
  <2> SUFFICES ASSUME FrontInv, ReadInv, OfPlan PROVE OneSubject
    BY DEF OneSubject
  <2>1. ASSUME NEW i \in DOMAIN Made, NEW a \in Made[i].injected \cap DOMAIN input.resources[i].attrs,
               Made[i].spec.items = "" \/ Made[i].spec.map[a][1].from = "parent",
               a \notin DOMAIN Made[i].spec.const,
               a \in DOMAIN Made[i].spec.transforms =>
                    \A k \in DOMAIN Made[i].spec.transforms[a] :
                        Made[i].spec.transforms[a][k].op \in {"list", "default", "default_null"}
        PROVE  FillsHole(Made[i].spec, a)
    <3>1. PICK res \in ToSet(Planned), spec \in ToSet(Specs) : MadeOf(Provider, Made[i], spec, res)
      BY PlanReady DEF ToSet
    <3>2. Made[i].spec = spec /\ IsSpec(spec)
      BY <3>1, TypeOfMade, SpecsAreSpecs
    <3>3. IsKeeping(TransformOf(Made[i].spec.transforms, a))
      BY <2>1, <3>2, UnconvertedIsKeeping DEF KeepingOps
    <3> QED
      BY <2>1, <3>3 DEF FillsHole
  <2>2. ASSUME NEW i \in DOMAIN Made, NEW a \in Made[i].injected \cap DOMAIN input.resources[i].attrs,
               FillsHole(Made[i].spec, a),
               \A A \in NamedBy(Made[i], a, Planned) : Unfilled(Made, A)
        PROVE  AreSubjects(Made, Range(input.resources[i].attrs[a].of), NamedBy(Made[i], a, Planned))
    <3> DEFINE texts == Range(input.resources[i].attrs[a].of)
               named == NamedBy(Made[i], a, Planned)
               ids == IdParAdresse(Made)
    <3>1. texts = IdentitiesOf(ids, named)
      BY <2>2, FilledByIdentities
    <3>2. \A A \in named : IdOf(ids, A) \in SubjectOf(Made, A)
      BY <2>2, IdentityIsASubject
    <3> HIDE DEF texts, named, ids
    <3>3. AreSubjects(Made, texts, named)
      BY <3>1, <3>2 DEF AreSubjects, IdentitiesOf
    <3> QED
      BY <3>3 DEF texts, named
  <2> DEFINE Holding(planned, made) ==
        \A i \in DOMAIN made : \A a \in made[i].injected \cap DOMAIN input.resources[i].attrs :
            (/\ made[i].spec.items = "" \/ made[i].spec.map[a][1].from = "parent"
             /\ a \notin DOMAIN made[i].spec.const
                /\ (a \in DOMAIN made[i].spec.transforms =>
                        \A k \in DOMAIN made[i].spec.transforms[a] :
                            made[i].spec.transforms[a][k].op \in {"list", "default", "default_null"}))
            => ((\A A \in NamedBy(made[i], a, planned) :
                    ~\E j \in MadeFrom(made, A) : made[j].spec.id \in made[j].injected)
                => AreSubjects(made, Range(input.resources[i].attrs[a].of), NamedBy(made[i], a, planned)))
  <2>3. Holding(Planned, Made)
    BY <2>1, <2>2 DEF Unfilled
  <2>4. \A planned \in {Planned} : \A made \in {Made} : Holding(planned, made)
    <3> HIDE DEF Holding
    <3> QED
      BY <2>3
  <2> QED
    BY <2>4, Zenon DEF OneSubject, AreSubjects, NamedBy, ResourceOf, MadeFrom, SubjectOf
<1> QED
  BY <1>1, SpecInv, SpecReadInv, PTL

-----------------------------------------------------------------------------
(* The references.                                                         *)

\* A reference is exact: an argument is given the addresses of the declarations that it reaches,
\* through the variables of its module, and that have one instance in the plan
\* (internal/tfparse/tfparse.go:195-214, 263-301).
THEOREM ReferencesAreExact == Spec => []ReferenceIsExact
<1>1. FrontInv /\ ReadInv => ReferenceIsExact
  <2> SUFFICES ASSUME FrontInv, ReadInv, OfPlan PROVE ReferenceIsExact
    BY DEF ReferenceIsExact
  <2> DEFINE source == run.source
  <2>1. IsPlan(source) /\ Planned = ParsePlan(source)
    BY PlanReady DEF Planned
  <2> DEFINE Exact(planned) ==
        LET cfg == run.source.configuration
        IN  \A res \in Range(planned) :
                LET here == ConfigAddress(res.address)
                    refs == Declared(cfg, res.address)
                    Sole(arg) == SoleIn(planned, ReachedFrom(cfg, StartOf(here[1], refs[arg])))
                IN  /\ DOMAIN res.references \subseteq DOMAIN refs
                    /\ \A arg \in DOMAIN refs :
                        /\ GivenTo(res, arg) \subseteq Sole(arg)
                        /\ Len(here[1]) <= ProfondeurMax => Sole(arg) \subseteq GivenTo(res, arg)
  <2>2. Exact(Planned)
    <3>1. ASSUME NEW res \in Range(Planned)
          PROVE  DOMAIN res.references \subseteq DOMAIN Declared(source.configuration, res.address)
      <4>1. res \in ToSet(ParsePlan(source))
        BY <2>1 DEF Range, ToSet
      <4> QED
        BY <2>1, <4>1, ReferencesDesignate
    <3>2. ASSUME NEW res \in Range(Planned), NEW arg \in DOMAIN Declared(source.configuration, res.address)
          PROVE  LET scope == ConfigAddress(res.address)[1]
                     cibles == Declared(source.configuration, res.address)[arg]
                     sole == SoleIn(Planned, ReachedFrom(source.configuration, StartOf(scope, cibles)))
                 IN  /\ GivenTo(res, arg) \subseteq sole
                     /\ Len(scope) <= ProfondeurMax => sole \subseteq GivenTo(res, arg)
      <4>1. res \in ToSet(ParsePlan(source))
        BY <2>1 DEF Range, ToSet
      <4> QED
        BY <2>1, <4>1, ReferencesReach
    <3> QED
      BY <3>1, <3>2
  <2>3. \A planned \in {Planned} : Exact(planned)
    <3> HIDE DEF Exact
    <3> QED
      BY <2>2
  <2> QED
    BY <2>3, Zenon DEF ReferenceIsExact, Declared, SoleIn, ReachedFrom, StartOf, PassedIn, ClosedIn, CallerOf, GivenTo
<1> QED
  BY <1>1, SpecInv, SpecReadInv, PTL

-----------------------------------------------------------------------------
(* The reduction of a plan.                                                *)

\* What the mapping of a plan leaves out is counted in the document that is evaluated.
LEMMA UnmappedOfPlan ==
    ASSUME FrontInv, ReadInv, OfPlan PROVE input.unmapped = Unmapped(Specs, Planned)
<1>1. phase = "ready" /\ run.mode = "plan"
  BY DEF OfPlan, Ready
<1>2. PICK doc \in LoadInput("plan", run.source, run.flags.region) : input.unmapped = doc.unmapped
  BY <1>1 DEF ReadInv
<1>3. doc.unmapped = Unmapped(Specs, ParsePlan(run.source))
  <2> DEFINE inv == Apply(Provider, Specs, ParsePlan(run.source))
  <2>1. doc = Document(inv.resources, inv.unmapped)
    BY DEF LoadInput
  <2>2. inv.unmapped = Unmapped(Specs, ParsePlan(run.source))
    BY DEF Apply
  <2> HIDE DEF inv
  <2> QED
    BY <2>1, <2>2 DEF Document
<1> QED
  BY <1>2, <1>3 DEF Planned

\* A reduction is faithful: the plan of which only what the mapping reads is left is accepted,
\* and gives the inventory of the plan unless a value that is read bears the name of a secret, but
\* for the nested regions (scripts/tenant-plan.py:177-290, internal/tenants/tenants.go:318-369).
THEOREM ReductionsAreFaithful == Spec => []ReductionIsFaithful
<1>1. FrontInv /\ ReadInv => ReductionIsFaithful
  <2> SUFFICES ASSUME FrontInv, ReadInv, OfPlan PROVE ReductionIsFaithful
    BY DEF ReductionIsFaithful
  <2> DEFINE source == run.source
             red == Trim(Specs, source)
             out == Apply(Provider, Specs, ParsePlan(red))
  <2>1. IsPlan(source) /\ Planned = ParsePlan(source)
    BY PlanReady DEF Planned
  <2>2. CheckPlanAttributes(Specs, Reduce(Specs, source)) = {}
    BY <2>1, ScrubbedIsMapped
  <2>3. IsSequence(Specs) /\ \A spec \in ToSet(Specs) : IsSpec(spec)
    BY SpecsAreSpecs, DescriptorAssumption
  <2>4. Made = AllMade(Provider, Specs, ParsePlan(source))
    BY <2>1 DEF Made
  <2>5. /\ out.unmapped = Unmapped(Specs, ParsePlan(source))
        /\ Len(out.resources) = Len(Made)
        /\ \A i \in DOMAIN Made :
                /\ Made[i].spec.tf = TypeOf(Made[i].address)
                /\ Less(Made[i].spec, out.resources[i], ResoudreVersLIdentite(Made[i], IdParAdresse(Made)))
    BY <2>1, <2>3, <2>4, AppliedReduced
  <2>6. out.unmapped = input.unmapped
    BY <2>1, <2>5, UnmappedOfPlan
  <2> DEFINE Nested(made, i) == \E k \in DOMAIN Specs :
                                    /\ Specs[k].tf = TypeOf(made[i].address)
                                    /\ RootField(Specs[k].region) # Specs[k].region
  <2> HIDE DEF out, red
  <2>7. ASSUME NEW i \in DOMAIN Made
        PROVE  \/ out.resources[i] = input.resources[i]
               \/ /\ Nested(Made, i)
                  /\ out.resources[i] = [input.resources[i] EXCEPT !.region = ""]
    <3> DEFINE t == input.resources[i]
               lost == [t EXCEPT !.region = ""]
    <3>1. t = ResoudreVersLIdentite(Made[i], IdParAdresse(Made))
      BY PlanReady DEF Resolved
    <3>2. Less(Made[i].spec, out.resources[i], t)
      BY <2>5, <3>1
    <3>3. PICK res \in ToSet(Planned), spec \in ToSet(Specs) : MadeOf(Provider, Made[i], spec, res)
      BY PlanReady DEF ToSet
    <3>4. Made[i].spec = spec
      <4>1. \A item : Make(Provider, spec, res, item).spec = spec
        BY DEF Make
      <4> QED
        BY <3>3, <4>1 DEF MadeOf
    <3>5. PICK k \in DOMAIN Specs : Specs[k] = Made[i].spec
      BY <3>4 DEF ToSet
    <3>6. RootField(Made[i].spec.region) # Made[i].spec.region => Nested(Made, i)
      BY <2>5, <3>5
    <3>7. \/ out.resources[i] = t
          \/ RootField(Made[i].spec.region) # Made[i].spec.region /\ out.resources[i] = lost
      BY <3>2, Zenon DEF Less
    <3> HIDE DEF t, lost, Nested
    <3>8. out.resources[i] = t \/ (Nested(Made, i) /\ out.resources[i] = lost)
      BY <3>6, <3>7
    <3> QED
      BY <3>8, Zenon DEF t, lost
  <2> DEFINE Same(made, inv) ==
                /\ inv.unmapped = input.unmapped
                /\ Len(inv.resources) = Len(made)
                /\ \A i \in DOMAIN made :
                    \/ inv.resources[i] = input.resources[i]
                    \/ /\ Nested(made, i)
                       /\ inv.resources[i] = [input.resources[i] EXCEPT !.region = ""]
             Mapped(reduced) == CheckPlanAttributes(Specs, reduced) = {}
  <2>8. Same(Made, out)
    BY <2>5, <2>6, <2>7, Zenon
  <2>9. Mapped(Reduce(Specs, source))
    BY <2>2
  <2> HIDE DEF Same, Mapped
  <2>10. NoSecretIsRead(Specs, source) => Reduce(Specs, source) = red
    BY <2>1, NothingIsScrubbed DEF red
  <2>11. \A made \in {Made} : \A reduced \in {Reduce(Specs, source)} :
            /\ Mapped(reduced)
            /\ NoSecretIsRead(Specs, source) =>
                  \A inv \in {Apply(Provider, Specs, ParsePlan(reduced))} : Same(made, inv)
    BY <2>8, <2>9, <2>10 DEF out
  <2> QED
    BY <2>11, Zenon DEF ReductionIsFaithful, Same, Mapped
<1> QED
  BY <1>1, SpecInv, SpecReadInv, PTL

-----------------------------------------------------------------------------
(* The buckets: what is kept of the answers of the storage, when a rule    *)
(* deviates on what was kept, and what a verdict asks for.                 *)

\* A boolean and a text are told from the others.
LEMMA BoolIs == ASSUME NEW x \in BOOLEAN PROVE (Bool(x) = Bool(TRUE) <=> x) /\ (Bool(x) = Bool(FALSE) <=> ~x)
<1>1. Bool(x).of[1] = IF x THEN "true" ELSE "false"
  BY DEF Bool, Val
<1>2. Bool(TRUE).of[1] = "true" /\ Bool(FALSE).of[1] = "false"
  BY DEF Bool, Val
<1>3. CASE x
  <2>1. x = TRUE
    BY <1>3
  <2> QED
    BY <1>1, <1>2, <1>3, <2>1
<1>4. CASE ~x
  <2>1. x = FALSE
    BY <1>4
  <2> QED
    BY <1>1, <1>2, <1>4, <2>1
<1> QED
  BY <1>3, <1>4

\* Two texts are told apart.
LEMMA TextIs == ASSUME NEW x, NEW y PROVE Text(x) = Text(y) <=> x = y
<1>1. Text(x).of[1] = x /\ Text(y).of[1] = y
  BY DEF Text, Val
<1> QED
  BY <1>1

\* The answer that an attribute is read from.
AnswerOf(b, a) == IF a = "name" THEN [state |-> "read", of |-> b.name] ELSE b.answers[AttrCall[a]]

\* A bucket keeps an attribute, and its attestation, when its call was answered.
LEMMA CollectedBucket ==
    ASSUME NEW provider, NEW region, NEW s3, NEW b, NEW r, r = CollectBucket(provider, region, s3, b)
    PROVE  /\ r.type = Bucket /\ r.name = b.name
           /\ DOMAIN r.attrs = {a \in DOMAIN AttrCall : Kept(a, s3, AnswerOf(b, a))}
           /\ DOMAIN r.prov = DOMAIN r.attrs
           /\ \A a \in DOMAIN r.attrs : r.attrs[a] = BucketValue(a, AnswerOf(b, a))
<1> DEFINE kept == {a \in DOMAIN AttrCall : Kept(a, s3, AnswerOf(b, a))}
<1>1. /\ r.type = Bucket /\ r.name = b.name
      /\ r.attrs = [a \in kept |-> BucketValue(a, AnswerOf(b, a))]
      /\ DOMAIN r.prov = kept
  BY DEF CollectBucket, AnswerOf
<1> HIDE DEF kept
<1>2. DOMAIN r.attrs = kept /\ \A a \in kept : r.attrs[a] = BucketValue(a, AnswerOf(b, a))
  BY <1>1
<1> QED
  BY <1>1, <1>2 DEF kept

\* The calls of the attributes.
LEMMA CallsAre ==
    /\ DOMAIN AttrCall = {"name", "acl_grants", "public_via_acl", "versioning", "policy_public", "tags",
                          "object_lock_enabled", "default_encryption_enabled", "sse_kms_enabled"}
    /\ AttrCall["acl_grants"] = "GetBucketAcl" /\ AttrCall["public_via_acl"] = "GetBucketAcl"
    /\ AttrCall["versioning"] = "GetBucketVersioning" /\ AttrCall["policy_public"] = "GetBucketPolicy"
    /\ AttrCall["tags"] = "GetBucketTagging"
    /\ AttrCall["object_lock_enabled"] = "GetObjectLockConfiguration"
    /\ AttrCall["default_encryption_enabled"] = "GetBucketEncryption"
    /\ AttrCall["sse_kms_enabled"] = "GetBucketEncryption"
  BY DEF AttrCall

\* What was kept of a bucket, call by call.
LEMMA AclIs ==
    ASSUME NEW provider, NEW region, NEW s3, NEW b, NEW r, r = CollectBucket(provider, region, s3, b),
           NEW answer, answer = b.answers["GetBucketAcl"]
    PROVE  /\ "acl_grants" \in DOMAIN r.attrs <=> answer.state = "read"
           /\ "public_via_acl" \in DOMAIN r.attrs <=> answer.state = "read"
           /\ answer.state = "read" => /\ r.attrs["acl_grants"] = ListOf(answer.of)
                                       /\ r.attrs["public_via_acl"] = Bool(IsACLPublic(answer.of))
<1>1. AnswerOf(b, "acl_grants") = answer /\ AnswerOf(b, "public_via_acl") = answer
  BY CallsAre DEF AnswerOf
<1>2. /\ Kept("acl_grants", s3, answer) <=> answer.state = "read"
      /\ Kept("public_via_acl", s3, answer) <=> answer.state = "read"
  BY DEF Kept
<1>3. /\ answer.state = "read" => BucketValue("acl_grants", answer) = ListOf(answer.of)
      /\ BucketValue("public_via_acl", answer) = Bool(IsACLPublic(answer.of))
  BY DEF BucketValue
<1> QED
  BY <1>1, <1>2, <1>3, CollectedBucket, CallsAre

\* The policy.
LEMMA PolicyIs ==
    ASSUME NEW provider, NEW region, NEW s3, NEW b, NEW r, r = CollectBucket(provider, region, s3, b),
           NEW answer, answer = b.answers["GetBucketPolicy"]
    PROVE  /\ "policy_public" \in DOMAIN r.attrs <=> answer.state = "read"
           /\ answer.state = "read" => r.attrs["policy_public"] = Bool(PolicyAllowsPublic(answer.of))
<1>1. AnswerOf(b, "policy_public") = answer
  BY CallsAre DEF AnswerOf
<1>2. Kept("policy_public", s3, answer) <=> answer.state = "read"
  BY DEF Kept
<1>3. BucketValue("policy_public", answer) = Bool(PolicyAllowsPublic(answer.of))
  BY DEF BucketValue
<1> QED
  BY <1>1, <1>2, <1>3, CollectedBucket, CallsAre

\* The versioning.
LEMMA VersioningIs ==
    ASSUME NEW provider, NEW region, NEW s3, NEW b, NEW r, r = CollectBucket(provider, region, s3, b),
           NEW answer, answer = b.answers["GetBucketVersioning"]
    PROVE  /\ "versioning" \in DOMAIN r.attrs <=> answer.state = "read"
           /\ answer.state = "read" => r.attrs["versioning"] = Text(answer.of)
<1>1. AnswerOf(b, "versioning") = answer
  BY CallsAre DEF AnswerOf
<1>2. Kept("versioning", s3, answer) <=> answer.state = "read"
  BY DEF Kept
<1>3. BucketValue("versioning", answer) = Text(answer.of)
  BY DEF BucketValue
<1> QED
  BY <1>1, <1>2, <1>3, CollectedBucket, CallsAre

\* The lock.
LEMMA LockIs ==
    ASSUME NEW provider, NEW region, NEW s3, NEW b, NEW r, r = CollectBucket(provider, region, s3, b),
           NEW answer, answer = b.answers["GetObjectLockConfiguration"]
    PROVE  /\ "object_lock_enabled" \in DOMAIN r.attrs <=> answer.state \in {"read", "unset"}
           /\ answer.state \in {"read", "unset"} =>
                r.attrs["object_lock_enabled"] = Bool(answer.state = "read" /\ answer.of)
<1>1. AnswerOf(b, "object_lock_enabled") = answer
  BY CallsAre DEF AnswerOf
<1>2. Kept("object_lock_enabled", s3, answer) <=> answer.state \in {"read", "unset"}
  BY DEF Kept, IsNotConfigured
<1>3. BucketValue("object_lock_enabled", answer) = Bool(answer.state = "read" /\ answer.of)
  BY DEF BucketValue
<1> QED
  BY <1>1, <1>2, <1>3, CollectedBucket, CallsAre

\* The encryption, with the keys where the storage has some.
LEMMA EncryptionIs ==
    ASSUME NEW provider, NEW region, NEW s3, IsStorage(s3), NEW b,
           NEW r, r = CollectBucket(provider, region, s3, b),
           NEW answer, answer = b.answers["GetBucketEncryption"]
    PROVE  /\ "default_encryption_enabled" \in DOMAIN r.attrs <=> answer.state \in {"read", "unset"}
           /\ "sse_kms_enabled" \in DOMAIN r.attrs <=> s3.sseKMS /\ answer.state \in {"read", "unset"}
           /\ answer.state \in {"read", "unset"} =>
                r.attrs["default_encryption_enabled"] = Bool(answer.state = "read" /\ answer.of # << >>)
           /\ s3.sseKMS /\ answer.state \in {"read", "unset"} =>
                r.attrs["sse_kms_enabled"] = Bool(answer.state = "read" /\ "aws:kms" \in ToSet(answer.of))
<1>1. AnswerOf(b, "default_encryption_enabled") = answer /\ AnswerOf(b, "sse_kms_enabled") = answer
  BY CallsAre DEF AnswerOf
<1>2. /\ Kept("default_encryption_enabled", s3, answer) <=> answer.state \in {"read", "unset"}
      /\ Kept("sse_kms_enabled", s3, answer) <=> s3.sseKMS /\ answer.state \in {"read", "unset"}
  BY DEF Kept, IsNotConfigured, IsStorage
<1>3. /\ BucketValue("default_encryption_enabled", answer) = Bool(answer.state = "read" /\ answer.of # << >>)
      /\ BucketValue("sse_kms_enabled", answer) =
            Bool(answer.state = "read" /\ "aws:kms" \in ToSet(answer.of))
  BY DEF BucketValue
<1> QED
  BY <1>1, <1>2, <1>3, CollectedBucket, CallsAre

\* The tags, where the storage keeps them.
LEMMA TagsAre ==
    ASSUME NEW provider, NEW region, NEW s3, IsStorage(s3), NEW b,
           NEW r, r = CollectBucket(provider, region, s3, b),
           NEW answer, answer = b.answers["GetBucketTagging"]
    PROVE  /\ "tags" \in DOMAIN r.attrs <=> s3.tagsPersisted /\ answer.state \in {"read", "unset"}
           /\ s3.tagsPersisted /\ answer.state \in {"read", "unset"} =>
                ToSet(r.attrs["tags"].of) = IF answer.state = "read" THEN ToSet(answer.of) ELSE {}
<1>1. AnswerOf(b, "tags") = answer
  BY CallsAre DEF AnswerOf
<1>2. Kept("tags", s3, answer) <=> s3.tagsPersisted /\ answer.state \in {"read", "unset"}
  BY DEF Kept, IsEmptyTagSet, IsStorage
<1>3. BucketValue("tags", answer) = ListOf(IF answer.state = "read" THEN answer.of ELSE << >>)
  BY DEF BucketValue
<1>4. ToSet(BucketValue("tags", answer).of) = IF answer.state = "read" THEN ToSet(answer.of) ELSE {}
  <2>1. BucketValue("tags", answer).of = IF answer.state = "read" THEN answer.of ELSE << >>
    BY <1>3 DEF ListOf, Val
  <2>2. ToSet(<< >>) = {}
    BY DEF ToSet
  <2> QED
    BY <2>1, <2>2
<1> QED
  BY <1>1, <1>2, <1>4, CollectedBucket, CallsAre
-----------------------------------------------------------------------------
(* The rules.                                                              *)

\* The public access is shown by the ACL or by the policy, when they were read.
LEMMA PublicAccessIs ==
    ASSUME NEW provider, NEW region, NEW s3, NEW b, NEW r, r = CollectBucket(provider, region, s3, b),
           NEW acl, acl = b.answers["GetBucketAcl"], NEW policy, policy = b.answers["GetBucketPolicy"]
    PROVE  PublicAccess(r.attrs) <=> \/ acl.state = "read" /\ IsACLPublic(acl.of)
                                     \/ policy.state = "read" /\ PolicyAllowsPublic(policy.of)
<1> DEFINE attrs == r.attrs
<1>1. /\ "acl_grants" \in DOMAIN attrs <=> acl.state = "read"
      /\ "public_via_acl" \in DOMAIN attrs <=> acl.state = "read"
      /\ acl.state = "read" => /\ attrs["acl_grants"] = ListOf(acl.of)
                               /\ attrs["public_via_acl"] = Bool(IsACLPublic(acl.of))
  BY AclIs
<1>2. /\ "policy_public" \in DOMAIN attrs <=> policy.state = "read"
      /\ policy.state = "read" => attrs["policy_public"] = Bool(PolicyAllowsPublic(policy.of))
  BY PolicyIs
<1>3. Bool(IsACLPublic(acl.of)) = Bool(TRUE) <=> IsACLPublic(acl.of)
  <2>1. IsACLPublic(acl.of) \in BOOLEAN
    BY DEF IsACLPublic
  <2> QED
    BY <2>1, BoolIs
<1>4. Bool(PolicyAllowsPublic(policy.of)) = Bool(TRUE) <=> PolicyAllowsPublic(policy.of)
  <2>1. PolicyAllowsPublic(policy.of) \in BOOLEAN
    BY DEF PolicyAllowsPublic
  <2> QED
    BY <2>1, BoolIs
<1>5. ListOf(acl.of).of = acl.of
  BY DEF ListOf, Val
<1> HIDE DEF attrs
<1>6. Truthy(attrs, "public_via_acl") <=> acl.state = "read" /\ IsACLPublic(acl.of)
  BY <1>1, <1>3 DEF Truthy
<1>7. Truthy(attrs, "policy_public") <=> policy.state = "read" /\ PolicyAllowsPublic(policy.of)
  BY <1>2, <1>4 DEF Truthy
<1>8. Among(attrs, "acl_grants", PublicGroups) <=> acl.state = "read" /\ IsACLPublic(acl.of)
  BY <1>1, <1>5 DEF Among, IsACLPublic
<1> QED
  BY <1>6, <1>7, <1>8 DEF PublicAccess, attrs

\* A versioning is wanting when it was read and is not enabled.
LEMMA NoVersioningIs ==
    ASSUME NEW provider, NEW region, NEW s3, NEW b, NEW r, r = CollectBucket(provider, region, s3, b),
           NEW answer, answer = b.answers["GetBucketVersioning"]
    PROVE  NoVersioning(r.attrs) <=> answer.state = "read" /\ answer.of # "Enabled"
<1>1. /\ "versioning" \in DOMAIN r.attrs <=> answer.state = "read"
      /\ answer.state = "read" => r.attrs["versioning"] = Text(answer.of)
  BY VersioningIs
<1> QED
  BY <1>1, TextIs DEF NoVersioning

\* A lock is wanting when the storage says that there is none, or that it is disabled.
LEMMA NoObjectLockIs ==
    ASSUME NEW provider, NEW region, NEW s3, NEW b, NEW r, r = CollectBucket(provider, region, s3, b),
           NEW answer, answer = b.answers["GetObjectLockConfiguration"]
    PROVE  NoObjectLock(r.attrs) <=> /\ answer.state \in {"read", "unset"}
                                     /\ ~(answer.state = "read" /\ answer.of)
<1> DEFINE locked == answer.state = "read" /\ answer.of
<1>1. /\ "object_lock_enabled" \in DOMAIN r.attrs <=> answer.state \in {"read", "unset"}
      /\ answer.state \in {"read", "unset"} => r.attrs["object_lock_enabled"] = Bool(locked)
  BY LockIs
<1>2. locked \in BOOLEAN
  OBVIOUS
<1> HIDE DEF locked
<1>3. Bool(locked) = Bool(FALSE) <=> ~locked
  BY <1>2, BoolIs
<1>4. NoObjectLock(r.attrs) <=> answer.state \in {"read", "unset"} /\ ~locked
  BY <1>1, <1>3 DEF NoObjectLock, Falsy
<1> QED
  BY <1>4 DEF locked

\* An encryption is wanting when the storage says that there is none.
LEMMA NoDefaultEncryptionIs ==
    ASSUME NEW provider, NEW region, NEW s3, IsStorage(s3), NEW b,
           NEW r, r = CollectBucket(provider, region, s3, b),
           NEW answer, answer = b.answers["GetBucketEncryption"]
    PROVE  NoDefaultEncryption(r.attrs) <=> /\ answer.state \in {"read", "unset"}
                                            /\ ~(answer.state = "read" /\ answer.of # << >>)
<1> DEFINE some == answer.state = "read" /\ answer.of # << >>
<1>1. /\ "default_encryption_enabled" \in DOMAIN r.attrs <=> answer.state \in {"read", "unset"}
      /\ answer.state \in {"read", "unset"} => r.attrs["default_encryption_enabled"] = Bool(some)
  BY EncryptionIs
<1>2. some \in BOOLEAN
  OBVIOUS
<1> HIDE DEF some
<1>3. Bool(some) = Bool(FALSE) <=> ~some
  BY <1>2, BoolIs
<1>4. NoDefaultEncryption(r.attrs) <=> answer.state \in {"read", "unset"} /\ ~some
  BY <1>1, <1>3 DEF NoDefaultEncryption, Falsy
<1> QED
  BY <1>4 DEF some

\* A key is wanting when the storage has keys, names none of its own for the bucket, and a tag
\* that was read says that the data is sensitive.
LEMMA NoKMSEncryptionIs ==
    ASSUME NEW provider, NEW region, NEW s3, IsStorage(s3), NEW b,
           NEW r, r = CollectBucket(provider, region, s3, b),
           NEW enc, enc = b.answers["GetBucketEncryption"], NEW tags, tags = b.answers["GetBucketTagging"]
    PROVE  NoKMSEncryption(r.attrs) <=>
                /\ s3.sseKMS /\ enc.state \in {"read", "unset"}
                /\ ~(enc.state = "read" /\ "aws:kms" \in ToSet(enc.of))
                /\ s3.tagsPersisted /\ tags.state = "read" /\ ToSet(tags.of) \cap Sensitive # {}
<1> DEFINE ours == enc.state = "read" /\ "aws:kms" \in ToSet(enc.of)
           attrs == r.attrs
<1>1. /\ "sse_kms_enabled" \in DOMAIN attrs <=> s3.sseKMS /\ enc.state \in {"read", "unset"}
      /\ s3.sseKMS /\ enc.state \in {"read", "unset"} => attrs["sse_kms_enabled"] = Bool(ours)
  BY EncryptionIs
<1>2. ours \in BOOLEAN
  OBVIOUS
<1>3. /\ "tags" \in DOMAIN attrs <=> s3.tagsPersisted /\ tags.state \in {"read", "unset"}
      /\ s3.tagsPersisted /\ tags.state \in {"read", "unset"} =>
           ToSet(attrs["tags"].of) = IF tags.state = "read" THEN ToSet(tags.of) ELSE {}
  BY TagsAre
<1> HIDE DEF ours, attrs
<1>4. Bool(ours) = Bool(FALSE) <=> ~ours
  BY <1>2, BoolIs
<1>5. Falsy(attrs, "sse_kms_enabled") <=> s3.sseKMS /\ enc.state \in {"read", "unset"} /\ ~ours
  BY <1>1, <1>4 DEF Falsy
<1>6. Among(attrs, "tags", Sensitive)
        <=> s3.tagsPersisted /\ tags.state = "read" /\ ToSet(tags.of) \cap Sensitive # {}
  BY <1>3 DEF Among
<1> QED
  BY <1>5, <1>6 DEF NoKMSEncryption, ours, attrs

-----------------------------------------------------------------------------
(* The verdict.                                                            *)

BucketsIn(resources) == {r \in ToSet(resources) : r.type = Bucket}
Named(buckets, n) == CHOOSE r \in buckets : r.name = n

\* A control passes when some attribute that decides it was read or sought on every bucket; the
\* control of the tags never does.
LEMMA PassAsks ==
    ASSUME NEW c \in BucketControls, NEW resources, NEW tagged, NEW required,
           BucketStatus(c, resources, tagged, required) = "pass"
    PROVE  /\ c # TagsControl
           /\ \E a \in Decides[c] : \A n \in {r.name : r \in BucketsIn(resources)} \cap BucketNames :
                LET r == Named(BucketsIn(resources), n) IN a \in DOMAIN r.attrs \cup DOMAIN r.prov
<1> DEFINE Bs == BucketsIn(resources)
           inv == BucketInventory(Bs)
           names == {r.name : r \in Bs}
           types == Guard!ResourceTypesOf(inv)
           byType == Guard!AttrsByTypeOf(inv)
<1>1. Guard!Verified(c) /\ Guard!AttrCollected(c, types, byType)
  BY DEF BucketStatus, BucketsIn
<1>2. c # TagsControl
  <2>1. ASSUME c = TagsControl PROVE ~Guard!Verified(c)
    BY <2>1 DEF Guard!Verified, Guard!ControlTypes, BucketControls
  <2> QED
    BY <1>1, <2>1
<1>3. Bucket # ""
  BY DEF Bucket
<1>4. /\ inv.present = names
      /\ \A n \in names : inv.sought[n] = DOMAIN Named(Bs, n).prov
      /\ \A n \in names : \A a \in DOMAIN AttrCall :
            inv.value[n][a] = "value" => a \in DOMAIN Named(Bs, n).attrs
  BY DEF BucketInventory, Named
<1> HIDE DEF Bs, inv
<1>5. \E a \in Decides[c] : a \in byType[Bucket]
  <2> HIDE DEF types, byType
  <2>1. Guard!TypesInScope(c, types) = {Bucket}
    BY <1>2, <1>3 DEF Guard!TypesInScope
  <2>2. Bucket \in Guard!DecidedTypes(c, types)
    BY <1>2, <2>1 DEF Guard!DecidedTypes
  <2>3. Guard!DecidingByType(c, Bucket, types) \subseteq Decides[c]
    BY <1>2, <2>1 DEF Guard!DecidingByType
  <2>4. Guard!AttrsOnType(c, Bucket, Guard!DecidingByType(c, Bucket, types), byType)
    BY <1>1, <1>2, <2>2 DEF Guard!AttrCollected
  <2> QED
    BY <2>3, <2>4 DEF Guard!AttrsOnType
<1>6. PICK a \in Decides[c] : a \in byType[Bucket]
  BY <1>5
<1>7. ASSUME NEW n \in names \cap BucketNames
      PROVE  a \in DOMAIN Named(Bs, n).attrs \cup DOMAIN Named(Bs, n).prov
  <2>1. n \in Guard!ResourcesOf(inv, Bucket)
    BY <1>4, <1>7 DEF Guard!ResourcesOf
  <2>2. a \in DOMAIN AttrCall /\ a \in Guard!ObservedOn(inv, n)
    BY <1>6, <2>1 DEF Guard!AttrsByTypeOf
  <2>3. inv.value[n][a] = "value" \/ a \in inv.sought[n]
    BY <2>2 DEF Guard!ObservedOn
  <2> QED
    BY <1>4, <1>7, <2>2, <2>3
<1> QED
  BY <1>2, <1>6, <1>7 DEF Bs

-----------------------------------------------------------------------------
(* The buckets of a scan.                                                  *)

\* The states in which the answers on a bucket may be.
LEMMA StatesOfAnswers ==
    ASSUME NEW b, IsBucket(b)
    PROVE  /\ b.answers["GetBucketAcl"].state \in {"read", "refused"}
           /\ b.answers["GetBucketVersioning"].state \in {"read", "refused"}
           /\ b.answers["GetBucketPolicy"].state \in {"read", "unset", "refused"}
           /\ b.answers["GetBucketTagging"].state \in {"read", "unset", "refused"}
           /\ b.answers["GetObjectLockConfiguration"].state \in {"read", "unset", "refused"}
           /\ b.answers["GetBucketEncryption"].state \in {"read", "unset", "refused"}
<1>1. {"GetBucketAcl", "GetBucketVersioning", "GetBucketPolicy", "GetBucketTagging",
       "GetObjectLockConfiguration", "GetBucketEncryption"} \subseteq CallsOfABucket
  BY CallsAre DEF CallsOfABucket
<1> QED
  BY <1>1 DEF IsBucket

\* A rule deviates on what was kept of a bucket when the answers on it show the deviation.
LEMMA DeviationIsShown ==
    ASSUME NEW b, IsBucket(b), IsStorage(run.source.s3), NEW region,
           NEW r, r = CollectBucket(Provider, region, run.source.s3, b),
           NEW c \in BucketControls, c # TagsControl
    PROVE  Deviates(c, r.attrs) <=> Shown(c, b)
<1> DEFINE acl == b.answers["GetBucketAcl"]
           policy == b.answers["GetBucketPolicy"]
           versioning == b.answers["GetBucketVersioning"]
           lock == b.answers["GetObjectLockConfiguration"]
           enc == b.answers["GetBucketEncryption"]
           tags == b.answers["GetBucketTagging"]
<1>1. CASE c = "objectstorage_bucket_public_access"
  <2>1. Deviates(c, r.attrs) <=> \/ acl.state = "read" /\ IsACLPublic(acl.of)
                                 \/ policy.state = "read" /\ PolicyAllowsPublic(policy.of)
    BY <1>1, PublicAccessIs DEF Deviates
  <2>2. IsACLPublic(acl.of) <=> \E i \in DOMAIN acl.of : acl.of[i] \in PublicGroups
    BY DEF IsACLPublic, ToSet
  <2>3. Shown(c, b) <=> \/ acl.state = "read" /\ \E i \in DOMAIN acl.of : acl.of[i] \in PublicGroups
                        \/ policy.state = "read" /\ PolicyAllowsPublic(policy.of)
    BY <1>1 DEF Shown, Said, PolicyAllowsPublic, StatementIsPublic
  <2> QED
    BY <2>1, <2>2, <2>3
<1>2. CASE c = "objectstorage_bucket_versioning_enabled"
  <2>1. Deviates(c, r.attrs) <=> versioning.state = "read" /\ versioning.of # "Enabled"
    BY <1>2, NoVersioningIs DEF Deviates
  <2>2. Shown(c, b) <=> /\ versioning.state # "refused"
                        /\ ~(versioning.state = "read" /\ versioning.of = "Enabled")
    BY <1>2 DEF Shown, Said, Answered
  <2> QED
    BY <2>1, <2>2, StatesOfAnswers
<1>3. CASE c = "objectstorage_bucket_object_lock_enabled"
  <2>1. Deviates(c, r.attrs) <=> lock.state \in {"read", "unset"} /\ ~(lock.state = "read" /\ lock.of)
    BY <1>3, NoObjectLockIs DEF Deviates
  <2>2. Shown(c, b) <=> lock.state # "refused" /\ ~(lock.state = "read" /\ lock.of)
    BY <1>3 DEF Shown, Said, Answered
  <2> QED
    BY <2>1, <2>2, StatesOfAnswers
<1>4. CASE c = "objectstorage_bucket_default_encryption"
  <2>1. Deviates(c, r.attrs) <=> enc.state \in {"read", "unset"} /\ ~(enc.state = "read" /\ enc.of # << >>)
    BY <1>4, NoDefaultEncryptionIs DEF Deviates
  <2>2. Shown(c, b) <=> enc.state # "refused" /\ ~(enc.state = "read" /\ enc.of # << >>)
    BY <1>4 DEF Shown, Said, Answered
  <2> QED
    BY <2>1, <2>2, StatesOfAnswers
<1>5. CASE c = "objectstorage_bucket_kms_encryption"
  <2>1. Deviates(c, r.attrs) <=>
            /\ run.source.s3.sseKMS /\ enc.state \in {"read", "unset"}
            /\ ~(enc.state = "read" /\ "aws:kms" \in ToSet(enc.of))
            /\ run.source.s3.tagsPersisted /\ tags.state = "read" /\ ToSet(tags.of) \cap Sensitive # {}
    BY <1>5, NoKMSEncryptionIs DEF Deviates
  <2>2. /\ "aws:kms" \in ToSet(enc.of) <=> \E i \in DOMAIN enc.of : enc.of[i] = "aws:kms"
        /\ ToSet(tags.of) \cap Sensitive # {} <=> \E i \in DOMAIN tags.of : tags.of[i] \in Sensitive
    BY DEF ToSet
  <2>3. Shown(c, b) <=>
            /\ run.source.s3.sseKMS /\ run.source.s3.tagsPersisted
            /\ enc.state # "refused" /\ ~(enc.state = "read" /\ \E i \in DOMAIN enc.of : enc.of[i] = "aws:kms")
            /\ tags.state = "read" /\ \E i \in DOMAIN tags.of : tags.of[i] \in Sensitive
    BY <1>5 DEF Shown, Said, Answered
  <2> HIDE DEF enc, tags
  <2>4. enc.state \in {"read", "unset", "refused"}
    BY StatesOfAnswers DEF enc
  <2> QED
    BY <2>1, <2>2, <2>3, <2>4
<1> QED
  BY <1>1, <1>2, <1>3, <1>4, <1>5 DEF BucketControls
\* The buckets of the document of a live scan are those that the storage listed.
LEMMA BucketsAreListed ==
    ASSUME FrontInv, ReadInv, OfLive
    PROVE  /\ IsLive(run.source)
           /\ \E region : BucketsIn(input.resources)
                = {CollectBucket(Provider, region, run.source.s3, b) : b \in Listed}
<1>1. IsLive(run.source)
  BY LiveReady
<1>2. PICK c \in ResolveCreds(run.source, run.flags.region) :
            input.resources \in {LiveResourcesOf(run.source, c),
                                 Append(LiveResourcesOf(run.source, c), GovernanceResourceIn(run.flags.region))}
  BY LiveReady
<1> DEFINE items == MapItems(Provider, LiveSpec, run.source.items, c[RegionKey], "api")
           region == c["region"]
           buckets == CollectBuckets(Provider, region, run.source.s3, run.source.buckets)
           read == items \o buckets
           gov == GovernanceResourceIn(run.flags.region)
<1>3. /\ DOMAIN items = DOMAIN run.source.items
      /\ items = [i \in DOMAIN items |-> items[i]]
      /\ \A i \in DOMAIN items : items[i].type = LiveSpec.type
  BY DEF MapItems
<1>4. /\ DOMAIN buckets = DOMAIN run.source.buckets
      /\ buckets = [i \in DOMAIN buckets |-> buckets[i]]
      /\ \A i \in DOMAIN buckets :
            buckets[i] = CollectBucket(Provider, region, run.source.s3, run.source.buckets[i])
  BY DEF CollectBuckets
<1>5. gov.type = "governance_provider"
  BY DEF GovernanceResourceIn
<1> HIDE DEF items, buckets, gov, region
<1>6. IsSequence(items) /\ IsSequence(buckets)
  <2>1. IsSequence(run.source.items) /\ IsSequence(run.source.buckets)
    BY <1>1 DEF IsLive
  <2> QED
    BY <1>3, <1>4, <2>1, SameDomain
<1>7. IsSequence(read) /\ ToSet(read) = ToSet(items) \cup ToSet(buckets)
  BY <1>6, ConcatIsSequence
<1>8. input.resources \in {read, Append(read, gov)}
  BY <1>2 DEF LiveResourcesOf, items, buckets, gov, region
<1> HIDE DEF read
<1>9. ToSet(input.resources) \in {ToSet(read), ToSet(read) \cup {gov}}
  BY <1>7, <1>8, AppendedIs
<1>10. \A r \in ToSet(items) \cup {gov} : r.type # Bucket
  BY <1>3, <1>5, DescriptorAssumption DEF ToSet, Bucket
<1>11. ToSet(buckets) = {CollectBucket(Provider, region, run.source.s3, b) : b \in Listed}
  BY <1>4 DEF ToSet, Listed
<1>12. \A r \in ToSet(buckets) : r.type = Bucket
  BY <1>4, CollectedBucket DEF ToSet
<1>13. BucketsIn(input.resources) = ToSet(buckets)
  BY <1>7, <1>9, <1>10, <1>12 DEF BucketsIn
<1> QED
  BY <1>1, <1>11, <1>13

\* A bucket misses the tags when some answer shows it, or when its own tags were refused and
\* those of another were not.
LEMMA MissedTagsAreShown ==
    ASSUME IsLive(run.source), NEW region,
           BucketsIn(input.resources) = {CollectBucket(Provider, region, run.source.s3, b) : b \in Listed},
           NEW b \in Listed, NEW r, r = CollectBucket(Provider, region, run.source.s3, b)
    PROVE  /\ Shown(TagsControl, b) => MissesTags(input.resources, r, Tagged, Required)
           /\ MissesTags(input.resources, r, Tagged, Required) =>
                \/ Shown(TagsControl, b)
                \/ ~Answered(b, "GetBucketTagging") /\ \E n \in Listed : Answered(n, "GetBucketTagging")
<1> DEFINE s3 == run.source.s3
           tags == b.answers["GetBucketTagging"]
           borne == IF "tags" \in DOMAIN r.attrs THEN ToSet(r.attrs["tags"].of) ELSE {}
           exposed == \E i \in DOMAIN input.resources :
                        input.resources[i].type = r.type /\ "tags" \in DOMAIN input.resources[i].attrs
<1>1. MissesTags(input.resources, r, Tagged, Required) <=>
        r.type \in Tagged /\ exposed /\ \E i \in DOMAIN Required : borne \cap Required[i] = {}
  BY DEF MissesTags
<1>2. Shown(TagsControl, b) <=>
        /\ Bucket \in Tagged /\ s3.tagsPersisted /\ tags.state # "refused"
        /\ \E i \in DOMAIN Required : tags.state = "unset" \/ ToSet(tags.of) \cap Required[i] = {}
  BY DEF Shown, Answered, TagsControl
<1>3. IsStorage(s3) /\ IsBucket(b)
  BY DEF IsLive, Listed
<1>4. /\ "tags" \in DOMAIN r.attrs <=> s3.tagsPersisted /\ tags.state \in {"read", "unset"}
      /\ s3.tagsPersisted /\ tags.state \in {"read", "unset"} =>
            ToSet(r.attrs["tags"].of) = IF tags.state = "read" THEN ToSet(tags.of) ELSE {}
  BY <1>3, TagsAre
<1>5. r.type = Bucket /\ r \in BucketsIn(input.resources)
  BY CollectedBucket
<1>6. tags.state \in {"read", "unset", "refused"}
  BY <1>3, StatesOfAnswers
<1>7. "tags" \in DOMAIN r.attrs => exposed
  BY <1>5 DEF BucketsIn, ToSet
<1>8. ASSUME exposed PROVE \E n \in Listed : Answered(n, "GetBucketTagging") /\ s3.tagsPersisted
  <2>1. PICK x \in BucketsIn(input.resources) : "tags" \in DOMAIN x.attrs
    BY <1>5, <1>8 DEF BucketsIn, ToSet
  <2>2. PICK n \in Listed : x = CollectBucket(Provider, region, s3, n)
    BY <2>1
  <2>3. s3.tagsPersisted /\ n.answers["GetBucketTagging"].state \in {"read", "unset"}
    BY <1>3, <2>1, <2>2, TagsAre
  <2> QED
    BY <2>3 DEF Answered
<1> HIDE DEF tags, exposed, s3
<1>9. ASSUME Shown(TagsControl, b) PROVE MissesTags(input.resources, r, Tagged, Required)
  <2>1. tags.state \in {"read", "unset"} /\ s3.tagsPersisted
    BY <1>2, <1>6, <1>9
  <2>2. borne = IF tags.state = "read" THEN ToSet(tags.of) ELSE {}
    BY <1>4, <2>1
  <2> HIDE DEF borne
  <2>3. \E i \in DOMAIN Required : borne \cap Required[i] = {}
    BY <1>2, <1>6, <1>9, <2>1, <2>2
  <2> QED
    BY <1>1, <1>2, <1>4, <1>5, <1>7, <1>9, <2>1, <2>3
<1>10. ASSUME MissesTags(input.resources, r, Tagged, Required), tags.state # "refused"
       PROVE  Shown(TagsControl, b)
  <2>1. tags.state \in {"read", "unset"} /\ s3.tagsPersisted
    BY <1>1, <1>6, <1>8, <1>10
  <2>2. borne = IF tags.state = "read" THEN ToSet(tags.of) ELSE {}
    BY <1>4, <2>1
  <2> HIDE DEF borne
  <2> QED
    BY <1>1, <1>2, <1>5, <1>10, <2>1, <2>2
<1> QED
  BY <1>1, <1>8, <1>9, <1>10 DEF Answered, tags

\* The findings of a control on the buckets are those that the answers show.
LEMMA FindingsAreShown ==
    ASSUME IsLive(run.source), NEW region,
           BucketsIn(input.resources) = {CollectBucket(Provider, region, run.source.s3, b) : b \in Listed},
           NEW c \in BucketControls, NEW b \in Listed
    PROVE  /\ Shown(c, b) => b.name \in SubjectsOf(c)
           /\ b.name \in SubjectsOf(c) =>
                \/ Shown(c, b)
                \/ c = TagsControl /\ ~Answered(b, "GetBucketTagging")
                    /\ \E n \in Listed : Answered(n, "GetBucketTagging")
<1> DEFINE Of(x) == CollectBucket(Provider, region, run.source.s3, x)
           Failing(r) == IF c = TagsControl THEN MissesTags(input.resources, r, Tagged, Required)
                         ELSE Deviates(c, r.attrs)
<1>1. SubjectsOf(c) = {r.name : r \in {r \in BucketsIn(input.resources) : Failing(r)}}
  BY DEF SubjectsOf, BucketFindings, BucketsIn
<1>2. \A x \in Listed : Of(x).name = x.name /\ Of(x) \in BucketsIn(input.resources)
  BY CollectedBucket
<1>3. ASSUME b.name \in SubjectsOf(c) PROVE Failing(Of(b))
  <2> HIDE DEF Failing
  <2>1. PICK r \in BucketsIn(input.resources) : Failing(r) /\ r.name = b.name
    BY <1>1, <1>3
  <2>2. PICK x \in Listed : r = Of(x)
    BY <2>1
  <2>3. x.name = b.name
    BY <1>2, <2>1, <2>2
  <2>4. x = b
    BY <2>3 DEF IsLive, Listed
  <2> QED
    BY <2>1, <2>2, <2>4
<1>4. Failing(Of(b)) => b.name \in SubjectsOf(c)
  <2> HIDE DEF Failing, Of
  <2> QED
    BY <1>1, <1>2
<1>5. PICK r : r = Of(b)
  OBVIOUS
<1>6. IsStorage(run.source.s3) /\ IsBucket(b)
  BY DEF IsLive, Listed
<1>7. CASE c = TagsControl
  <2>1. /\ Shown(c, b) => Failing(r)
        /\ Failing(r) => \/ Shown(c, b)
                         \/ ~Answered(b, "GetBucketTagging") /\ \E n \in Listed : Answered(n, "GetBucketTagging")
    BY <1>5, <1>7, MissedTagsAreShown
  <2> HIDE DEF Failing
  <2> QED
    BY <1>3, <1>4, <1>5, <1>7, <2>1
<1>8. CASE c # TagsControl
  <2>1. Shown(c, b) <=> Failing(r)
    BY <1>5, <1>6, <1>8, DeviationIsShown
  <2> HIDE DEF Failing
  <2> QED
    BY <1>3, <1>4, <1>5, <2>1
<1> QED
  BY <1>7, <1>8
\* The call of an attribute that decides a control is one that the control is guarded by, and
\* it was answered when the attribute was kept.
LEMMA DecidingIsAnswered ==
    ASSUME NEW b, NEW region, IsStorage(run.source.s3),
           NEW r, r = CollectBucket(Provider, region, run.source.s3, b),
           NEW c \in BucketControls, c # TagsControl,
           NEW a \in Decides[c], a \in DOMAIN r.attrs, NEW call \in Guarded[c]
    PROVE  Answered(b, call)
<1>1. CASE c = "objectstorage_bucket_public_access"
  <2>1. a \in {"acl_grants", "public_via_acl"} /\ call = "GetBucketAcl"
    BY <1>1 DEF Decides, Guarded
  <2> QED
    BY <2>1, AclIs DEF Answered
<1>2. CASE c = "objectstorage_bucket_versioning_enabled"
  <2>1. a = "versioning" /\ call = "GetBucketVersioning"
    BY <1>2 DEF Decides, Guarded
  <2> QED
    BY <2>1, VersioningIs DEF Answered
<1>3. CASE c = "objectstorage_bucket_object_lock_enabled"
  <2>1. a = "object_lock_enabled" /\ call = "GetObjectLockConfiguration"
    BY <1>3 DEF Decides, Guarded
  <2> QED
    BY <2>1, LockIs DEF Answered
<1>4. CASE c \in {"objectstorage_bucket_default_encryption", "objectstorage_bucket_kms_encryption"}
  <2>1. a \in {"default_encryption_enabled", "sse_kms_enabled"} /\ call = "GetBucketEncryption"
    BY <1>4 DEF Decides, Guarded, TagsControl
  <2> QED
    BY <2>1, EncryptionIs DEF Answered
<1> QED
  BY <1>1, <1>2, <1>3, <1>4 DEF BucketControls

\* The verdicts on the buckets are those of the answers of the storage, whatever it lists, lacks
\* and refuses: a deviation that is shown fails, what fails is shown on that very bucket, and a
\* pass was answered on every bucket (internal/objectstorage/s3.go:225).
THEOREM BucketVerdictsAreEarned == Spec => []BucketVerdictsAreRead
<1>1. FrontInv /\ ReadInv => BucketVerdictsAreRead
  <2> SUFFICES ASSUME FrontInv, ReadInv, OfLive, NEW c \in BucketControls
               PROVE  \A verdict \in {StatusOf(c)} :
                /\ \A b \in Listed : Shown(c, b) => verdict = "fail" /\ b.name \in SubjectsOf(c)
                /\ \A b \in Listed : b.name \in SubjectsOf(c) =>
                    \/ Shown(c, b)
                    \/ c = TagsControl /\ ~Answered(b, "GetBucketTagging")
                        /\ \E n \in Listed : Answered(n, "GetBucketTagging")
                /\ verdict = "pass" => \A b \in Listed : \A call \in Guarded[c] : Answered(b, call)
    BY DEF BucketVerdictsAreRead
  <2>1. PICK region : BucketsIn(input.resources)
                        = {CollectBucket(Provider, region, run.source.s3, b) : b \in Listed}
    BY BucketsAreListed
  <2>2. IsLive(run.source)
    BY BucketsAreListed
  <2>3. ASSUME NEW b \in Listed
        PROVE  /\ Shown(c, b) => b.name \in SubjectsOf(c)
               /\ b.name \in SubjectsOf(c) =>
                    \/ Shown(c, b)
                    \/ c = TagsControl /\ ~Answered(b, "GetBucketTagging")
                        /\ \E n \in Listed : Answered(n, "GetBucketTagging")
    BY <2>1, <2>2, FindingsAreShown
  <2>4. SubjectsOf(c) # {} => StatusOf(c) = "fail"
    BY DEF SubjectsOf, StatusOf, BucketStatus
  <2>5. ASSUME StatusOf(c) = "pass", NEW b \in Listed, NEW call \in Guarded[c] PROVE Answered(b, call)
    <3> DEFINE Of(x) == CollectBucket(Provider, region, run.source.s3, x)
               Bs == BucketsIn(input.resources)
    <3>1. PICK a \in Decides[c] : \A n \in {r.name : r \in Bs} \cap BucketNames :
                a \in DOMAIN Named(Bs, n).attrs \cup DOMAIN Named(Bs, n).prov
      BY <2>5, PassAsks DEF StatusOf
    <3>2. c # TagsControl
      BY <2>5, PassAsks DEF StatusOf
    <3>3. IsStorage(run.source.s3) /\ \A x \in Listed : IsBucket(x)
      BY <2>2 DEF IsLive, Listed
    <3>4. \A x \in Listed : /\ Of(x) \in Bs /\ Of(x).name = x.name
                            /\ DOMAIN Of(x).prov = DOMAIN Of(x).attrs
      BY <2>1, CollectedBucket
    <3>5. b.name \in {r.name : r \in Bs} \cap BucketNames
      <4> HIDE DEF Bs
      <4>1. Of(b) \in Bs /\ Of(b).name = b.name
        BY <3>4
      <4> HIDE DEF Of
      <4> QED
        BY <3>3, <4>1 DEF IsBucket
    <3>6. Named(Bs, b.name) = Of(b)
      <4>1. ASSUME NEW r \in Bs, r.name = b.name PROVE r = Of(b)
        <5>1. PICK x \in Listed : r = Of(x)
          BY <2>1
        <5>2. x.name = b.name
          BY <3>4, <4>1, <5>1
        <5>3. x = b
          BY <2>2, <5>2 DEF IsLive, Listed
        <5> QED
          BY <5>1, <5>3
      <4>2. Of(b) \in Bs /\ Of(b).name = b.name
        BY <3>4
      <4> HIDE DEF Bs, Of
      <4> QED
        BY <4>1, <4>2 DEF Named
    <3>7. PICK r : r = Of(b)
      OBVIOUS
    <3>8. a \in DOMAIN r.attrs
      <4> HIDE DEF Bs, Of
      <4> QED
        BY <3>1, <3>4, <3>5, <3>6, <3>7
    <3> QED
      BY <3>2, <3>3, <3>7, <3>8, DecidingIsAnswered
  <2> QED
    BY <2>3, <2>4, <2>5
<1> QED
  BY <1>1, SpecInv, SpecReadInv, PTL
=============================================================================

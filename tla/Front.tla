-------------------------------- MODULE Front --------------------------------
(***************************************************************************)
(* The front half of a scan, from the flags to the document that the rules *)
(* evaluate: the policy is loaded, the input is read from an API, a plan   *)
(* or an export, the document is completed with the sovereignty of the     *)
(* provider, the instant and the configuration, and what the configuration *)
(* relaxes is drawn from the document.  The document of a scan that is     *)
(* ready may then be replayed, as an export, under other flags.            *)
(*                                                                         *)
(* A document is [shape, provider, kind, resources, unmapped,              *)
(* evaluated_at, config]; the last two hold at most one element.           *)
(***************************************************************************)
EXTENDS Settings, Plan, Buckets

CONSTANTS
    Invocations,    \* [mode, flags, source] of the first scan
    Replays,        \* the flags [policy, region, instant] of the replays
    Provider, RegionKey, NeedsKeys, WeakSecrets,
    CredDefaults,   \* [logical -> text]
    Template,       \* [text -> [region -> text]]
    LiveSpec,       \* the specification of the items of the API
    Specs,          \* mapping_terraform
    Souverainete,   \* [declared, secnumcloud, regions]
    Subjects        \* [parameter -> what the rules may be asked about]

VARIABLES
    phase,      \* start, configured, loaded, augmented, ready or refused
    run,        \* the invocation
    resolved,   \* the profile that the policy resolves to
    input,      \* the document
    relaxed,    \* [control -> relaxed parameters]
    sealed      \* what the first scan evaluated, at most one

vars == <<phase, run, resolved, input, relaxed, sealed>>

Logical == {"access_key", "secret_key", "region", "zone"}
NoDocument == [shape |-> "none"]
NoneRelaxed == [control \in DOMAIN Constraints |-> {}]

-----------------------------------------------------------------------------
(* The credentials of a live scan.  A source is [env, profile, file,       *)
(* items, s3, buckets]; the file, when there is one, is [format, default,  *)
(* profiles].                                                              *)

NoCreds == [k \in Logical |-> ""]
Fill(creds, more) == [k \in Logical |-> IF creds[k] = "" THEN more[k] ELSE creds[k]]

(* loadCredFile: the set of what it gives, empty when it refuses           *)
LoadCredFile(file, profile) ==
    LET f == CHOOSE f \in file : TRUE
        want == IF profile = "" THEN f.default ELSE profile
    IN  IF file = {} THEN {NoCreds}
        ELSE IF want \in DOMAIN f.profiles THEN {f.profiles[want]}
        ELSE IF profile = "" /\ f.format = "exoscale" THEN {NoCreds} ELSE {}

(* (mutant) the flag comes after the environment and the file               *)
ResolveCredsFlagLast(source, region) ==
    LET more == UNION {LoadCredFile(f, source.profile) : f \in {source.file}}
    IN  {Fill(Fill(Fill(source.env, m), [NoCreds EXCEPT ![RegionKey] = region]), CredDefaults) : m \in more}

(* resolveCreds and buildAuth: the set of the credentials of the scan      *)
ResolveCreds(source, region) ==
    LET flagged == IF region = "" THEN source.env ELSE [source.env EXCEPT ![RegionKey] = region]
        Missing(c) == c["access_key"] = "" \/ c["secret_key"] = ""
        read == IF Missing(flagged)
                THEN {Fill(flagged, more) : more \in LoadCredFile(source.file, source.profile)}
                ELSE {flagged}
        filled == {Fill(c, CredDefaults) : c \in read}
        Subst(c) == [k \in Logical |->
                        IF c[k] \in DOMAIN Template THEN Template[c[k]][c["region"]] ELSE c[k]]
    IN  {c \in {Subst(c) : c \in filled} :
            NeedsKeys => ~Missing(c) /\ c["secret_key"] \notin WeakSecrets}

Document(resources, unmapped) ==
    [shape |-> "object", provider |-> Provider, kind |-> "array", resources |-> resources,
     unmapped |-> unmapped, evaluated_at |-> {}, config |-> {}]
NoneUnmapped == [t \in {} |-> 0]

-----------------------------------------------------------------------------
(* The export.                                                             *)

CheckIsInventory(doc) == doc.shape = "object" /\ doc.kind # "none"
CheckProviderMatches(doc) ==
    /\ doc.provider \in {"", Provider}
    /\ \A i \in DOMAIN doc.resources : doc.resources[i].provider \in {"", Provider}

(* loadInput: the set of what it reads, empty when it refuses              *)
LoadInput(mode, source, region) ==
    CASE mode = "live" ->
            {Document(MapItems(Provider, LiveSpec, source.items, c[RegionKey], "api")
                        \o CollectBuckets(Provider, c["region"], source.s3, source.buckets), NoneUnmapped) :
                c \in ResolveCreds(source, region)}
      [] mode = "plan" ->
            IF source.readable
            THEN {Document(inv.resources, inv.unmapped) :
                    inv \in {Apply(Provider, Specs, ParsePlan(source))}}
            ELSE {}
      [] mode = "export" ->
            {doc \in {source} : CheckIsInventory(doc) /\ CheckProviderMatches(doc)}

-----------------------------------------------------------------------------
(* The sovereignty of the provider.                                        *)

(* A qualification holds for its regions, when it says which they are      *)
SecNumCloudPour(region) ==
    LET s == Souverainete IN
    IF s.secnumcloud # "qualifie" \/ s.regions = <<>> THEN s.secnumcloud
    ELSE IF region = "" THEN "perimetre_inconnu"
    ELSE IF region \in ToSet(s.regions) THEN "qualifie" ELSE "hors_perimetre"

(* The synthetic resource, with the region that withGovernance then gives it *)
GovernanceResourceIn(region) ==
    LET attrs == [secnumcloud |-> Text(SecNumCloudPour(region)),
                  secnumcloud_regions |-> ListOf(Souverainete.regions)]
    IN  [provider |-> Provider, type |-> "governance_provider", id |-> Provider,
         name |-> Provider, region |-> region, attrs |-> attrs,
         prov |-> [a \in DOMAIN attrs |->
                    Attestation("derived", "descriptor:souverainete", FALSE, TRUE)],
         source |-> NoSource]

Sovereigns(resources) == {i \in DOMAIN resources : resources[i].type = "governance_provider"}
HasGovernanceResource(doc) == Sovereigns(doc.resources) # {}

(* (mutant) a document that has the resource is given another               *)
WithGovernanceAnyway(doc, region) ==
    IF Souverainete.declared /\ doc.kind = "array"
    THEN [doc EXCEPT !.resources = Append(@, GovernanceResourceIn(region))]
    ELSE doc

(* Once only: a document that is replayed keeps the resource it has        *)
WithGovernance(doc, region) ==
    IF Souverainete.declared /\ doc.kind = "array" /\ ~HasGovernanceResource(doc)
    THEN [doc EXCEPT !.resources = Append(@, GovernanceResourceIn(region))]
    ELSE doc

(* (mutant) the configuration of the day replaces the one that is carried   *)
WithContextOfTheDay(doc, instant, res) ==
    [doc EXCEPT !.evaluated_at = IF @ = {} THEN {instant} ELSE @, !.config = {Sealed(res)}]

(* The instant and the configuration are set when they are absent          *)
WithContext(doc, instant, res) ==
    [doc EXCEPT !.evaluated_at = IF @ = {} THEN {instant} ELSE @,
                !.config = IF @ = {} THEN {Sealed(res)} ELSE @]

-----------------------------------------------------------------------------
(* What the scan is given.                                                 *)

AtMostOne(S) == \A x, y \in S : x = y

(* A file whose ages are not numbers is refused when it is decoded         *)
IsFlags(flags) ==
    \A file \in flags.policy : \A controls \in file.controls : DaysOf(controls)

IsDocument(doc) ==
    /\ doc = [shape |-> doc.shape, provider |-> doc.provider, kind |-> doc.kind,
              resources |-> doc.resources, unmapped |-> doc.unmapped,
              evaluated_at |-> doc.evaluated_at, config |-> doc.config]
    /\ IsSequence(doc.resources)
    /\ AtMostOne(doc.evaluated_at) /\ AtMostOne(doc.config)
    /\ \A c \in doc.config : c = [shape |-> c.shape, fields |-> c.fields] /\ DaysOf(c.fields)

IsLive(source) ==
    /\ DOMAIN source.env = Logical
    /\ IsSequence(source.items) /\ IsSequence(source.buckets)
    /\ IsStorage(source.s3)
    /\ \A b \in ToSet(source.buckets) : IsBucket(b)
    /\ \A b, n \in ToSet(source.buckets) : b.name = n.name => b = n

ASSUME FrontAssumption ==
    /\ \A i \in Invocations :
        /\ IsFlags(i.flags)
        /\ \/ i.mode = "live" /\ IsLive(i.source)
           \/ i.mode = "plan" /\ IsPlan(i.source)
           \/ i.mode = "export" /\ IsDocument(i.source)
    /\ \A flags \in Replays : IsFlags(flags)
    /\ \A p \in DayParameters : Subjects[p] \subseteq Int

(* The sections that a first scan may resolve its profile from             *)
Sections(flags) == {NoControls} \cup UNION {file.controls : file \in flags.policy}

(* The rules may meet any resource: in particular those on which the        *)
(* profiles of the policies and the defaults differ                         *)
ASSUME SubjectsAssumption ==
    \A controls \in UNION {Sections(i.flags) : i \in Invocations} :
        \A res \in Resolutions(controls) : \A p \in Parameters : TellsApart(Subjects[p], p, res)

(* No descriptor projects the type of the sovereignty of the provider, and  *)
(* none but the collector of the object storage reads a bucket; one         *)
(* that delimits its qualification is given a region, which is no template  *)
ASSUME DescriptorAssumption ==
    /\ RegionKey \in Logical
    /\ IsSequence(Specs) /\ LiveSpec.type # Bucket
    /\ \A spec \in ToSet(Specs) \cup {LiveSpec} :
        /\ spec.type # "governance_provider"
        /\ \A a \in DOMAIN spec.map : IsSequence(spec.map[a])
        /\ \A a \in DOMAIN spec.transforms : IsSequence(spec.transforms[a])
    /\ \A spec \in ToSet(Specs) :
        /\ spec.tf # "configuration"
        /\ \A a \in DOMAIN spec.map : \A path \in ToSet(spec.map[a]) : path.from \in {"item", "parent"}
    /\ Souverainete.regions # <<>> =>
        RegionKey = "region" /\ ToSet(Souverainete.regions) \cap (DOMAIN Template \cup {""}) = {}

-----------------------------------------------------------------------------
(* The steps of the scan, in the order of its command.                     *)

Init ==
    /\ phase = "start"
    /\ run \in Invocations
    /\ resolved = Defaults
    /\ input = NoDocument
    /\ relaxed = NoneRelaxed
    /\ sealed = {}

Refuse == phase' = "refused" /\ UNCHANGED <<run, resolved, input, relaxed, sealed>>

(* The policy is validated before anything is collected                    *)
LoadPolicy ==
    LET given == run.flags.policy
        file == CHOOSE f \in given : TRUE
        controls == IF file.controls = {} THEN NoControls ELSE CHOOSE c \in file.controls : TRUE
    IN  /\ phase = "start"
        /\ IF given # {} /\ ~Load(file).ok THEN Refuse
           ELSE /\ phase' = "configured"
                /\ \/ given = {} /\ resolved' = Defaults
                   \/ given # {} /\ resolved' \in Resolutions(controls)
                /\ UNCHANGED <<run, input, relaxed, sealed>>

ReadInput ==
    /\ phase = "configured"
    /\ \E read \in {LoadInput(run.mode, run.source, run.flags.region)} :
        IF read = {} THEN Refuse
        ELSE /\ phase' = "loaded"
             /\ input' \in read
             /\ UNCHANGED <<run, resolved, relaxed, sealed>>

Augment ==
    /\ phase = "loaded"
    /\ phase' = "augmented"
    /\ input' = WithContext(WithGovernance(input, run.flags.region), run.flags.instant, resolved)
    /\ UNCHANGED <<run, resolved, relaxed, sealed>>

(* What is relaxed is read from the document, never from the flags         *)
Settle ==
    /\ phase = "augmented"
    /\ IF ~ConfigReadable(input.config) THEN Refuse
       ELSE /\ phase' = "ready"
            /\ resolved' = ResolvedConfigOf(input.config)
            /\ relaxed' = Relaxations(resolved')
            /\ UNCHANGED <<run, input, sealed>>

(* The document that was evaluated is scanned again as an export           *)
Replay ==
    /\ phase = "ready" /\ sealed = {}
    /\ sealed' = {[input |-> input, relaxed |-> relaxed]}
    /\ \E flags \in Replays :
        run' = [mode |-> "export", flags |-> flags, source |-> input]
    /\ phase' = "start"
    /\ resolved' = Defaults /\ input' = NoDocument /\ relaxed' = NoneRelaxed

Next == LoadPolicy \/ ReadInput \/ Augment \/ Settle \/ Replay
Spec == Init /\ [][Next]_vars

-----------------------------------------------------------------------------
(* The origin of a finding (cmd/origin.go): of the resources that bear the  *)
(* subject as identifier or name, the first one that has an origin.         *)

OriginsOf(resources) ==
    LET located == {i \in DOMAIN resources : resources[i].source # NoSource}
        Bears(s) == {i \in located : s \in {resources[i].id, resources[i].name}}
        subjects == UNION {{resources[i].id, resources[i].name} : i \in located} \ {""}
    IN  [s \in subjects |->
            resources[CHOOSE i \in Bears(s) : \A j \in Bears(s) : i <= j].source]

(* A finding is its subject                                                *)
WithTerraformOrigin(findings, places) ==
    [i \in DOMAIN findings |->
        IF findings[i] \in DOMAIN places THEN places[findings[i]] ELSE NoSource]

(* locate: a result of the SARIF takes the place of the finding of its rank *)
Locate(results, located) ==
    [i \in DOMAIN results |->
        IF Len(results) = Len(located) /\ located[i].file # "" THEN {located[i]} ELSE {}]

-----------------------------------------------------------------------------
(* Properties.                                                             *)

Ready == phase = "ready"
First == sealed = {}
OfPlan == Ready /\ First /\ run.mode = "plan"
Evaluated == ToSet(input.resources)
Planned == ParsePlan(run.source)
Made == AllMade(Provider, Specs, Planned)
OfLive == Ready /\ First /\ run.mode = "live"

(* What the storage answered about a bucket, and what the scan says of it   *)
Listed == ToSet(run.source.buckets)
Answered(b, call) == b.answers[call].state # "refused"
Said(b, call, P(_)) == b.answers[call].state = "read" /\ P(b.answers[call].of)
Tagged == Read(input.config, "resource_types")
Required == Read(input.config, "required_tags")
SubjectsOf(c) == BucketFindings(c, input.resources, Tagged, Required)
StatusOf(c) == BucketStatus(c, input.resources, Tagged, Required)

(* The calls a control reads: those that its guard demands, and the others *)
Guarded ==
    [c \in BucketControls |->
        CASE c = "objectstorage_bucket_public_access" -> {"GetBucketAcl"}
          [] c = "objectstorage_bucket_versioning_enabled" -> {"GetBucketVersioning"}
          [] c = "objectstorage_bucket_object_lock_enabled" -> {"GetObjectLockConfiguration"}
          [] c = TagsControl -> {"GetBucketTagging"}
          [] OTHER -> {"GetBucketEncryption"}]
Unguarded ==
    [c \in BucketControls |->
        CASE c = "objectstorage_bucket_public_access" -> {"GetBucketPolicy"}
          [] c = "objectstorage_bucket_kms_encryption" -> {"GetBucketTagging"}
          [] OTHER -> {}]

(* The answers on a bucket show the deviation that a control looks for      *)
Shown(c, b) ==
    LET tags == b.answers["GetBucketTagging"]
        Everybody(groups) == \E i \in DOMAIN groups : groups[i] \in PublicGroups
        Opened(statements) == \E i \in DOMAIN statements :
            LET s == statements[i] IN s.allow /\ s.wildcard /\ (s.source => s.negated)
        Some(algorithms) == algorithms # <<>>
        Ours(algorithms) == \E i \in DOMAIN algorithms : algorithms[i] = "aws:kms"
        Secret(keys) == \E i \in DOMAIN keys : keys[i] \in Sensitive
        Yes(x) == x
        Enabled(status) == status = "Enabled"
    IN  CASE c = "objectstorage_bucket_public_access" ->
                Said(b, "GetBucketAcl", Everybody) \/ Said(b, "GetBucketPolicy", Opened)
          [] c = "objectstorage_bucket_versioning_enabled" ->
                Answered(b, "GetBucketVersioning") /\ ~Said(b, "GetBucketVersioning", Enabled)
          [] c = "objectstorage_bucket_object_lock_enabled" ->
                Answered(b, "GetObjectLockConfiguration") /\ ~Said(b, "GetObjectLockConfiguration", Yes)
          [] c = "objectstorage_bucket_default_encryption" ->
                Answered(b, "GetBucketEncryption") /\ ~Said(b, "GetBucketEncryption", Some)
          [] c = "objectstorage_bucket_kms_encryption" ->
                /\ run.source.s3.sseKMS /\ run.source.s3.tagsPersisted
                /\ Answered(b, "GetBucketEncryption") /\ ~Said(b, "GetBucketEncryption", Ours)
                /\ Said(b, "GetBucketTagging", Secret)
          [] c = TagsControl ->
                /\ Bucket \in Tagged /\ run.source.s3.tagsPersisted
                /\ Answered(b, "GetBucketTagging")
                /\ \E i \in DOMAIN Required :
                        tags.state = "unset" \/ ToSet(tags.of) \cap Required[i] = {}

(* Types, and the shape that every reader of a ready document relies on:    *)
(* one instant, one configuration, and one sovereignty, unless the export    *)
(* that was read holds several and nothing was added to it.                 *)
FrontTypeOK ==
    /\ phase \in {"start", "configured", "loaded", "augmented", "ready", "refused"}
    /\ DOMAIN resolved = Parameters
    /\ relaxed \in [DOMAIN Constraints -> SUBSET Parameters]
    /\ Cardinality(sealed) <= 1
    /\ Ready =>
        /\ Cardinality(input.evaluated_at) = 1 /\ Cardinality(input.config) = 1
        /\ \/ Cardinality(Sovereigns(input.resources)) <= 1
           \/ run.mode = "export" /\ input.resources = run.source.resources

(* A line that cites normative references is of a control that is at least  *)
(* as severe as it is by default: whatever the policy, or the configuration *)
(* that the document carries and the rules read raw, all that the default   *)
(* finds is found; and what the report announces as lost is what the lines  *)
(* lost (internal/policy/relaxation.go:152-180).                            *)
KeptReferencesHold ==
    Ready =>
        LET lines == [c \in DOMAIN ControlReferences |->
                        [control |-> c, references |-> ControlReferences[c], dropped |-> {}]]
            cited == WithRelaxations(lines, relaxed)
        IN  /\ \A l \in Range(cited) : l.references # {} /\ l.control \in DOMAIN Constraints =>
                \A c \in Constraints[l.control] :
                    LET p == c.parameter IN
                    Found(p, Read({Sealed(Defaults)}, p), Subjects[p])
                        \subseteq Found(p, Read(input.config, p), Subjects[p])
            /\ UNION {l.dropped : l \in Range(cited)} = DroppedReferences(relaxed)

(* References are not lost for nothing: a parameter that a policy is told    *)
(* to relax makes the rules miss something, unless one of its requirements  *)
(* can be met by no tag at all (referentiel/config.go:59-66).               *)
RelaxationIsTrue ==
    Ready /\ run.mode # "export" =>
        \A control \in DOMAIN Constraints : \A p \in relaxed[control] :
            \/ p \in TagParameters /\ {} \in Range(Read(input.config, p))
            \/ ~ Found(p, Read({Sealed(Defaults)}, p), Subjects[p])
                    \subseteq Found(p, Read(input.config, p), Subjects[p])

(* A document that was evaluated is evaluated again as it was, under the     *)
(* same instant, configuration, sovereignty and relaxations, whatever the   *)
(* policy and the region of the day (cmd/scan.go:143-170).                  *)
ReplayKeepsTheInput ==
    Ready => \A s \in sealed : s.input = input /\ s.relaxed = relaxed

(* A live scan claims the qualification of a provider that delimits it only  *)
(* when what it read carries a region of that perimeter, wherever the region *)
(* came from: the flag, the environment, the file or a default.              *)
QualifiedWhereItRead ==
    (Ready /\ First /\ run.mode = "live" /\ Souverainete.regions # <<>>) =>
        \A g \in Evaluated :
            (g.type = "governance_provider" /\ g.attrs["secnumcloud"] = Text("qualifie")) =>
                \A r \in Evaluated : r = g \/ r.region \in ToSet(Souverainete.regions)

(* The attestations are true: what no source carried is not projected, and   *)
(* what is said to come from a reference fills a hole of the plan, for a     *)
(* value of the plan always wins (internal/tfmap/tfmap.go:232-236).          *)
ProvenanceIsTrue ==
    /\ Ready /\ First /\ run.mode # "export" =>
        \A r \in Evaluated : \A a \in DOMAIN r.attrs :
            /\ a \in DOMAIN r.prov
            /\ r.prov[a].observed \/ r.prov[a].source \in {"descriptor:const", "descriptor:souverainete"}
    /\ OfPlan =>
        \A planned \in {Planned} : \A m \in Range(Made) :
            LET res == CHOOSE res \in Range(planned) : res.address = m.address
                Field(a) == m.spec.map[a][1].field
                Known(a) == /\ Len(m.spec.map[a]) = 1 /\ Field(a) \in DOMAIN res.args
                            /\ m.spec.items = "" \/ m.spec.map[a][1].from = "parent"
            IN  \A a \in DOMAIN m.spec.map \ DOMAIN m.spec.const : Known(a) =>
                    /\ m.resource.prov[a].source # "configuration"
                    /\ a \in DOMAIN m.resource.attrs /\ ~m.resource.prov[a].derived =>
                            m.resource.attrs[a] = res.args[Field(a)]

(***************************************************************************)
(* A reference is exact: the addresses of an argument are those of the     *)
(* declarations that its traversals reach, through variables, and that     *)
(* have one instance in the plan.  A traversal is reached when every set   *)
(* closed under what the callers pass that holds the ones of the argument  *)
(* holds it (internal/tfparse/tfparse.go:195-214).  The parser gives up    *)
(* after ProfondeurMax calls of modules: of a module that is nested deeper *)
(* it may miss an address, never invent one.                               *)
(***************************************************************************)
ReferenceIsExact ==
    OfPlan =>
        \A planned \in {Planned} :
        LET cfg == run.source.configuration
            Caller(s) == SubSeq(s, 1, Len(s) - 1)
            passed == UNION {UNION {{<<Caller(s), t>> : t \in cfg[s].args[v]} : v \in DOMAIN cfg[s].args} :
                                s \in DOMAIN cfg}
            Closed(N) == \A s \in DOMAIN cfg : \A v \in DOMAIN cfg[s].args :
                            <<s, [root |-> "var", target |-> v]>> \in N /\ s # <<>> =>
                                \A t \in cfg[s].args[v] : <<Caller(s), t>> \in N
        IN  \A res \in Range(planned) :
                LET here == ConfigAddress(res.address)
                    refs == IF here[1] \in DOMAIN cfg /\ here[2] \in DOMAIN cfg[here[1]].refs
                            THEN cfg[here[1]].refs[here[2]] ELSE [arg \in {} |-> {}]
                    Reached(arg) ==
                        LET start == {<<here[1], t>> : t \in refs[arg]}
                        IN  {n \in start \cup passed :
                                \A N \in SUBSET passed : Closed(start \cup N) => n \in start \cup N}
                    Addresses(arg) ==
                        IF arg \in DOMAIN res.references THEN ToSet(res.references[arg]) ELSE {}
                    Sole(arg) ==
                        {b.address : b \in {b \in Range(planned) :
                            /\ <<ConfigAddress(b.address)[1],
                                 [root |-> "resource", target |-> ConfigAddress(b.address)[2]]>> \in Reached(arg)
                            /\ \A c \in Range(planned) :
                                ConfigAddress(c.address) = ConfigAddress(b.address) => c = b}}
                IN  /\ DOMAIN res.references \subseteq DOMAIN refs
                    /\ \A arg \in DOMAIN refs :
                        /\ Addresses(arg) \subseteq Sole(arg)
                        /\ Len(here[1]) <= ProfondeurMax => Sole(arg) \subseteq Addresses(arg)

(* One subject: what a reference fills names a resource by the identity it   *)
(* has in the inventory, whatever it is made of, so that two rules about it  *)
(* and the exemption of one agree (internal/tfmap/tfmap.go:148-165).  Left   *)
(* out: a resource whose own identity is filled by a reference, an attribute *)
(* of an item, which the references of the resource do not fill, and one    *)
(* that the descriptor sets or converts.                                    *)
OneSubject ==
    OfPlan =>
        \A planned \in {Planned} : \A made \in {Made} :
        LET From(A) == {j \in DOMAIN made : made[j].address = A}
            Filled(A) == \E j \in From(A) : made[j].spec.id \in made[j].injected
            Unconverted(m, a) ==
                a \in DOMAIN m.spec.transforms => \A k \in DOMAIN m.spec.transforms[a] :
                    m.spec.transforms[a][k].op \in {"list", "default", "default_null"}
            FromHole(m, a) == /\ m.spec.items = "" \/ m.spec.map[a][1].from = "parent"
                              /\ a \notin DOMAIN m.spec.const /\ Unconverted(m, a)
            Subject(A) == IF From(A) = {} THEN {A}
                          ELSE {input.resources[j].id : j \in From(A)}
        IN  \A i \in DOMAIN made : \A a \in made[i].injected \cap DOMAIN input.resources[i].attrs :
              FromHole(made[i], a) =>
                LET res == CHOOSE res \in Range(planned) : res.address = made[i].address
                    named == Range(res.references[made[i].spec.map[a][1].field])
                    texts == Range(input.resources[i].attrs[a].of)
                IN  (\A A \in named : ~Filled(A)) =>
                        /\ \A A \in named : texts \cap Subject(A) # {}
                        /\ texts \subseteq UNION {Subject(A) : A \in named}

(* The plan of a tenant can be reduced: what CheckPlanAttributes would       *)
(* refuse is removed, and the inventory does not move (tenant-plan.py:186).  *)
(* Left out: a region that a descriptor reads below the first segment of its *)
(* path, and a plan that knows a value that is read and bears the name of a  *)
(* secret, such as the identity of an access key (outscale.yaml:711).        *)
ReductionIsFaithful ==
    OfPlan =>
        \A made \in {Made} : \A reduced \in {Reduce(Specs, run.source)} :
            LET Nested(i) == \E k \in DOMAIN Specs :
                                /\ Specs[k].tf = TypeOf(made[i].address)
                                /\ RootField(Specs[k].region) # Specs[k].region
            IN  /\ CheckPlanAttributes(Specs, reduced) = {}
                /\ NoSecretIsRead(Specs, run.source) => \A inv \in {Apply(Provider, Specs, ParsePlan(reduced))} :
                    /\ inv.unmapped = input.unmapped
                    /\ Len(inv.resources) = Len(made)
                    /\ \A i \in DOMAIN made :
                        \/ inv.resources[i] = input.resources[i]
                        \/ /\ Nested(i)
                           /\ inv.resources[i] = [input.resources[i] EXCEPT !.region = ""]

(***************************************************************************)
(* The verdicts on the buckets are those of the answers of the storage: a  *)
(* deviation that an answer shows fails, what fails is shown by an answer  *)
(* on that very bucket, and a control passes only when every call of its   *)
(* guard was answered, on every bucket (internal/objectstorage/s3.go:225). *)
(* Left out: a bucket whose tags were refused misses them as soon as a     *)
(* neighbour bears some (governance_resource_required_tags.rego:60), and   *)
(* the calls outside of the guard, which RefusedCallNeverPasses is about.  *)
(***************************************************************************)
BucketVerdictsAreRead ==
    OfLive => \A c \in BucketControls : \A verdict \in {StatusOf(c)} :
        /\ \A b \in Listed : Shown(c, b) => verdict = "fail" /\ b.name \in SubjectsOf(c)
        /\ \A b \in Listed : b.name \in SubjectsOf(c) =>
            \/ Shown(c, b)
            \/ c = TagsControl /\ ~Answered(b, "GetBucketTagging")
                /\ \E n \in Listed : Answered(n, "GetBucketTagging")
        /\ verdict = "pass" => \A b \in Listed : \A call \in Guarded[c] : Answered(b, call)

(* A call that is refused leaves its control without a verdict: no control    *)
(* passes when a call it reads was refused on a bucket                       *)
(* (docs/providers/scaleway.md:78-81).                                       *)
RefusedCallNeverPasses ==
    OfLive => \A c \in BucketControls : StatusOf(c) = "pass" =>
        \A b \in Listed : \A call \in Guarded[c] \cup Unguarded[c] : Answered(b, call)

(* A line that is given is right: it heads the declaration of a resource     *)
(* that bears the subject of the result, in the directory of its module, and *)
(* there is no other of the name there; when the results are not those of    *)
(* the findings, no line is given (internal/tfparse/origin.go:32-39).        *)
OriginNeverWrong ==
    OfPlan =>
        \A made \in {Made} :
        LET findings == [i \in DOMAIN input.resources |-> input.resources[i].id]
                            \o [i \in DOMAIN input.resources |-> input.resources[i].name]
            located == WithTerraformOrigin(findings, OriginsOf(input.resources))
            Heads(i, place) ==
                LET decl == Parts[made[i].address].decl
                    tree == run.source.sources
                    dirs == ModuleDirs(run.source.configuration, Parts[made[i].address].mods)
                    heads == {h \in UNION {{d} \X DOMAIN tree[d] : d \in dirs \cap DOMAIN tree} :
                                tree[h[1]][h[2]].decl = decl}
                IN  \E h \in heads :
                        heads = {h} /\ tree[h[1]][h[2]] = [decl |-> decl, file |-> place.file, line |-> place.line]
        IN  \A results \in {findings, SubSeq(findings, 2, Len(findings))} : \A n \in DOMAIN results :
                \A place \in Locate(results, located)[n] :
                    \E i \in DOMAIN made :
                        /\ results[n] \in {input.resources[i].id, input.resources[i].name}
                        /\ Heads(i, place)
=============================================================================

# Pepin, specified

Pepin audits the resources of a cloud account (or of a Terraform plan) against a
referential of controls, and gates a CI chain with its exit code. Its promises are
negative ones: never "compliant" on what was not seen (ADR-0006), never a silence over
a deviation that was seen (ADR-0005), never a waiver that reads as a conformity
(ADR-0008). This directory states those promises in TLA+, checks them with TLC on
small instances, and proves with TLAPS, for every catalogue, account and inventory, every
safety property that a passing run checks: those of the assessment, the exit code, the
collection, a live scan from its first call to its exit code, the sealed evidence (its
verification, its replay, the comparison of two scans), and what is between the flags and the
document that is evaluated (the settings and what they relax, the replay, the qualification,
the attestations, the references and the origins of a plan, its reduction, the buckets).

Paths below are relative to the repository (`src/` in `PROJECT.json`).

## 1. The system

A scan is one sequential program:

    loadPolicy                the policy file, validated before anything is read
      -> loadInput            live: credentials, then collectkit.Run (the tasks of the YAML
                              engine, S3, EIM, OKS); a plan: tfparse and tfmap; an export
      -> governance, context  the sovereignty, the instant and the configuration, once
      -> settle               the settings and what they relax, read from the document
      -> rules (Rego)         findings
      -> assess.Build         one line per finding, one per control without finding
      -> WithProvenance       labels of provenance (no status)
      -> WithAttestedAbsence  withdraws deviations deduced from an absence nobody sought
      -> Degrade              withdraws what reads a type left incomplete
      -> exempt.Apply         dated exemptions
      -> WithRelaxations      marks of a loosened configuration (no status)
      -> WriteBundle          evidence, file by file
      -> gate, headline       exit code 0 to 4

`verify` and `diff` read the directories that scans wrote, later and elsewhere; a sealed
`input.json` may be scanned again under another policy, another day.

**Nothing runs concurrently**: there is no goroutine, no lock and no callback in these
parts. What makes the program hard is elsewhere: an environment that pages, cuts,
refuses and repeats; passes that rewrite each other's lines in an order that matters;
two readings of one scan (the exit code counts *findings*, the report counts *lines*);
partial data whose gaps must not be read as facts; a document that is evaluated again in
another context than its own; names that stand for resources before their identities are
known; files written one after the other over those of an earlier scan.

### Inventory of the components

| Component | State it keeps | Operations | What makes it correct |
|---|---|---|---|
| `internal/collect` engine | pages read, resources, failure of the task | `Collect`, `collectUnit`, `collectResource`, `collectForEach`, `fetchItems`, `Classify` | a unit is complete only if all its tasks were read to their end; what was read is kept; ends |
| `internal/collectkit` | the order of the units | `Run` | every unit is tried, and recorded, whatever the others did |
| `internal/model` | `Collection`: state and error of each unit | `Record`, `IncompleteTypes` | pessimistic merge, whatever the order |
| `internal/eimpolicy` | users, groups, policies | `CollectInlinePolicies` | the whole chain or an incomplete unit; ends |
| `internal/objectstorage` | buckets, tokens seen | `CollectBuckets`, six calls per bucket | a token that comes back is not a next page; a call refused is not a configuration that is absent |
| `internal/oks` | clusters | `CollectClusters` | one call |
| capability guards (`assess`, `genprovider`, `cmd/scan.go`) | none | `attrsByTypeOf`, `Verified`, `Applicable`, `attrCollected`, `correlationBroken`, `DegradedControls` | the absence of a finding is a pass only where the deciding data was observed on every resource |
| assessment passes (`internal/assess`) | the lines | `Build`, `WithAttestedAbsence`, `Degrade` | later passes only withdraw; a deviation observed stays |
| exemptions (`internal/exempt`) | three heaps, report | `Load`, `Apply` | a waived line is an affirmed deviation, under the first exemption in force |
| gate (`profile`, `scoring`, end of `cmd/scan.go`) | none | `Split`, `SetAside`, `Summarize`, `openFindings`, exit code, headline | 0 is earned, no setting softens, code and headline agree |
| evidence bundle (`assess/bundle.go`, `cmd/verify.go`) | files of a directory | `WriteBundle`, `VerifyBundle`, `verify --re-derive` | what verifies was written by one scan, entirely, and derives again |
| diff (`assess/diff.go`) | two sets of lines | `DiffBundles` | every line is accounted for once |
| policy and relaxations (`internal/policy`, `assess/relaxation.go`) | resolved settings | `load`, `Resolve`, `Relaxations`, `WithRelaxations` | a loosened control no longer claims its normative reference; a document is judged by the settings it carries |
| credentials, sovereignty (`internal/genprovider`) | none | flag, environment, native files, defaults; `governanceResource` | the qualification is claimed for the region that was read |
| projection (`internal/collect`) | attributes and attestations of a resource | paths, coalescence, transforms | an attestation is true |
| Terraform import (`tfparse`, `tfmap`) | the resources of a plan, in two passes | `ParsePlan`, `resoudre`, `Apply`, origins | nothing invented; one resource, one subject |
| tenants (`internal/tenants`) | a reduced plan | `MappedFields`, `CheckPlanAttributes`, reduction | the reduction changes nothing the mapping reads |
| descriptors, referential, rules | data | parsing | constants of the models, except the rules of the buckets, of the required tags and the way rules read settings |
| rendering, documentation, i18n, other commands, quality evidence | none | output | not a decision of a scan |

`PROJECT.json` lists every one of them with its sources and what is, or is not, modelled,
and under `hazards` the places where the code could go wrong in a way a unit test hardly
reaches.

### How they interact

* The engine hands its resources and the state of its units to `model.Collection`;
  `IncompleteTypes` is the only thing the assessment reads of the failures.
* The capability guards read the inventory twice: which attributes *arrived* (value), and
  which ones were *sought* (provenance). An attribute that was sought, did not come, and
  is exposed on a neighbour is an observed absence; one nobody sought is nothing.
* Each pass reads the lines of the previous one and the same inventory.
* The document that is evaluated carries its instant and its configuration. The settings and
  the relaxations are read from it, never from the flags, so that a replay and `verify
  --re-derive` judge it as it was; only exemptions are judged at the instant of the run.
* A bundle is tied by contents: the manifest names the digests of the artifacts,
  `checksums.txt` those of all the files, cosign signs `checksums.txt`. `diff` reads only
  bundles that verify.
* `exempt.Apply` gives back lines and a report; the gate reads the lines (coverage), the
  report (was something waived, is something stale) and the findings (what weighs).

## 2. The modules

| Module | Models | Proved about |
|---|---|---|
| `Capability` | the tables of the catalogue as constants, the guards as operators on an inventory | through `Assessment` |
| `Assessment` | the lines and the four passes that can change a status | yes |
| `Gate` | profiles, exit code, headline, technical errors; extends `Assessment` | yes |
| `Outcomes` | the classes of failure, the merge of the states of a unit | through `Live` |
| `Collect` | one listing page by page, a task, a join, an aggregate, the record of a unit | through `Live` |
| `Live` | a whole live collection: the tasks in order and the chain of the inline EIM policies; extends `Collect` | yes |
| `LiveScan` | a live scan from its first call to its exit code: the collection, the document that carries what it left, the passes and the gate; extends `Live` and `Gate` | yes |
| `CollectionContract` | what a collection promises, without paging, calls nor joins | refined by `Live`: checked and proved |
| `Verdict` | what a scan concludes, as a function of the document it evaluates; redaction | through `Evidence` |
| `Bundle` | the files of a bundle, manifest, checksums, `VerifyBundle`, the signature, the re-derivation; extends `Verdict` | through `Evidence` |
| `Diff` | the comparison of two bundles; extends `Bundle` | through `Evidence` |
| `Evidence` | scans that seal into directories, stopped, replayed, redacted, damaged, signed; extends `Diff` | yes |
| `Settings` | the policy file, its resolution, the relaxations, the configuration a document carries and how the rules read it | through `Front` |
| `Projection` | paths, coalescence, transforms, attestations of the attributes | lemmas, through `Front` |
| `Plan` | a Terraform plan: references through modules, origins, the mapping in two passes, the reduction; extends `Projection` | lemmas, through `Front` |
| `Buckets` | the six calls of a bucket, what each answer leaves, the rules and the verdict through the guards of `Capability`; extends `Projection` | lemmas, through `Front` |
| `Front` | from the flags to the document that is evaluated, and its replay; extends `Settings`, `Plan`, `Buckets` | yes |
| `MCAssessment`, `MCGate`, `MCLive`, `MCLiveScan`, `MCEvidence`, `MCFront` | the small instances | |
| `Assessment_proofs`, `Gate_proofs`, `Live_proofs`, `LiveScan_proofs`, `Evidence_proofs`, `Front_proofs` | theorems and lemmas | |
| `Settings_proofs`, `Plan_proofs` | the lemmas on settings and plans, for `Front_proofs` | |

### State and actions against the code

**Assessment.** `pc` is the place in `cmd/scan.go`. `inv`, `found`, `policy` and `now` are
the inputs: the exemption file and the instant of evaluation are drawn at the start, the
inventory and the findings of the rules by `Load`, and none of them changes afterwards. `results` gives each *line* (a finding, or a control without
one) a status and the kind of reason its evidence gives. `Build`, `WithAttestedAbsence`,
`Degrade` and `Apply` are the functions of the same names. `WithProvenance` and
`WithRelaxations` change no status; the second is in `Settings`, the first only labels. Titles, references, remediations and
wording are abstracted; the *kind* of a reason is kept because a property is about it.

The rules are an external engine: a scan draws any set of findings on resources of the
inventory (`Emittable`). It is more than the rules can emit, on purpose: the properties
hold whatever the rules say.

**Gate.** `Assess` is a pass; `Exit` reads the finished assessment; `Abort` is any of the
technical errors of a scan (exit 2), which happen before the lines exist or after they are
final. `ExitCode` keeps the order of the tests of the code, which is the contract.

**Collect and Live.** `task` is the loop over the resources of the descriptor; `stage` is
where the function of the task is; `call` is one run of `fetchItems` or of the equivalent
loop written in Go, with its page number and what it got; `known` and `child` are the
parents of a join and the one being read; `late` is the error of a partial list of parents,
returned after the children. `ReadPage`, `Refuse` and `AnswerOtherwise` are the answers of
an API to a call; `ParentsRead`, `ItemsRead`, `UsersRead`, `GroupsRead`, `OwnerRead` are
what the code does when a listing is over; `Record` is the end of `collectUnit`, with the
merge of the unit. `delivered` and `causes` are history variables: what the API gave, and
which failure hit a unit first.

The environment is in `listing` (the lists the APIs hold, fixed for the time of a
collection), `deaf` (the APIs that ignore the page they are asked for) and `Refusals`.
Page sizes are chosen by the API wherever the style lets it; a token may be given when
nothing is left, as some APIs do.

**LiveScan.** The state is the one of `Live` and the one of `Gate`. `Collecting` is
`collectkit.Run`, one step of `Live` at a time, while `pc` is still at "load"; `LoadInput` is the
end of `loadInput` and the rules, on a document whose resources are those the tasks kept (`Made`:
the resource a task makes of an item, `Counted`: the one that carries a number), those of the
descriptor, and whose incomplete types are those of the collection. What was observed of the
attributes is drawn (`Observations`): it is the business of `Projection`. `Judging` is the gate,
and `RefuseToStart` an error before the first call.

**Evidence.** `disk` gives each directory its files; a file is the document it holds, whole
or torn, and a digest is the content it is computed on. `writing` is the bundle in the
course of `WriteBundle`: what it seals and the place of the next file. `ScanTenant` and
`ScanSealed` run the passes and enter `WriteBundle`; `RenderOscal`, `WriteFile` and
`WriteChecksums` are its writes, in order; `Interrupt` is a kill or a refused write at any of
them, with the file it was writing whole, torn or untouched. Nothing is cleaned, as in the
code, and a later scan may write over what is left. `Tick` is the day passing between two
scans, `Sign` is cosign, `Damage` a file altered or lost. `tried` and `made` are history
variables: what each scan had to seal, and the last scan of a directory that ended well.
`verify` and `diff` change nothing; they are operators over `disk`. The verdict itself is
`Verdict.Lines`, an assessment with just enough in it for the evidence (facts that depend on
the instant, on a setting, on a redacted value, on external rules); its passes are the
business of `Assessment`.

**Front.** `phase` is the place in the command. `LoadPolicy` validates and resolves the file
(`Settings.Load`, `Resolutions`; several outcomes where the code walks a Go map), `ReadInput`
is `loadInput` in its three modes, `Augment` is `WithGovernance` then `WithContext`, `Settle`
reads settings and relaxations back from the document, `Replay` scans the evaluated document
again under other flags. A failure of any of them is `Refuse` (exit 2). In live mode the
credentials are resolved, the items of one listing projected and the buckets collected
(paging and failures are `Live`'s); in plan mode `ParsePlan` gives the resources with their
references and origins, and `Apply` maps them, fills the holes from the references and then
turns addresses into identities.

**Buckets.** Each call of a bucket is read, unset (the storage says that nothing is
configured, which the code tells from a refusal by the code of the error) or refused.
`CollectBucket` keeps an attribute and its attestation for what was answered. `Deviates` and
`MissesTags` are the rules; the guards are those of `Capability`, instantiated on the tables
of these controls.

## 3. The runs

Deadlock is checked in `assessment`, `gate`, `collection` and `live_scan`: a finished scan and
a finished collection stutter explicitly (`Done`, `Exited`, `LiveDone`). It is not in `evidence` and `front`, whose
cfg say so: there, an operator may run no further scan, and a command that is ready or refused
has ended.

| Run | Shows | Bounds, and why they are enough |
|---|---|---|
| `assessment` (599 762 states) | a pass is earned, a deviation observed stays, every control has one answer, waivers are earned, the report and the lines agree, no pass creates a verdict | one control of each kind of the catalogue (plain, gated by an attribute, by two, correlated, deciding on an absence, multi-type, reading the descriptor, tags, unsupported, not implemented); two resources of one type, the least where one can open the door to the other, one of another, observed in every combination of value / null / absent and sought / not sought that the properties tell apart; every set of incomplete types; every set of findings; five exemptions, among which a named one before a general one, an orphan and one that lapses between the two instants |
| `gate` (898 704 states) | 0 is earned, settings never soften, 4 is covered, a severe line retained is 1, headline and code agree | findings of each weight, category and confidence class; three policies (none, one, all of them with one that lapses); three profiles drawn, and the fourth compared inside `SettingsNeverSoften`; `--strict` and a relaxation on and off |
| `collection` (288 920 states) | what was read is kept, the class of a failure is true, the collection ends, and it implements `CollectionContract`: a type that is complete was read whole, and a published number is exact | seven tasks: a join and a list that feed one unit, two units that feed one type, an aggregate, a list of the object storage, the inline chain, a task that is not enabled; pages of two and at most two pages, so that a list ends before the bound, exactly at it, and after it; two sets of lists, one with an empty list of each kind; three APIs that may be deaf; one that may answer another document; a refusal of each family |
| `live_scan` (39 408 states) | a pass, a refusal to conclude, a green code and a judged resource say the truth of the *account*; a failure of the collection is said | four tasks: a join over two owners, two tasks that feed one unit (one of them may be deaf, the other answer another document), a number; pages of one and at most two pages, so that the list of three machines is cut, the one of two ends at the bound and the empty one at once; three accounts, one of them empty; every task but one may be refused; a control of each way to read (one type, one and a correlated one, several, the number, the types of the configuration, the descriptor); an attribute observed on both of two neighbours or on one; every set of findings, with and without an exemption |
| `evidence` (757 852 states) | what verifies is the evidence of one scan, and all of it where the manifest is covered; a scan that succeeded verifies; an honest bundle re-derives, whenever; a replay moves only exemptions; redaction is consistent on both sides; the diff never presents a loss of sight as a correction | two directories, the least to compare and to replay from one to the other; two scans, the least that write one over the other; two instants, on either side of a lapse and of an age; one fault (a stop at any write, or one file altered or lost); nine kinds of scans over six tenants (clean, deviating, incomplete, two findings of one line, a secret, another target), three policies, both languages, with and without `--redact` and `--policy-dir` |
| `front` (20 097 states) | references kept are earned and lost ones are lost for a reason; a replay keeps its document; the qualification is claimed where it read; attestations, references, subjects, origins and the verdicts on the buckets are true; a reduced plan maps to the same inventory | policy files with each parameter harder, softer, renamed, ambiguous or invalid; every combination of four pairs of keys, two regions, two profiles, four credential files and four shapes of an item; two buckets, one whose calls are varied two by two over every answer, beside a neighbour that is clean, silent or missing, on four kinds of storages; plans that hold every subset of eight resources (two instances of one declaration, nested modules, values known, unknown or referred to, lists, blocks, an identity whose name is one of a secret), with configurations and source trees that match and that do not; exports that carry a configuration; two replays |

`MaxGot` is the only bound of `collection` that is not one of the code: it cuts what a listing
*accumulates*, so that an unbounded loop over a deaf API has finitely many states. It is
not smaller than `PageSize * MaxPages`, so that it never cuts a bounded listing, and the
assumption `ListingsAssumption` keeps the lists, the parents of a join and the groups of the
inline chain within it: what a page adds beyond it is not kept. `MaxPages` stands for the
1000 pages of the engine (`defaultMaxPages`, which a descriptor may change) and of the
collectors in Go.

### What contradicts the code

Six runs check a sentence of the documentation or of a comment and find it false. Each is
a finding of `PROJECT.json`, with the line quoted.

* `one_shows_a_deviation`: a scan exits 1 although no line of its report fails. The gate
  counts findings; a finding withdrawn by a broken correlation, or by an absence nobody
  sought, still weighs.
* `exempted_stays_in_summary`: ADR-0008 says an exempted deviation stays in the severity
  counts and that `summary.conforme` stays false. The summary is computed after the
  profile has set deviations aside.
* `unknown_schema`: an answer 200 with another document is read as an empty list, in a
  complete unit. It is the hole that `CollectionContract` states as `Believe`, and the
  exception (`Strangers`) of the properties of `LiveScan`.
* `inline_terminates`: two of the four listings of that chain have no bound of pages. The
  passing run therefore assumes that the EIM endpoint honours `FirstItem` (task 6 is not in
  `Deafable`), and only that one.
* `sealed_policy_is_covered`: `verify --re-derive` reads `exemptions.json` from the directory
  whether `checksums.txt` lists it or not, and `WriteBundle` removes nothing: after a scan with
  exemptions and one without, a signed bundle is judged with exemptions nothing covers.
* `refused_call_passes`: a bucket whose policy could not be read passes the control of the
  public access when its ACL is private, and one whose tags could not be read passes the
  control of the sensitive data; the guards ask for the other call only.

### What the properties leave out, and why

A property states its exceptions rather than hiding them.

* `ErrorIsTrue`: a redirect, which the client does not follow, leaves a unit incomplete
  *without* a class.
* `ContractKept` (by its step `Believe`), `GreenIsWhole`, `PassIsOnTheAccount`, `NoResourceIsTrue`,
  `InventoryIsReal`: answers of another shape (`unknown_schema`).
* `VerifiedIsOneScan`: where `checksums.txt` does not list `manifest.json`, the manifest may be the
  one of another scan that declares the same files; the other files are of one scan there too.
* `HonestReDerives`: an inventory that was replayed (its instant is not the one of the run),
  rules of `--policy-dir`, redaction, and a directory where an `exemptions.json` of an earlier
  scan stayed (`sealed_policy_is_covered`): there an honest bundle may diverge.
* `ReferenceIsExact`: a module that is called more than eight deep (`profondeurMax`): the parser
  gives up and may miss an address, which the attempt to prove the property found; what it gives is
  exact there too.
* `ReductionIsFaithful`: a region that a descriptor reads below the first segment of its path
  (`providers/outscale.yaml:795`): the list of what is read holds the path itself, the
  reduction compares first segments, and the region is lost. And a plan that knows a value which
  is read and bears the name of a secret, the identity of an access key (`access_key_id`,
  `providers/outscale.yaml:711`; `access_key`, `providers/scaleway.yaml:430`): `scrub` nulls it,
  and the address becomes the identity. Such a reduction is accepted all the same, which the
  property keeps.
* `OneSubject`: a resource whose own identity is filled by a reference (the second pass is one
  level short), the attributes of an item, which references do not fill, and the attributes that
  the descriptor sets (`const`) or whose transform does more than complete what is empty: a
  reference read as a boolean names nothing.
* `BucketVerdictsAreRead`: a bucket whose tags were refused fails the required tags as soon as
  a neighbour bears some (`governance_resource_required_tags.rego:60`), and the calls outside of
  the guards (`refused_call_passes`).

Five behaviours are stated by no run and deserve to be known: `VerifyBundle` allows the line of
`manifest.json` in `checksums.txt` and does not require it (`bundle.go:306`), although its comment
has the list cover "EXACTLY" the artifacts and the manifest; that line is the last one written, a
list cut just before it verifies, and its manifest is covered by no digest (the attempt to prove a
stronger `VerifiedIsOneScan` showed it: with three scans stopped over one directory, more than the
bounds of `evidence` allow, that manifest can be the one of another scan); an exempted line is not a
measured one (`evaluatedNonGov`, `cmd/scan.go:376`), so that a scan whose only conclusions are
waived exits 3 and not 4; the chain of the inline EIM policies gives up what it had read when a call
fails (`eimpolicy.go:69`), where `collectkit.go:92-94` gives the collectors written in Go the rule that
what was read is kept (`KeptWhatWasRead` permits it, and `ContractKept` has the unit incomplete);
an empty collection does count as collected (`cmd/scan.go:919`), whatever
`docs/concepts/assessment-model.md` says of it; and no field of the white list is one of a secret,
says `tenant-plan.py:135-137` of the names it nulls ("aucun de ceux-là n'en est un"), where
two descriptors map the identifier of an access key under such a name.

### Fairness

`Live` has a liveness property, under `WF_liveVars(LiveNext)`: a collection that can go on does.
The program is sequential and `collectkit.httpTimeout` bounds each call, so that a call is always
answered or refused. Nothing says which: a fair run may be refused at every call, or never, or be
served by deaf APIs. `LiveSpec`, which the theorems are about, is the same specification without
fairness. `Assessment`, `Gate`, `Front` and what `LiveScan` adds to `Live` run to their end in a
few steps and need no liveness property of their own; in `Evidence` a scan may be
stopped at any write, and nothing promises that one ends.

## 4. What is proved

The theorems hold for **every** value of the constants: any catalogue, any number of
resources, any inventory, any exemption file, any profile; any tasks, lists, page sizes and
refusals; any directories, tenants, policies, number of scans and of faults; any policy files,
credentials, plans, descriptors, exports and replays.

Assumptions, all of them evaluated by TLC on the instances: `CatalogueAssumption` (the types
of the tables), `CatalogueShape` (the governance controls are the ones without a primary type,
and the tag control reads only the types its configuration names), `ScanAssumption` and
`GateAssumption` (the types of the inputs); `CollectAssumption` (the types of the tasks, bounds
that are at least one, refusals of the shapes `Classify` knows), `ListingsAssumption` (the lists
are finite, and within `MaxGot`), `AggregateAssumption` (a task that publishes a number joins
nothing); `VerdictAssumption`, `NamesAssumption` (a name and its redacted form identify a
resource), `EvidenceAssumption` (the types of tenants and requests, and a rule reports on a
resource of the inventory or on the whole tenant); `ConstraintsAssumption` (a set that may only
grow is one the rules look for, one that may only shrink is one they accept, as in
`referentiel/controles.yaml`; the default ages are numbers), `SensesAssumption` (each setting is
compared in the sense that has a meaning for it, as in `referentiel/controles.yaml`, and the former
names of the levels are in lower case), `ReadingsAssumption` (a reading of a
value is no other operation), `PlanAssumption` (addresses have a rank, and lists of modules; `name` is no path below another field),
`AddressAssumption` (no address is empty: Terraform gives one to every resource), `FrontAssumption` (what
a decoded policy, export, plan or item holds: ages that are numbers, lists that are sequences,
an address planned once, whose keys are names and whose blocks are at the top level of its values,
traversals that are a root and a target, and two fields of a document that are there or not; a storage lists a
bucket once, and what is not an answer on an ACL or a versioning is a refusal),
`SubjectsAssumption` (the rules may meet any resource, in particular one on which the settings of
a policy and the defaults differ; it is used by `RelaxationsMiss` only); `LiveScanAssumption` (a
resource that is made of an item, or that carries a number, bears the type of its task);
`DescriptorAssumption` (no descriptor projects the type of the sovereignty, no task of the API
the one of the buckets; transforms are lists; one that delimits its qualification is given its
region by `--region`, and none of its regions is a template of a credential).

### The assessment and the gate

| Theorem | Argument |
|---|---|
| `TypeCorrect` | inductive as it stands |
| `PassesOnlyWithdraw` | per action, on two successive states |
| `PassCorrect` | `PassInv`: since `Build`, a pass was granted by the guard; since `Degrade`, its control is not degraded. The property itself is not inductive: it is about the inventory and says nothing of the guard that read it. `CollectedIsSeen` and `CompleteUnlessDegraded` turn the guard into what it promises |
| `WaiversCorrect`, `ReportCorrect` | `FailInv`: only a conclusive finding fails, nothing is exempted before `Apply`; then the step `Apply` alone, with `LeastIndex` (a nonempty set of indices has a least element) and `CandidatesAreInForce` |
| `EveryControlCorrect` | `LineInv`: which lines exist is decided once, by `Build` |
| `DeviationStaysCorrect` | `DeviationInv`: a conclusive finding that no longer fails was withdrawn for one of exactly two reasons, which are properties of the inventory |
| `RefusalsCorrect` | `RefusalInv`: the reasons of `Build` are true of the inventory, and `Degrade` renames those of the degraded controls |
| `GateRefinesAssessment` | each step of the gate is a pass or leaves the assessment alone, so that every theorem above holds of a scan with its gate |
| `GateTypeCorrect` | from `TypeCorrect` through the refinement |
| `ZeroCorrect`, `FourCorrect`, `SeenDeviationCorrect`, `SettingsCorrect`, `HeadlineCorrect` | `GateInv`: an exit other than 2 is the gate's reading of a *finished* assessment; with `WaiversCorrect`, `ReportCorrect` and `DeviationStaysCorrect`. `FourCorrect` needs `SameKeySameWaiver`: the gate matches findings to waived lines by control and subject, and an exemption covers one line of a key exactly when it covers them all |

### The collection

Four invariants, each resting on the one before.

| Theorem | Argument |
|---|---|
| `PlaceAndCallHold`, `CollectTypesHold` | `PlaceAndCall`: the types, which stage a task of each kind can be in, and what a call under way may hold. The type invariant is not inductive without the place: the parents of a join are read at some stages only |
| `CausesHold`, `ErrorsAreTrue` | `CauseInv`: the error of a unit is `Classify` of its first cause; then the table of `Classify`, case by case |
| `KeptHolds`, `WhatWasReadIsKept` | `KeptInv`: at each stage, `mapped` is what was delivered except the listing under way, which `call.got` counts |
| `OwnersAndWholeHold`, `RecordsHold`, `CompletesAreWhole` | `OwnersAndWhole`: what a call got is a prefix of its list, a join that goes on has read all of the children of the parents behind it, and a listing over without failure has all of its list, unless the API answered another document. `RecordInv`: a task that ended is whole, or a stranger, or its unit is incomplete for good, since `Merge` never makes a unit complete again |
| `CountsAreExact` | a number is published by a count whose listing ended without failure |
| `TheContractIsKept` | the refinement: the initial states, then one step per action of `Live`, each a stutter but `Record`, which is `ReadWhole`, `ReadPart`, `Believe` or `Pass` |

### The live scan

| Theorem | Argument |
|---|---|
| `ScanIsAGate`, `ScanIsACollection` | each step of a scan is a step of one half and a stutter of the other, so that every theorem on the gate, on the assessment and on the collection holds of a scan |
| `LeftHolds` | `LeftInv`, of the collection: what is read is held by an API (from `OwnersAndWhole`, since the end of a task keeps what it mapped), and no failure leaves its unit unmarked (`Merge`) |
| `ScanInvHolds` | `ScanInv`: nothing is judged before the collection has ended, and the document that is judged has the resources that it left and the types that it left incomplete. `LoadMeets` is the step where the two halves meet; afterwards neither moves |
| `GreenIsOfTheWhole`, `PassesAreOnTheAccount`, `NoResourceIsOfTheAccount` | `CompleteIsAllThere`: what a control that is not degraded reads is complete when the collection ends, so that `CompletesAreWhole` and `CountsAreExact` put all of it in the document; `GateInv`, `PassInv` and `RefusalInv` say which controls are not degraded, and `PassIsEarned` what was observed on each resource |
| `FailuresAreSaid` | the other way round: by `LeftInv` a cause marks its unit, hence a type of the document, hence the controls that read it (`DegradedControls`), and the gate reads them before it is green |
| `InventoriesAreReal` | from `LeftInv` and `CountsAreExact` |

### The evidence

| Theorem | Argument |
|---|---|
| `SealsHold`, `EvidenceTypesHold` | `SealsInv`: what was tried was sealed by a request over an inventory at an instant of the past; an `input.json`, whole or torn, is an inventory, a `manifest.json` is the one of a scan that was tried, a `checksums.txt` is a prefix of the one of *one* such scan. `ProgressInv`: while a scan writes, the files behind it are its own, and once it has ended, all of them |
| `VerifiedHolds` | from `SealsInv`: the one scan is the one whose lines `checksums.txt` holds; a digest is its content, so that what it lists is what that scan sealed |
| `SuccessHolds` | `ProgressInv` at the last write: every file declared is there, whole, and listed; what an earlier scan left is not declared |
| `HonestHolds`, `ReplayHolds`, `RedactionHolds` | lemmas on `Verdict`: the findings depend on the document only, the exemptions on an instant, the names on the redaction of that document |
| `DiffMirrors`, `DiffFaithful` | no invariant but `SealsInv`: a case analysis of `ResultChangeKind`, and `KindsMean`: what each kind of change says of the two inventories |

### From the flags to the document

| Theorem | Argument |
|---|---|
| `SpecInv`, `FrontTypesHold` | `FrontInv`: a document that was read is whole and holds no sovereignty but those of an export; once `Augment` ran it is complete, and a replay is the document of its source, with the relaxations that its own configuration gives. The type invariant is not inductive: that a ready document has one sovereignty depends on what was read, which it does not mention. The attempt to prove it found it too strong: an export may hold two, and keeps them |
| `ReplayIsFaithful` | from `FrontInv`: a document that is complete is left alone by `WithGovernance` and `WithContext` (`GovernanceOnce`, `ContextOnce`), and the relaxations are a function of the configuration it carries |
| `ReferencesAreKept` | per constraint (`HeldConstraintFinds`): a set that grew, a set that shrank, an age or a level that went down makes the rules find at least what the defaults find, read raw (`ReadCarried`) as well as decoded, through the case of the letters and the former names (`LevelsOfConfidence`) |
| `SpecReadInv`, `QualificationIsEarned` | `ReadInv`: a document that is ready in a first scan is one that `LoadInput` may give, augmented. `FlagWins`: the region that is read is the one of the flag whenever there is one, so that the region confronted to the perimeter is the one of every resource, or is none |
| `SpecPolicyInv`, `RelaxationsMiss` | `PolicyInv`: a first scan that reads no export carries the configuration that its own policy, accepted, resolves to, and that the rules read as it was written (`SealedIsDecoded`). `BrokenConstraintMisses`: for each kind of constraint, a setting that breaks it misses a subject that the default finds (a type that left the set, a state that entered it, an age between the two, a level between the two; for the tags, what bears every required tag but those of the default requirement) |
| `AttestationsAreTrue` | from `ReadInv` and the lemmas on the mapping: each attribute of a projection is read by one `ProjectOne` (`ProjectionIs`) that reads a value only where it says so; a reference is injected where the plan has nothing (`KnownIsKept`), so that an attribute whose one path the plan knows is read there (`KnownIsRead`); the second pass changes values and no attestation (`ResolvedIsAttested`). That the resource something was made of is *the* one of its address is `PlannedOnce` |
| `BucketVerdictsAreEarned` | from `ReadInv`: the buckets of the document are one `CollectBucket` for each that is listed (`BucketsAreListed`). Per call, what is kept of its answer (`AclIs` .. `TagsAre`), hence per rule, that it deviates exactly when the answers show it (`DeviationIsShown`, `MissedTagsAreShown`). For a pass, the guard of `Capability` is opened (`PassAsks`): some attribute that decides the control was read or sought on every bucket, which its call must have answered (`DecidingIsAnswered`); a bucket attests what it keeps and nothing else |
| `LinesAreRight` | from `ReadInv`: the resources are those that are made, in their order, and the sovereignty, which has no origin (`PlanReady`); a subject takes the origin of a resource that bears it (`OriginIsBorne`); an origin that names a file is the only header of its declaration in the directories of its module (`OriginIs`), since a module whose address is cut inside of a key leads to no directory (`CutLeadsNowhere`) |
| `SubjectsAreOne` | from `ReadInv`: what is injected in an argument names the references of the planned resource (`ReferencesAre`, `ArgumentNames`), which the projection reads at its one path and the transform keeps (`HoleIsRead`, `TransformNames`, `MadeNames`); the second pass maps each name to its identity (`ResolvedNames`), which is the one of what was made last of the address, or the address (`IdentityOfAddress`), and which the second pass itself does not change unless a reference fills it. Two limits of the property were found by the attempt: an attribute of the descriptor is not filled, and one that is converted names nothing |
| `ReferencesAreExact` | from `FrontInv`, both inclusions per argument. `Resoudre` asks, depth after depth, for traversals in the modules above (`AsksExist`, `ResoudreIs`). What it asks every closed set holds, by the least depth that would not be (`AskedIsReached`); and what it asks, with what the callers pass in other modules, is itself a closed set when the depths reach the root, so that what is reached is asked (`ReachedIsAsked`): a traversal that has one instance is not followed, and none is a variable and a resource. That a declaration has one instance is read on the collected resources and on the planned ones alike (`OnlyInstance`, `SoleIsAmong`), and the lists hold the addresses that are found (`ReferencesDesignate`, `InOrderIs`) |
| `ReductionsAreFaithful` | from `ReadInv`, along the mapping. A reduction leaves no field that is not mapped (`ScrubbedIsMapped`), and when no value that is read bears the name of a secret it is what the white list leaves, `Trim` (`NothingIsScrubbed`). A trimmed plan is a plan (`ReducedIsPlan`) whose keys are mapped (`ReducedIsMapped`); its resources are collected in the same places (`ReducedCollected`), its references designate the same addresses, for a reference is resolved with the addresses and what the callers pass, which are kept (`ResoudreSame`, `ReducedReferences`). The mapped fields cover what each specification of the type reads (`MappedCovers`): the same holes are filled (`SameInjected`), each item holds the same at every mapped path (`SameItems`), hence is projected alike (`SameProjection`). What is made of the one and of the other is paired, through both concatenations, and differs in a region whose path is nested at most (`RegionReduced`, `MakeReduced`, `AllMadeReduced`); the identities are the same (`IdentitiesReduced`), so that the second pass changes nothing more (`ResolvedReduced`) |

The mapping of a plan is proved to be what the theorems rely on: every resource of the plan that
has a type gets its rank once (`PlannedIs`, `PlannedOnce`), a projected attribute that is not a
constant was observed (`ProjectedIsObserved`), and what is made of a plan is a sequence of what is
made of each resource (`MadeIs`, `AppliedIs`). Where a definition is a recursive function on the
places of a sequence (`FlattenSeq`, a chain of transforms), its existence and what it preserves
are proved by the least place where they would fail (`LeastIndex`), since no induction theorem of
the library can be instantiated.

Checked by TLC and not proved: that a collection ends (`Terminates`), since liveness under fairness
and `ENABLED` are out of the prover's reach. The other way round, a few theorems state what no
run checks on its own, because a property that is checked contains it: `TypeCorrect` (`GateTypeOK`),
`RefusalsCorrect` (`NoResourceIsTrue`, `FailureIsSaid`), `CompletesAreWhole` and `CountsAreExact`
(`ContractKept`); or because it is only proved: `DiffMirrors`.

## 5. What is not modelled

* The parsing of JSON, YAML, XML and HCL: a document is the record it denotes. A document of
  another shape is an answer of `Live`.
* The signature of requests, the HTTP client, cosign, digests: external, modelled by what the
  code relies on (a call is answered or refused; a digest is its content).
* The rules, except those of the buckets and of the required tags: Rego evaluated by an external
  engine, of which a scan draws any set of findings.
* Lists that change between two pages (`internal/collect/engine.go:257`): the code has no means
  to notice, and no property covers it.
* The observation of attributes in a live scan: `LiveScan` draws it, `Projection` and `Buckets`
  say what it is. The same goes for the configuration of a scan, which `Front` follows.
* `CheckSchema`, the catalogue of permissions, the expected verdicts of the tenants: tests of
  the declared data of the repository, not of a run of the program.
* The values that a plan marks sensitive, which the reduction removes, and the attributes of a bucket
  that no rule of the model reads (the key of its encryption, the grants one by one).
* The transport policies: pure predicates on keys and TLS versions.
* Rendering, i18n, the banner, the documentation generator, the quality evidence, `control`,
  `provider`, `scsl`, `capability`, `version`: output of declared data; no decision of a scan.

Details of the code met on the way, which the models follow where they are in scope and which
no property is about: the name of a module is cut at the first dot of its key; the index of
origins keeps the first resource when the name of one is the identity of another; an item whose
field has the name of a referenced argument is attested as coming from the configuration;
credentials may be completed half from the environment and half from a file; the aliases of
two tag names that compare alike are walked in the order of a Go map; the configuration is
re-read over the defaults by the code and raw by the rules; a relaxed document replayed without
`--policy` seals no `config.json`.

## 6. Plan

Done: `Capability`, `Assessment`, `Gate`; `Outcomes`, `Collect`, `Live`, `CollectionContract`;
`Verdict`, `Bundle`, `Diff`, `Evidence`; `Settings`, `Projection`, `Plan`, `Buckets`, `Front`;
`LiveScan`, and the proofs of all of these.

A next step would be the lists that change between two pages, once the engine has a means to
notice them, and the composition of `Front` with `LiveScan`, which meet in the document.

None of the modules to prove about reaches a `RECURSIVE` operator.

## 7. Reading and running

    tlc -config MCGate.cfg MCGate                    # MCX.cfg with its module
    tlc -config MCFrontRefusedCall.cfg MCFront       # a sentence that the code contradicts
    tlapm Gate_proofs.tla

`PROJECT.json` gives the module of every cfg. Each property of a passing run has there a
mutant, a plausible bug of the code written next to the definition it replaces and commented
`(mutant)`, under which TLC finds the property violated.

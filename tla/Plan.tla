-------------------------------- MODULE Plan --------------------------------
(***************************************************************************)
(* A Terraform plan and the inventory it is mapped to.  The planned values *)
(* do not hold what is known only after the apply; the configuration holds *)
(* the references the operator wrote, and the mapping fills the holes with *)
(* the addresses they designate, then with the identities these take.      *)
(*                                                                         *)
(* A plan is [readable, values, configuration, sources]: the sequence of   *)
(* its resources [address, args, blocks], the configuration per scope, and *)
(* the block headers [decl, file, line] of each directory next to it.  An  *)
(* address is a text; Parts gives its [mods, decl], of a sequence of       *)
(* module calls [call, key] and a declaration [type, name].  The scope of  *)
(* a module is the calls that lead to it; a scope is configured as         *)
(* [refs, calls, args]: the traversals per declaration and argument, the   *)
(* directory of the local source of each call (at most one), and the       *)
(* traversals its caller passes.  A traversal is [root, target].           *)
(***************************************************************************)
EXTENDS Projection

CONSTANTS
    Parts,          \* [address -> [mods, decl]]
    Rank,           \* [address -> Nat]: the order of the texts
    Root,           \* [nested field -> its first segment], the identity elsewhere
    Dotted,         \* the instance keys of modules that hold a dot
    OwnedTypes,     \* the Terraform types with the prefix of the provider
    SecretFields    \* the fields, nested or not, whose name is one of a secret

IsSequence(s) == s \in Seq(ToSet(s))

ASSUME PlanAssumption ==
    /\ DOMAIN Rank = DOMAIN Parts
    /\ \A a \in DOMAIN Rank : Rank[a] \in Nat
    /\ \A a, b \in DOMAIN Rank : Rank[a] = Rank[b] => a = b
    /\ \A a \in DOMAIN Parts : IsSequence(Parts[a].mods)
    /\ "name" \notin DOMAIN Root
ASSUME AddressAssumption == "" \notin DOMAIN Parts

NoKey == ""
ProfondeurMax == 8

RootField(field) == IF field \in DOMAIN Root THEN Root[field] ELSE field
TypeOf(address) == Parts[address].decl.type
At(f, x) == IF x \in DOMAIN f THEN f[x] ELSE {}

(* What an expression refers to: a declaration, or a variable of its module *)
IsTraversal(t) == t = [root |-> t.root, target |-> t.target]
IsConfiguration(cfg) ==
    \A s \in DOMAIN cfg :
        /\ cfg[s] = [refs |-> cfg[s].refs, calls |-> cfg[s].calls, args |-> cfg[s].args]
        /\ \A v \in DOMAIN cfg[s].args : \A t \in cfg[s].args[v] : IsTraversal(t)
        /\ \A d \in DOMAIN cfg[s].refs :
            /\ "" \notin DOMAIN cfg[s].refs[d]
            /\ \A arg \in DOMAIN cfg[s].refs[d] : \A t \in cfg[s].refs[d][arg] : IsTraversal(t)

(* The keys of the values of a resource: its arguments and its blocks      *)
Keys(res) == {RootField(f) : f \in DOMAIN res.args} \cup DOMAIN res.blocks

(* An address is planned once; its keys are names; its repeated blocks, which *)
(* are not nested, are lists of functions from a field to a value           *)
IsPlan(plan) ==
    /\ plan = [readable |-> plan.readable, values |-> plan.values,
               configuration |-> plan.configuration, sources |-> plan.sources]
    /\ IsConfiguration(plan.configuration)
    /\ IsSequence(plan.values)
    /\ \A q, r \in ToSet(plan.values) : q.address = r.address => q = r
    /\ \A r \in ToSet(plan.values) :
        /\ r = [address |-> r.address, args |-> r.args, blocks |-> r.blocks]
        /\ r.address \in DOMAIN Rank
        /\ "" \notin Keys(r)
        /\ \A f \in DOMAIN r.blocks : RootField(f) = f /\ IsSequence(r.blocks[f])
        /\ \A f \in DOMAIN r.blocks : \A item \in ToSet(r.blocks[f]) :
              item = [k \in DOMAIN item |-> item[k]]
    /\ \A d \in DOMAIN plan.sources : \A h \in ToSet(plan.sources[d]) :
        h = [decl |-> h.decl, file |-> h.file, line |-> h.line]

(* collect and the sort by address: what has no type is left out.  The      *)
(* resource of rank k is the one that has k - 1 before it.                 *)
Collected(plan) ==
    LET typed == {r \in ToSet(plan.values) : TypeOf(r.address) # ""}
        Before(r) == {q \in typed : Rank[q.address] < Rank[r.address]}
    IN  [k \in 1..Cardinality(typed) |-> CHOOSE r \in typed : Cardinality(Before(r)) = k - 1]

-----------------------------------------------------------------------------
(* The references.                                                         *)

Calls(mods) == [i \in DOMAIN mods |-> mods[i].call]
ConfigAddress(address) == <<Calls(Parts[address].mods), Parts[address].decl>>

Instances(resources, scope, traversal) ==
    {i \in DOMAIN resources :
        /\ traversal.root = "resource"
        /\ ConfigAddress(resources[i].address) = <<scope, traversal.target>>}

(* The traversals that the caller of a module passed for one of its variables *)
Passed(cfg, scope, traversal) ==
    IF traversal.root = "var" /\ scope # <<>> /\ scope \in DOMAIN cfg
    THEN At(cfg[scope].args, traversal.target) ELSE {}

(* (mutant) a reference to several instances designates them all            *)
ResoudreEveryInstance(resources, cfg, cibles, scope) ==
    LET Caller(d) == SubSeq(scope, 1, Len(scope) - d)
        asked[d \in 0..ProfondeurMax] ==
            IF d = 0 THEN cibles
            ELSE UNION {Passed(cfg, Caller(d - 1), t) : t \in asked[d - 1]}
        found == UNION {UNION {Instances(resources, Caller(d), t) : t \in asked[d]} : d \in 0..ProfondeurMax}
    IN  {resources[i].address : i \in found}

(***************************************************************************)
(* resoudre: a declaration with one instance designates it; with several   *)
(* it designates nothing, for nothing tells them apart; a variable stands  *)
(* for what the calling module passed, up to a depth.                      *)
(***************************************************************************)
Resoudre(resources, cfg, cibles, scope) ==
    LET Caller(d) == SubSeq(scope, 1, Len(scope) - d)
        One(d, t) == Cardinality(Instances(resources, Caller(d), t)) = 1
        asked[d \in 0..ProfondeurMax] ==
            IF d = 0 THEN cibles
            ELSE UNION {Passed(cfg, Caller(d - 1), t) : t \in {t \in asked[d - 1] : ~One(d - 1, t)}}
        found == UNION {UNION {Instances(resources, Caller(d), t) : t \in {t \in asked[d] : One(d, t)}} :
                            d \in 0..ProfondeurMax}
    IN  {resources[i].address : i \in found}

(* Addresses in their order, in the manner of Collected                     *)
InOrder(A) ==
    [k \in 1..Cardinality(A) |-> CHOOSE a \in A : Cardinality({b \in A : Rank[b] < Rank[a]}) = k - 1]

(* Per argument, the sorted addresses it refers to, when there are any     *)
References(resources, cfg, address) ==
    LET scope == ConfigAddress(address)[1]
        declared == IF scope \in DOMAIN cfg /\ Parts[address].decl \in DOMAIN cfg[scope].refs
                    THEN cfg[scope].refs[Parts[address].decl] ELSE [arg \in {} |-> {}]
        Found(arg) == Resoudre(resources, cfg, declared[arg], scope)
    IN  [arg \in {arg \in DOMAIN declared : Found(arg) # {}} |-> InOrder(Found(arg))]

-----------------------------------------------------------------------------
(* The origin in the code.                                                 *)

CutKey == "[..."

(* moduleOf splits the address at the dots: one that is inside of a key     *)
(* ends the module there.                                                  *)
ModuleOf(address) ==
    LET mods == Parts[address].mods
        cuts == {i \in DOMAIN mods : mods[i].key \in Dotted}
        cut == CHOOSE i \in cuts : \A j \in cuts : i <= j
    IN  IF cuts = {} THEN mods
        ELSE [i \in 1..cut |-> IF i = cut THEN [call |-> mods[i].call, key |-> CutKey] ELSE mods[i]]

(* moduleDirsOf: the calls whose source, and every caller's, is local      *)
ModuleDirs(cfg, mods) ==
    LET Local(i) == LET scope == Calls(SubSeq(mods, 1, i - 1))
                    IN  IF scope \in DOMAIN cfg THEN At(cfg[scope].calls, mods[i].call) ELSE {}
    IN  IF mods = <<>> THEN {"."}
        ELSE IF \A i \in DOMAIN mods : mods[i].key = NoKey /\ Local(i) # {}
        THEN Local(Len(mods)) ELSE {}

(* (mutant) a header seen twice designates one of the two                   *)
HeadersFirstOf(sources, dirs, decl) ==
    LET seen == UNION {{<<d, i>> : i \in {i \in DOMAIN sources[d] : sources[d][i].decl = decl}} :
                        d \in dirs \cap DOMAIN sources}
    IN  IF seen = {} THEN {} ELSE {sources[at[1]][at[2]] : at \in {CHOOSE at \in seen : TRUE}}

(* indexDir: a header seen twice in the directory designates nothing       *)
Headers(sources, dirs, decl) ==
    LET seen == UNION {{<<d, i>> : i \in {i \in DOMAIN sources[d] : sources[d][i].decl = decl}} :
                        d \in dirs \cap DOMAIN sources}
    IN  {sources[at[1]][at[2]] : at \in {at \in seen : seen = {at}}}

Origin(sources, cfg, address) ==
    LET module == ModuleOf(address)
        headers == Headers(sources, ModuleDirs(cfg, module), Parts[address].decl)
    IN  IF headers = {} THEN [NoSource EXCEPT !.module = module]
        ELSE LET h == CHOOSE h \in headers : TRUE
             IN  [file |-> h.file, line |-> h.line, module |-> module]

ParsePlan(plan) ==
    LET resources == Collected(plan)
        cfg == plan.configuration
    IN  [i \in DOMAIN resources |->
            [address |-> resources[i].address, args |-> resources[i].args,
             blocks |-> resources[i].blocks,
             references |-> References(resources, cfg, resources[i].address),
             origin |-> Origin(plan.sources, cfg, resources[i].address)]]

-----------------------------------------------------------------------------
(* The mapping: a sequence of specifications                               *)
(* [tf, type, id, region, items, map, transforms, const].                  *)

(* champArgument: the argument that a path names, unless it descends       *)
Argument(alts) ==
    IF Len(alts) = 1 /\ RootField(alts[1].field) = alts[1].field THEN {alts[1].field} ELSE {}

(* (mutant) a reference replaces a value that the plan knows                *)
InjectedEvenIfKnown(spec, res) ==
    {a \in DOMAIN spec.map : \E f \in Argument(spec.map[a]) : f \in DOMAIN res.references}

(* champsInjectes: the attributes that a reference fills                   *)
Injected(spec, res) ==
    {a \in DOMAIN spec.map :
        \E f \in Argument(spec.map[a]) : f \notin Keys(res) /\ f \in DOMAIN res.references}

WithReferences(spec, res) ==
    LET filled == UNION {Argument(spec.map[a]) : a \in Injected(spec, res)}
        Address(f) == IF Len(res.references[f]) = 1 THEN Text(res.references[f][1])
                      ELSE ListOf(res.references[f])
    IN  [f \in filled \cup DOMAIN res.args |-> IF f \in filled THEN Address(f) ELSE res.args[f]]

AttestReferences(projected, spec, res) ==
    [projected EXCEPT !.prov = [a \in DOMAIN @ |->
        IF a \in Injected(spec, res)
        THEN Attestation("terraform", "configuration", TRUE, TRUE) ELSE @[a]]]

(* A repeated block makes one item each, whose parent is the resource      *)
ItemsOf(spec, res) ==
    LET values == WithReferences(spec, res)
    IN  IF spec.items = "" THEN <<[item |-> values, parent |-> Nothing]>>
        ELSE IF spec.items \in DOMAIN res.blocks
        THEN [i \in DOMAIN res.blocks[spec.items] |->
                [item |-> res.blocks[spec.items][i], parent |-> values]]
        ELSE <<>>

(* The transform of the region is declared under the name of its field     *)
RegionOf(spec, res) ==
    LET path == [from |-> "item", field |-> spec.region]
        transform == IF spec.region \in DOMAIN spec.transforms
                     THEN spec.transforms[spec.region] ELSE <<>>
        out == ProjectOne([item |-> res.args, parent |-> Nothing], <<path>>, transform).value
    IN  IF spec.region = "" THEN "" ELSE IdentityOf([region |-> out], "region")

(* The resource of an item, with what the second pass needs                *)
Make(provider, spec, res, item) ==
    LET OrElse(text, default) == IF text = "" THEN default ELSE text
        Resource(id, made) ==
            [provider |-> provider, type |-> spec.type, id |-> id,
             name |-> OrElse(IdentityOf(res.args, "name"), id),
             region |-> RegionOf(spec, res), attrs |-> made.attrs, prov |-> made.prov,
             source |-> res.origin]
        Of(made) == Resource(OrElse(IdentityOf(made.attrs, spec.id), res.address), made)
    IN  [address |-> res.address, spec |-> spec, injected |-> Injected(spec, res),
         resource |-> Of(WithConst(
                            AttestReferences(
                                ProjectAttested(item, spec.map, spec.transforms,
                                                [origin |-> "terraform", ref |-> spec.tf]), spec, res),
                            spec.const))]

AllMade(provider, specs, resources) ==
    LET MakeAll(res, spec, items) == [i \in DOMAIN items |-> Make(provider, spec, res, items[i])]
        MakeOf(res, spec) ==
            IF spec.tf = TypeOf(res.address) THEN MakeAll(res, spec, ItemsOf(spec, res)) ELSE <<>>
        Of(res) == FlattenSeq([k \in DOMAIN specs |-> MakeOf(res, specs[k])])
    IN  FlattenSeq([i \in DOMAIN resources |-> Of(resources[i])])

(* idParAdresse: the identity of an address is the one it took last        *)
IdParAdresse(made) ==
    [a \in {made[i].address : i \in DOMAIN made} |->
        LET mine == {i \in DOMAIN made : made[i].address = a}
        IN  made[CHOOSE i \in mine : \A j \in mine : j <= i].resource.id]

(* (mutant) the addresses of a list stay addresses                          *)
ResoudreSaufListes(m, ids) ==
    LET r == m.resource
        Id(v) == IF v.kind = "string" /\ v.of[1] \in DOMAIN ids THEN Text(ids[v.of[1]]) ELSE v
    IN  [r EXCEPT !.attrs = [a \in DOMAIN r.attrs |->
                                IF a \in m.injected THEN Id(r.attrs[a]) ELSE r.attrs[a]]]

(***************************************************************************)
(* resoudreVersLIdentite: in what a reference filled, and nowhere else,    *)
(* the address gives way to the identity.                                  *)
(***************************************************************************)
ResoudreVersLIdentite(m, ids) ==
    LET r == m.resource
        Id(t) == IF t \in DOMAIN ids THEN ids[t] ELSE t
        Of(v) == IF v.kind \in {"string", "list"}
                 THEN Val(v.kind, [i \in DOMAIN v.of |-> Id(v.of[i])]) ELSE v
        id == IF m.spec.id \in m.injected THEN Id(r.id) ELSE r.id
    IN  [r EXCEPT
            !.id = id,
            !.name = IF r.name = r.id THEN id ELSE r.name,
            !.attrs = [a \in DOMAIN r.attrs |->
                        IF a \in m.injected THEN Of(r.attrs[a]) ELSE r.attrs[a]]]

(* The types of the provider that the mapping does not declare are counted *)
Unmapped(specs, resources) ==
    LET types == OwnedTypes \ {specs[k].tf : k \in DOMAIN specs}
        Of(t) == Cardinality({i \in DOMAIN resources : TypeOf(resources[i].address) = t})
    IN  [t \in {t \in types : Of(t) > 0} |-> Of(t)]

Apply(provider, specs, resources) ==
    LET Second(made, ids) == [i \in DOMAIN made |-> ResoudreVersLIdentite(made[i], ids)]
        Passes(made) == Second(made, IdParAdresse(made))
    IN  [resources |-> Passes(AllMade(provider, specs, resources)),
         unmapped |-> Unmapped(specs, resources)]

-----------------------------------------------------------------------------
(* The plan of a reference tenant holds what the mapping reads, no more.   *)

(* (mutant) the list holds the first path of each attribute only            *)
MappedFirstFields(specs, type) ==
    LET mine == {k \in DOMAIN specs : specs[k].tf = type}
        Of(s) == {s.region, RootField(s.items)}
                    \cup {RootField(Head(s.map[a]).field) : a \in DOMAIN s.map}
    IN  IF mine = {} THEN {} ELSE ({"name"} \cup UNION {Of(specs[k]) : k \in mine}) \ {""}

MappedFields(specs, type) ==
    LET mine == {k \in DOMAIN specs : specs[k].tf = type}
        Of(s) == {s.region, RootField(s.items)}
                    \cup UNION {{RootField(s.map[a][i].field) : i \in DOMAIN s.map[a]} : a \in DOMAIN s.map}
    IN  IF mine = {} THEN {} ELSE ({"name"} \cup UNION {Of(specs[k]) : k \in mine}) \ {""}

CheckPlanAttributes(specs, plan) ==
    UNION {{TypeOf(r.address)} \X (Keys(r) \ MappedFields(specs, TypeOf(r.address))) :
            r \in Range(plan.values)}

(* The white list of reduce_module and reduce_config: what is read is kept *)
Trim(specs, plan) ==
    LET Kept(f, type) == Restrict(f, {k \in DOMAIN f : RootField(k) \in MappedFields(specs, type)})
        Resource(r) == [r EXCEPT !.args = Kept(@, TypeOf(r.address)), !.blocks = Kept(@, TypeOf(r.address))]
        Scope(c) ==
            [c EXCEPT !.refs = [d \in DOMAIN @ |-> Restrict(@[d], DOMAIN @[d] \cap MappedFields(specs, d.type))]]
    IN  [plan EXCEPT !.values = [i \in DOMAIN @ |-> Resource(@[i])],
                     !.configuration = [s \in DOMAIN @ |-> Scope(@[s])]]

(* scrub: what bears the name of a secret becomes null, read or not        *)
Scrub(res) ==
    LET Nulled(values) == [f \in DOMAIN values |-> IF f \in SecretFields THEN Null ELSE values[f]]
        Items(b) == IF b \in SecretFields THEN <<>>
                    ELSE [i \in DOMAIN res.blocks[b] |-> Nulled(res.blocks[b][i])]
    IN  [res EXCEPT !.args = Nulled(@), !.blocks = [b \in DOMAIN @ |-> Items(b)]]

(* The reduction, of a plan of which no value is marked sensitive          *)
Reduce(specs, plan) ==
    LET trimmed == Trim(specs, plan)
    IN  [trimmed EXCEPT !.values = [i \in DOMAIN @ |-> Scrub(@[i])]]

(* No value that the mapping reads bears the name of a secret               *)
NoSecretIsRead(specs, plan) ==
    \A r \in ToSet(plan.values) :
        LET mapped == MappedFields(specs, TypeOf(r.address)) IN
        /\ \A f \in DOMAIN r.args \cap SecretFields : RootField(f) \in mapped => r.args[f] = Null
        /\ \A b \in DOMAIN r.blocks \cap mapped :
            /\ b \in SecretFields => r.blocks[b] = <<>>
            /\ \A item \in ToSet(r.blocks[b]) : \A f \in DOMAIN item \cap SecretFields : item[f] = Null
=============================================================================

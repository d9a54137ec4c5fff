------------------------------- MODULE MCFront -------------------------------
(* A provider with a zone, two repeated blocks and a qualified region, and   *)
(* the flags, files, items, plans and exports it is scanned with.            *)
EXTENDS Front, TLC

Fn(pairs) == [x \in {p[1] : p \in pairs} |-> (CHOOSE p \in pairs : p[1] = x)[2]]

-----------------------------------------------------------------------------
(* Policies.                                                               *)

MCNorm == Fn({<<"", "">>, <<"--", "">>, <<"Env", "env">>, <<"env", "env">>,
              <<"environment", "environment">>, <<"stage", "stage">>,
              <<"Owner", "owner">>, <<"team", "team">>, <<"Project", "project">>})
MCLower == Fn({<<"High", "high">>, <<"Confirmed", "confirmed">>, <<"Live", "live">>})
MCNames == <<"Env", "Owner">>
MCNetworkNames == <<"Owner">>
MCAliases == Fn({<<"Env", {"environment"}>>, <<"Owner", {"team"}>>})
MCTypes == {"vm", Bucket}
MCProduction == {"prod", "live"}
MCStates == {"completed"}
C(p, k) == [parameter |-> p, kind |-> k]
MCConstraints ==
    Fn({<<"tags", {C("required_tags", "au_moins_aussi_strict_que_le_defaut"),
                   C("resource_types", "superset_du_defaut")}>>,
        <<"network", {C("network_required_tags", "au_moins_aussi_strict_que_le_defaut")}>>,
        <<"snapshots", {C("max_age_days", "au_plus_le_defaut"),
                        C("accepted_states", "sous_ensemble_du_defaut")}>>,
        <<"keys", {C("key_max_age_days", "au_plus_le_defaut")}>>,
        <<"secrets", {C("min_confidence", "au_plus_le_defaut")}>>,
        <<"protection", {C("production_values", "superset_du_defaut")}>>})
MCReferences ==
    [c \in DOMAIN MCConstraints \cup {"firewall"} |->
        CASE c \in {"tags", "network"} -> {"iso a5"}
          [] c = "snapshots" -> {"cis 11", "iso a8"}
          [] OTHER -> {"iso a8"}]
MCSubjects ==
    [p \in Parameters |->
        CASE p \in TagParameters -> SUBSET {"env", "environment", "stage", "owner", "team", "project"}
          [] p = "resource_types" -> {"vm", Bucket, "lb"}
          [] p = "production_values" -> {"prod", "live", "dev"}
          [] p = "accepted_states" -> {"completed", "pending"}
          [] p \in DayParameters -> {1, 2, 3, 4}
          [] p = "min_confidence" -> ToSet(ConfidenceLevels)]

F(name, values) == {name :> v : v \in values}
TagSettings ==
    {t @@ a :
        t \in {NoControls} \cup F("required_tags",
                {<<>>, <<"Env">>, <<"environment", "Owner">>, <<"env", "Owner", "Project">>,
                 <<"--", "Owner">>, <<"">>})
              \cup F("network_required_tags", {<<"team">>, <<"Owner", "Env">>, <<"Project">>}),
        a \in {NoControls} \cup F("aliases",
                {Fn({}), Fn({<<"Env", {"environment", "stage"}>>, <<"Owner", {"--"}>>}),
                 Fn({<<"Env", {"stage"}>>, <<"env", {}>>, <<"Owner", {"team"}>>})})}
OtherSettings ==
    F("resource_types", {{}, {"vm"}, {"vm", Bucket, "lb"}, {"vm", ""}})
    \cup F("production_values", {{"prod", "Live"}, {"prod"}, {"prod", "live", "dev", ""}})
    \cup F("accepted_states", {{}, {"completed", "pending"}, {"completed", ""}})
    \cup F("max_age_days", {0, 1, 2, 3}) \cup F("key_max_age_days", {0, 2, 4})
    \cup F("min_confidence", {"low", "High", "Confirmed", "probable", "unknown"})

Exempted(expires) == [f \in MandatoryFields |-> IF f = "expires_at" THEN expires ELSE "given"]
PolicyFile(controls, exceptions) ==
    [readable |-> TRUE, controls |-> controls, exceptions |-> exceptions]
PolicyFiles ==
    {PolicyFile({c}, <<>>) : c \in TagSettings \cup OtherSettings}
    \cup {PolicyFile({}, <<Exempted(e)>>) : e \in {"given", "blank", "unreadable"}}
    \cup {PolicyFile({}, <<>>), [PolicyFile({NoControls}, <<>>) EXCEPT !.readable = FALSE]}
Lax == PolicyFile({"max_age_days" :> 4 @@ "required_tags" :> <<"Owner">>}, <<>>)

Flags(policy, region, instant) == [policy |-> policy, region |-> region, instant |-> instant]
Plain == Flags({}, "", 1)
MCReplays == {Flags({}, "us", 2), Flags({Lax}, "", 2)}

-----------------------------------------------------------------------------
(* The live source.                                                        *)

Item(field) == [from |-> "item", field |-> field]
Parent(field) == [from |-> "parent", field |-> field]
S(op) == [op |-> op, arg |-> ""]
MCReadings == Fn({<<"lower", Fn({<<"ACCEPT", "accept">>})>>,
                  <<"region_of_zone", Fn({<<"eu-1", "eu">>, <<"us-1", "us">>})>>})
MCDefaults == Fn({<<"access_key", "">>, <<"secret_key", "">>, <<"region", "eu">>, <<"zone", "{region}-1">>})
MCTemplate == Fn({<<"{region}-1", Fn({<<"eu", "eu-1">>, <<"us", "us-1">>})>>})
MCBuckets == {"b1", "b2"}
MCGroups == {"AllUsers", "AuthenticatedUsers"}
MCSensitive == {"secret"}
MCWeak == {"weak"}
MCSouverainete == [declared |-> TRUE, secnumcloud |-> "qualifie", regions |-> <<"eu">>]

MCLiveSpec ==
    [type |-> "vm", id |-> "vm_id",
     map |-> Fn({<<"vm_id", <<Item("id")>>>>, <<"tags", <<Item("tags")>>>>,
                 <<"state", <<Item("state"), Item("status")>>>>, <<"encrypted", <<Item("crypt")>>>>}),
     transforms |-> Fn({<<"tags", <<S("list")>>>>, <<"state", <<S("lower")>>>>,
                        <<"encrypted", <<[op |-> "default_null", arg |-> "false"], S("to_bool")>>>>}),
     const |-> "exposed" :> Bool(FALSE)]

Creds(a, s, r) ==
    Fn({<<"access_key", a>>, <<"secret_key", s>>, <<"region", r>>, <<"zone", "">>})
CredFiles ==
    {{}} \cup {{[format |-> "scw", default |-> "", profiles |-> "" :> Creds("fa", "fs", "us")]},
               {[format |-> "osc", default |-> "default", profiles |-> "other" :> Creds("fa", "fs", "eu")]},
               {[format |-> "exoscale", default |-> "gone", profiles |-> "other" :> Creds("fa", "weak", "us")]}}
APIItems ==
    {<<[item |-> f, parent |-> Nothing]>> :
        f \in {"id" :> Text("i-1"),
               "id" :> Text("i-1") @@ "tags" :> Null @@ "state" :> Null @@ "status" :> Text("ACCEPT"),
               "tags" :> Text("a") @@ "crypt" :> Null,
               "id" :> Null @@ "state" :> Text("odd") @@ "crypt" :> Text("true")}}
Storage(kms, persisted) == [sseKMS |-> kms, tagsPersisted |-> persisted]
Lives ==
    {[env |-> Creds(k[1], k[2], r), profile |-> p, file |-> f, items |-> items,
      s3 |-> Storage(TRUE, TRUE), buckets |-> <<>>] :
        k \in {<<"ea", "es">>, <<"ea", "">>, <<"", "">>, <<"ea", "weak">>}, r \in {"", "us"},
        p \in {"", "other"}, f \in CredFiles, items \in APIItems}

(* Of the first bucket two calls vary together, of the second all or none   *)
Is(of) == [state |-> "read", of |-> of]
Unset(of) == [state |-> "unset", of |-> of]
Refused(of) == [state |-> "refused", of |-> of]
Statement(allow, source, negated) ==
    [allow |-> allow, wildcard |-> TRUE, source |-> source, negated |-> negated]
ACLs == {Refused(<<>>), Is(<<"owner">>), Is(<<"owner", "AllUsers">>)}
BucketPolicies ==
    {Refused(<<>>), Unset(<<>>), Is(<<Statement(FALSE, FALSE, FALSE)>>), Is(<<Statement(TRUE, TRUE, FALSE)>>),
     Is(<<Statement(TRUE, TRUE, FALSE), Statement(TRUE, TRUE, TRUE)>>), Is(<<Statement(TRUE, FALSE, FALSE)>>)}
Versionings == {Refused(""), Is(""), Is("Suspended"), Is("Enabled")}
Locks == {Refused(FALSE), Unset(FALSE), Is(FALSE), Is(TRUE)}
Encryptions == {Refused(<<>>), Unset(<<>>), Is(<<>>), Is(<<"AES256">>), Is(<<"AES256", "aws:kms">>)}
Taggings == {Refused(<<>>), Unset(<<>>), Is(<<"env">>), Is(<<"team", "environment", "secret">>)}
Answers(acl, policy, versioning, lock, encryption, tags) ==
    Fn({<<"GetBucketAcl", acl>>, <<"GetBucketPolicy", policy>>, <<"GetBucketVersioning", versioning>>,
        <<"GetObjectLockConfiguration", lock>>, <<"GetBucketEncryption", encryption>>,
        <<"GetBucketTagging", tags>>})
Clean == Answers(Is(<<"owner">>), Unset(<<>>), Is("Enabled"), Is(TRUE), Is(<<"aws:kms">>),
                 Is(<<"owner", "env">>))
Silent == Answers(Refused(<<>>), Refused(<<>>), Refused(""), Refused(FALSE), Refused(<<>>), Refused(<<>>))
Vary(call, answers) == {[Clean EXCEPT ![call] = a] : a \in answers}
Varied(one, answers, other, others) ==
    {[v EXCEPT ![other] = o] : v \in Vary(one, answers), o \in others}
Pairs(first) ==
    {<<[name |-> "b1", answers |-> a]>> \o more :
        a \in first, more \in {<<>>, <<[name |-> "b2", answers |-> Clean]>>, <<[name |-> "b2", answers |-> Silent]>>}}
Stores ==
    {Storage(TRUE, TRUE)} \X Pairs(Varied("GetBucketAcl", ACLs, "GetBucketPolicy", BucketPolicies)
                                    \cup Varied("GetBucketVersioning", Versionings,
                                                "GetObjectLockConfiguration", Locks))
    \cup {Storage(k, t) : k, t \in BOOLEAN}
            \X Pairs(Varied("GetBucketEncryption", Encryptions, "GetBucketTagging", Taggings))
StoredLives ==
    {[env |-> Creds("ea", "es", "us"), profile |-> "", file |-> {},
      items |-> <<[item |-> "id" :> Text("i-1") @@ "tags" :> ListOf(<<>>), parent |-> Nothing]>>,
      s3 |-> s[1], buckets |-> s[2]] : s \in Stores}

-----------------------------------------------------------------------------
(* The plans: a subset of these resources, two configurations, two trees.  *)

D(type, name) == [type |-> type, name |-> name]
A(mods, type, name) == [mods |-> mods, decl |-> D(type, name)]
In(call) == [call |-> call, key |-> NoKey]
Addresses ==
    << <<"acl.x", A(<<>>, "acl", "x")>>,
       <<"key.k", A(<<>>, "key", "k")>>,
       <<"lb.l", A(<<>>, "lb", "l")>>,
       <<"module.m.module.k.vm.w", A(<<In("m"), In("k")>>, "vm", "w")>>,
       <<"module.m.vm.w", A(<<In("m")>>, "vm", "w")>>,
       <<"module.m[a.b].sg.a", A(<<[call |-> "m", key |-> "a.b"]>>, "sg", "a")>>,
       <<"none", A(<<>>, "", "none")>>,
       <<"random.r", A(<<>>, "random", "r")>>,
       <<"rdb.d", A(<<>>, "rdb", "d")>>,
       <<"sg.a", A(<<>>, "sg", "a")>>,
       <<"sg.c[0]", A(<<>>, "sg", "c")>>,
       <<"sg.c[1]", A(<<>>, "sg", "c")>>,
       <<"vm.w", A(<<>>, "vm", "w")>> >>
MCParts == Fn({<<Addresses[i][1], Addresses[i][2]>> : i \in DOMAIN Addresses})
MCRank == Fn({<<Addresses[i][1], i>> : i \in DOMAIN Addresses})
MCRoot == "subregion_names.0" :> "subregion_names"
MCDotted == {"a.b"}
MCOwned == {"sg", "vm", "rdb", "acl", "lb", "key"}

Mapping(tf, type, id, region, items, map, transforms, const) ==
    [tf |-> tf, type |-> type, id |-> id, region |-> region, items |-> items,
     map |-> Fn(map), transforms |-> Fn(transforms), const |-> Fn(const)]
MCSpecs ==
    << Mapping("sg", "rule", "sg_id", "", "inbound",
               {<<"sg_id", <<Parent("name")>>>>, <<"cidr", <<Item("range"), Item("ip")>>>>},
               {<<"cidr", <<S("list")>>>>}, {<<"direction", Text("inbound")>>}),
       Mapping("sg", "sg", "sg_id", "", "", {<<"sg_id", <<Item("name")>>>>}, {}, {}),
       Mapping("vm", "vm", "vm_id", "zone", "",
               {<<"vm_id", <<Item("vm_id")>>>>, <<"groups", <<Item("groups")>>>>,
                <<"ip", <<Item("ip"), Item("old_ip")>>>>},
               {<<"zone", <<S("region_of_zone")>>>>, <<"groups", <<S("list")>>>>}, {}),
       Mapping("rdb", "database", "db_id", "", "",
               {<<"db_id", <<Item("name")>>>>, <<"key_id", <<Item("access_key")>>>>}, {}, {}),
       Mapping("acl", "database", "db_id", "", "rules",
               {<<"db_id", <<Parent("instance")>>>>, <<"filter", <<Item("ip")>>>>},
               {<<"filter", <<S("list")>>>>}, {}),
       Mapping("lb", "lb", "lb_name", "subregion_names.0", "",
               {<<"lb_name", <<Item("name")>>>>}, {<<"subregion_names.0", <<S("region_of_zone")>>>>}, {}) >>

Res(address, args, blocks) == [address |-> address, args |-> Fn(args), blocks |-> Fn(blocks)]
Rules == <<"range" :> Text("0/0"), "range" :> Null @@ "ip" :> Text("1/32"), Nothing>>
Named(t) == {<<"name", Text(t)>>}
(* What the plan knows of the virtual machines: nothing, or all of it       *)
Of(address, applied) ==
    CASE TypeOf(address) = "vm" ->
            Res(address, {<<"zone", Text("eu-1")>>, <<"old_ip", Text("10")>>, <<"secret", Text("s")>>}
                    \cup IF applied THEN {<<"vm_id", Text("i-9")>>, <<"groups", ListOf(<<"sg-9">>)>>} ELSE {}, {})
      [] address = "sg.a" -> Res(address, Named("front"), {<<"inbound", Rules>>, <<"extra", Rules>>})
      [] TypeOf(address) = "sg" -> Res(address, {}, {})
      [] TypeOf(address) = "rdb" ->
            Res(address, Named("base") \cup IF applied THEN {<<"access_key", Text("k")>>} ELSE {}, {})
      [] TypeOf(address) = "acl" -> Res(address, {}, {<<"rules", <<"ip" :> Text("0/0"), "ip" :> Null>>>>})
      [] TypeOf(address) = "lb" -> Res(address, Named("front") \cup {<<"subregion_names.0", Text("us-1")>>}, {})
      [] OTHER -> Res(address, {<<"secret", Text("s")>>}, {})

T(type, name) == [root |-> "resource", target |-> D(type, name)]
V(name) == [root |-> "var", target |-> name]
Other == [root |-> "other", target |-> "local.x"]
Scoped(refs, calls, args) == [refs |-> Fn(refs), calls |-> Fn(calls), args |-> Fn(args)]
Configurations ==
    {Fn({<<<<>>, Scoped({<<D("vm", "w"), Fn({<<"groups", {T("sg", "a"), T("sg", "c"), Other}>>,
                                              <<"secret", {T("sg", "a")}>>, <<"ip", {V("x")}>>})>>,
                         <<D("acl", "x"), Fn({<<"instance", {T("rdb", "d")}>>, <<"ip", {T("sg", "a")}>>})>>},
                        {<<"m", {"./m"}>>}, {})>>,
         <<<<"m">>, Scoped({<<D("vm", "w"), Fn({<<"groups", {V("ids"), T("sg", "a")}>>})>>},
                           {<<"k", deep>>}, {<<"ids", {T("sg", "a"), T("sg", "c")}>>})>>,
         <<<<"m", "k">>, Scoped({<<D("vm", "w"), Fn({<<"groups", {V("ids")}>>, <<"vm_id", {V("none")}>>})>>},
                                {}, {<<"ids", {V("ids"), T("vm", "w")}>>})>>}) :
        deep \in {{}, {"./m/k"}}}
    \cup {[s \in {} |-> Scoped({}, {}, {})]}

Head1(type, name, file, line) == [decl |-> D(type, name), file |-> file, line |-> line]
Trees ==
    {Fn({<<".", <<Head1("vm", "w", "main.tf", 3), Head1("sg", "a", "main.tf", 9)>> \o more>>,
         <<"./m", <<Head1("vm", "w", "m/main.tf", 1)>>>>, <<"./m/k", <<Head1("vm", "w", "m/k/a.tf", 2)>>>>}) :
        more \in {<<>>, <<Head1("sg", "a", "net.tf", 1), Head1("sg", "c", "net.tf", 7)>>}}

Fixed == <<"none", "vm.w", "key.k", "random.r", "lb.l">>
Pool == {"acl.x", "module.m.module.k.vm.w", "module.m.vm.w", "module.m[a.b].sg.a", "rdb.d", "sg.a",
         "sg.c[0]", "sg.c[1]"}
(* From last to first, for the plan is in no order                           *)
Sorted(P) == SelectSeq([i \in DOMAIN Addresses |-> Addresses[Len(Addresses) + 1 - i][1]],
                       LAMBDA a : a \in P)
PlanOf(addresses, applied, cfg, tree) ==
    [readable |-> TRUE, values |-> [i \in DOMAIN addresses |-> Of(addresses[i], applied)],
     configuration |-> cfg, sources |-> tree]
Whole ==
    CHOOSE cfg \in Configurations :
        /\ <<>> \in DOMAIN cfg
        /\ \A s \in DOMAIN cfg : DOMAIN cfg[s].calls # {} => Cardinality(UNION Range(cfg[s].calls)) = 1
Plans ==
    {PlanOf(Fixed \o Sorted(P), FALSE, Whole, CHOOSE t \in Trees : TRUE) : P \in SUBSET Pool}
    \cup {PlanOf(Fixed \o Sorted(P), FALSE, cfg, tree) :
            P \in {P \in SUBSET Pool : Cardinality(P) >= 7}, cfg \in Configurations, tree \in Trees}
    \cup {PlanOf(Fixed \o Sorted(P), TRUE, cfg, tree) :
            P \in {Pool, Pool \ {"rdb.d"}}, cfg \in Configurations, tree \in Trees}
    \cup {[PlanOf(<<>>, TRUE, cfg, tree) EXCEPT !.readable = FALSE] : cfg \in Configurations, tree \in Trees}

-----------------------------------------------------------------------------
(* The exports.                                                            *)

Vm(provider) ==
    [provider |-> provider, type |-> "vm", id |-> "i-1", name |-> "i-1", region |-> "us",
     attrs |-> Nothing, prov |-> [a \in {} |-> Attestation("api", "", FALSE, FALSE)], source |-> NoSource]
Tag(name, keys) == [name |-> name, keys |-> keys]
Config(fields) == [shape |-> "object", fields |-> fields]
Carried ==
    {{}, {[shape |-> "other", fields |-> NoControls]}}
    \cup {{Config(f)} : f \in
            {NoControls} \cup OtherSettings
            \cup F("required_tags", {<<>>, <<Tag("Env", {})>>, <<Tag("Env", {{}}), Tag("Owner", {})>>,
                                     <<Tag("x", {{"env"}}), Tag("y", {{"owner", "team"}})>>,
                                     <<Tag("x", {{"env"}}), Tag("y", {}), Tag("z", {})>>})}
Exports ==
    {[Document(<<Vm(p)>>, NoneUnmapped) EXCEPT !.provider = root, !.kind = k, !.config = c] :
        p \in {"", Provider}, root \in {"", Provider}, k \in {"array"}, c \in Carried}
    \cup {[Document(<<Vm(p)>>, NoneUnmapped) EXCEPT !.provider = root, !.shape = s, !.kind = k,
                                                    !.evaluated_at = {0}] :
            p \in {"", "else"}, root \in {Provider, "else"}, s \in {"object", "plan"}, k \in {"array", "other", "none"}}
    \cup {Document(<<Vm(""), GovernanceResourceIn("eu")>>, NoneUnmapped)}

-----------------------------------------------------------------------------

Sourced(mode, sources, flags) == [mode : {mode}, source : sources, flags : flags]
MCInvocations ==
    Sourced("live", Lives, {Plain, Flags({}, "eu", 1), Flags({Lax}, "us", 1)})
    \cup Sourced("live", StoredLives, {Plain, Flags({Lax}, "", 1)})
    \cup Sourced("plan", Plans, {Plain})
    \cup Sourced("plan", {PlanOf(Fixed, FALSE, c, t) : c \in Configurations, t \in Trees},
                 {Flags({f}, "", 1) : f \in PolicyFiles})
    \cup Sourced("export", Exports, {Plain, Flags({Lax}, "eu", 1)})
=============================================================================

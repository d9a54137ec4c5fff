----------------------------- MODULE Projection -----------------------------
(***************************************************************************)
(* The projection of a source document, an item of an API or a block of a  *)
(* Terraform plan, on the normalised attributes of a resource, and the     *)
(* attestation that says of each attribute where its value comes from.     *)
(*                                                                         *)
(* A document is a pair [item, parent] of functions from a path to a       *)
(* value; a path that is out of their domain is absent, which is not the   *)
(* same as a path that holds null.  A value is [kind, of], of a sequence   *)
(* of texts: a scalar holds one.                                           *)
(***************************************************************************)
EXTENDS Integers, Sequences, FiniteSets, SequencesExt

CONSTANTS
    Readings    \* [conversion -> [text -> text]]: what a conversion can read

Val(kind, of) == [kind |-> kind, of |-> of]
Null == Val("null", <<>>)
Text(t) == Val("string", <<t>>)
EmptyText == Text("")
Bool(b) == Val("bool", <<IF b THEN "true" ELSE "false">>)
ListOf(s) == Val("list", s)
Nothing == [x \in {} |-> Null]

(* A path is [from, field]; an attribute is mapped to a sequence of paths  *)
PathExists(doc, path) == path.field \in DOMAIN doc[path.from]
Lookup(doc, path) ==
    IF PathExists(doc, path) THEN doc[path.from][path.field] ELSE Null

SourcePresent(doc, alts) == \E i \in DOMAIN alts : PathExists(doc, alts[i])
LookupCoalesce(doc, alts) ==
    LET read == {i \in DOMAIN alts : Lookup(doc, alts[i]) # Null}
        first == CHOOSE i \in read : \A j \in read : i <= j
    IN  IF read = {} THEN Null ELSE Lookup(doc, alts[first])

-----------------------------------------------------------------------------
(* The transforms: a transform is a sequence of steps [op, arg].           *)

PlainOps == {"default", "default_null", "equals", "nonempty", "list", "kv", "to_bool", "table"}
KnownOps == PlainOps \cup DOMAIN Readings
ASSUME ReadingsAssumption == PlainOps \cap DOMAIN Readings = {}
ValidateTransform(transform) == {i \in DOMAIN transform : transform[i].op \notin KnownOps}

IsEmpty(v) == v.kind = "null" \/ v = EmptyText

(***************************************************************************)
(* A conversion of a text.  What it cannot read it leaves out, except for  *)
(* the zone, whose region is then the empty text, and the bounds of a      *)
(* range of ports, which are then zero.                                    *)
(***************************************************************************)
CanRead(op, v) == v.kind = "string" /\ v.of[1] \in DOMAIN Readings[op]
Unreadable(op, v) ==
    CASE op = "region_of_zone" -> EmptyText
      [] op \in {"range_from", "range_to"} -> Text("0")
      [] op \in {"lower", "upper", "first", "to_int"} -> v
      [] OTHER -> Null
Convert(op, v) ==
    IF v = Null THEN Null
    ELSE IF CanRead(op, v) THEN Text(Readings[op][v.of[1]]) ELSE Unreadable(op, v)

Step(v, step) ==
    CASE step.op = "default_null" -> IF v = Null THEN Text(step.arg) ELSE v
      [] step.op = "default"      -> IF IsEmpty(v) THEN Text(step.arg) ELSE v
      [] step.op = "equals"       -> Bool(v = Text(step.arg))
      [] step.op = "nonempty"     -> Bool(~IsEmpty(v) /\ v.of # <<>>)
      [] step.op = "list"         ->
            IF v.kind = "list" THEN v
            ELSE ListOf(IF IsEmpty(v) THEN <<>> ELSE v.of)
      [] step.op = "kv"           -> IF v.kind = "list" THEN v ELSE ListOf(<<>>)
      [] step.op = "to_bool"      ->
            IF v.kind = "string" /\ v.of[1] \in {"true", "false"} THEN Val("bool", v.of) ELSE v
      [] step.op = "table"        -> IF v = Text(step.arg[1]) THEN Text(step.arg[2]) ELSE v
      [] step.op \in DOMAIN Readings -> Convert(step.op, v)
      [] OTHER -> v

(* What counts as computed: a default that fires, a text read as a boolean *)
StepDerives(v, step) ==
    CASE step.op = "default_null" -> v = Null
      [] step.op = "to_bool" -> v.kind = "string" /\ Step(v, step).kind = "bool"
      [] OTHER -> TRUE

After(acc, step) ==
    [value |-> Step(acc.value, step), derived |-> acc.derived \/ StepDerives(acc.value, step)]
ApplyTransform(v, transform) ==
    LET chain[i \in 0..Len(transform)] ==
            IF i = 0 THEN [value |-> v, derived |-> FALSE] ELSE After(chain[i - 1], transform[i])
    IN  chain[Len(transform)]

-----------------------------------------------------------------------------
(* An attestation: [origin, source, observed, derived].                    *)

Attestation(origin, source, observed, derived) ==
    [origin |-> origin, source |-> source, observed |-> observed, derived |-> derived]

(* One attribute: the value it takes, Null when it is not projected        *)
ProjectOne(doc, alts, transform) ==
    LET One(v, present, out) ==
            IF transform = <<>>
            THEN [value |-> v, observed |-> present, derived |-> FALSE]
            ELSE IF v = Null /\ ~present
            THEN [value |-> Null, observed |-> FALSE, derived |-> FALSE]
            ELSE [value |-> out.value, observed |-> present,
                  derived |-> out.value # Null /\ out.derived]
        From(v) == One(v, SourcePresent(doc, alts), ApplyTransform(v, transform))
    IN  From(LookupCoalesce(doc, alts))

(* map: [attribute -> paths]; transforms: [some attributes -> transform]   *)
ProjectAttested(doc, map, transforms, source) ==
    LET TransformOf(a) == IF a \in DOMAIN transforms THEN transforms[a] ELSE <<>>
        Split(one) ==
            [attrs |-> [a \in {a \in DOMAIN one : one[a].value # Null} |-> one[a].value],
             prov  |-> [a \in DOMAIN one |->
                            Attestation(source.origin, source.ref, one[a].observed, one[a].derived)]]
    IN  Split([a \in DOMAIN map |-> ProjectOne(doc, map[a], TransformOf(a))])

(* The literals of a descriptor win, and are attested as such              *)
WithConst(projected, const) ==
    [attrs |-> [a \in DOMAIN projected.attrs \cup DOMAIN const |->
                    IF a \in DOMAIN const THEN const[a] ELSE projected.attrs[a]],
     prov  |-> [a \in DOMAIN projected.prov \cup DOMAIN const |->
                    IF a \in DOMAIN const
                    THEN Attestation("derived", "descriptor:const", FALSE, TRUE)
                    ELSE projected.prov[a]]]

(* An identifier is the text of the attribute that the descriptor names    *)
IdentityOf(attrs, attr) ==
    IF attr \in DOMAIN attrs /\ attrs[attr].kind = "string" THEN attrs[attr].of[1] ELSE ""

(* The place of the code that declares a resource; a live one has none      *)
NoSource == [file |-> "", line |-> 0, module |-> <<>>]

(* mapItems: the resources of a list of items read from an API             *)
MapItems(provider, spec, items, region, call) ==
    LET Resource(id, made) ==
            [provider |-> provider, type |-> spec.type, id |-> id, name |-> id,
             region |-> region, attrs |-> made.attrs, prov |-> made.prov, source |-> NoSource]
        Of(made) == Resource(IdentityOf(made.attrs, spec.id), made)
    IN  [i \in DOMAIN items |->
            Of(WithConst(ProjectAttested(items[i], spec.map, spec.transforms,
                                         [origin |-> "api", ref |-> call]), spec.const))]
=============================================================================

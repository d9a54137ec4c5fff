------------------------------ MODULE Capability ------------------------------
(***************************************************************************)
(* The capability guard ("garde de capacite"): what Pepin knows of a       *)
(* control before it looks at a finding, and what an inventory must carry  *)
(* for the absence of a finding to be a "pass".                            *)
(*                                                                         *)
(* The constants are the tables the binary embeds: the referential, the    *)
(* type and attribute tables of internal/genprovider and internal/assess,  *)
(* and the contract of ONE provider (a scan audits one provider).  The     *)
(* operators read an inventory; the module has no state.                   *)
(***************************************************************************)
EXTENDS FiniteSets

CONSTANTS
    Controls,          \* codes of the referential
    Types,             \* normalised resource types
    Attrs,             \* attribute names; the region of a resource is one of them
    NoType,            \* ControlType's "" : no type can be deduced from the code
    Main,              \* requiredAttr's "" key: the type the control judges
    PrimaryType,       \* [Controls -> Types \cup {NoType}]
    ExtraTypes,        \* [Controls -> SUBSET Types]: the correlated types
    Deciding,          \* [Controls -> [subset of Types \cup {Main} -> SUBSET Attrs]]
    RequireAll,        \* controls whose attributes combine with AND
    Governance,        \* codes with the prefix governance_
    ProviderReaders,   \* controls whose data is the provider descriptor itself
    AbsenceDeciders,   \* [Controls -> [subset of Types -> SUBSET Attrs]]
    TagControl,        \* governance_resource_required_tags, or NoType
    TaggedTypes,       \* tagging.resource_types of the effective configuration
    TypeEtat,          \* [Types -> Etats]: the contract's word on each type
    DeclaredNa,        \* controls listed under the contract's non_applicable
    Implemented,       \* controls whose fournisseurs list names the provider
    Resources,         \* identities a resource may have
    TypeOf             \* [Resources -> Types]

Etats == {"verifie", "a_verifier", "absent", "uncatalogued"}

ASSUME CatalogueAssumption ==
    /\ NoType \notin Types /\ Main \notin Types
    /\ PrimaryType \in [Controls -> Types \cup {NoType}]
    /\ ExtraTypes \in [Controls -> SUBSET Types]
    /\ DOMAIN Deciding = Controls
    /\ \A c \in Controls : /\ DOMAIN Deciding[c] \subseteq Types \cup {Main}
                           /\ \A t \in DOMAIN Deciding[c] : Deciding[c][t] \subseteq Attrs
    /\ DOMAIN AbsenceDeciders = Controls
    /\ \A c \in Controls : DOMAIN AbsenceDeciders[c] \subseteq Types
    /\ RequireAll \subseteq Controls /\ Governance \subseteq Controls
    /\ ProviderReaders \subseteq Governance
    /\ DeclaredNa \subseteq Controls /\ Implemented \subseteq Controls
    /\ TypeEtat \in [Types -> Etats] /\ TaggedTypes \subseteq Types
    /\ TypeOf \in [Resources -> Types]

\* The shape of the tables: the governance controls are the multi-type ones, and the tag
\* control reads the types its configuration names, not types of its own.
ASSUME CatalogueShape ==
    /\ \A c \in Controls : c \in Governance <=> PrimaryType[c] = NoType
    /\ TagControl \in Controls => TagControl \in Governance /\ ExtraTypes[TagControl] = {}

----------------------------------------------------------------------------
(* Inventories.  `value` is what the attribute map holds (a JSON null is a  *)
(* key without information), `sought` the keys of the resource's           *)
(* provenance, `incomplete` the types of the units whose collection failed. *)

AttrState == {"value", "null", "absent"}

Inventory ==
    [present    : SUBSET Resources,
     value      : [Resources -> [Attrs -> AttrState]],
     sought     : [Resources -> SUBSET Attrs],
     incomplete : SUBSET Types]

ResourcesOf(inv, t) == {r \in inv.present : TypeOf[r] = t}

ResourceTypesOf(inv) == {TypeOf[r] : r \in inv.present}

\* Pass 1 of attrsByTypeOf: what the collector exposes at least once on a type.
Exposed(inv, t) ==
    {a \in Attrs : \E r \in ResourcesOf(inv, t) : inv.value[r][a] = "value"}

\* Pass 2, one resource: the values that arrived, and the attributes that were
\* sought and not exposed by the source, provided a neighbour exposes them.
ObservedOn(inv, r) ==
    {a \in Attrs : \/ inv.value[r][a] = "value"
                   \/ /\ inv.value[r][a] = "absent"
                      /\ a \in inv.sought[r]
                      /\ a \in Exposed(inv, TypeOf[r])}

\* (mutant) one resource that carries the attribute opens the door to its neighbours.
AttrsByTypeUnion(inv) ==
    [t \in Types |-> UNION {ObservedOn(inv, r) : r \in ResourcesOf(inv, t)}]

\* The intersection over the resources of the type: never the union.
AttrsByTypeOf(inv) ==
    [t \in Types |->
        {a \in Attrs : /\ ResourcesOf(inv, t) # {}
                       /\ \A r \in ResourcesOf(inv, t) : a \in ObservedOn(inv, r)}]

\* ProvenanceOf: the attributes some resource of the type was asked for.
ProvenanceOf(inv) ==
    [t \in Types |-> UNION {inv.sought[r] : r \in ResourcesOf(inv, t)}]

----------------------------------------------------------------------------
(* What a control reads and whether its data was collected.                 *)

ControlTypes(c) ==
    (IF PrimaryType[c] = NoType THEN {} ELSE {PrimaryType[c]}) \cup ExtraTypes[c]

\* The contract confirms that the data the control needs is collected.
Verified(c) ==
    \/ c \in ProviderReaders
    \/ PrimaryType[c] # NoType /\ TypeEtat[PrimaryType[c]] = "verifie"
    \/ PrimaryType[c] = NoType /\ \E t \in ControlTypes(c) : TypeEtat[t] = "verifie"

\* NonApplicableReason is not empty.
NotApplicable(c) ==
    \/ c \in DeclaredNa
    \/ PrimaryType[c] # NoType /\ TypeEtat[PrimaryType[c]] = "absent"

Applicable(c, types) ==
    IF c \in Governance
    THEN ControlTypes(c) = {} \/ ControlTypes(c) \cap types # {}
    ELSE PrimaryType[c] # NoType /\ PrimaryType[c] \in types

TypesInScope(c, types) ==
    IF PrimaryType[c] # NoType THEN {PrimaryType[c]} ELSE ControlTypes(c) \cap types

\* The types on which the control's deciding data is required in this inventory.
DecidedTypes(c, types) ==
    {t \in Types : \/ t \in DOMAIN Deciding[c] /\ t \in types
                   \/ Main \in DOMAIN Deciding[c] /\ t \in TypesInScope(c, types)}

DecidingByType(c, t, types) ==
    UNION {Deciding[c][u] : u \in {u \in DOMAIN Deciding[c] :
              \/ u = t /\ t \in types
              \/ u = Main /\ t \in TypesInScope(c, types)}}

AttrsOnType(c, t, attrs, attrsByType) ==
    IF c \in RequireAll THEN attrs \subseteq attrsByType[t]
                        ELSE attrs \cap attrsByType[t] # {}

AttrCollected(c, types, attrsByType) ==
    \/ DOMAIN Deciding[c] = {}
    \/ /\ DecidedTypes(c, types) # {}
       /\ \A t \in DecidedTypes(c, types) :
             AttrsOnType(c, t, DecidingByType(c, t, types), attrsByType)

\* A correlated type is there and the data that links it is not.
CorrelationBroken(code, types, attrsByType) ==
    /\ code \in Controls
    /\ \E t \in (DOMAIN Deciding[code] \ {Main}) \cap types :
          ~AttrsOnType(code, t, Deciding[code][t], attrsByType)

\* Some field the control concludes from the absence of was never sought, on a
\* type of which Pepin did seek something.
UnattestedAbsence(c, provenance) ==
    \E t \in DOMAIN AbsenceDeciders[c] :
        /\ provenance[t] # {}
        /\ AbsenceDeciders[c][t] \ provenance[t] # {}

\* scanScope: the controls this scan could hope to conclude.
ScanScope == {c \in Implemented : ~NotApplicable(c)}

\* (mutant) the type a control judges, and not those it correlates.
DegradedByPrimary(incomplete) == {c \in ScanScope : PrimaryType[c] \in incomplete}

DegradedControls(incomplete) ==
    {c \in ScanScope :
        (IF c = TagControl THEN TaggedTypes ELSE ControlTypes(c)) \cap incomplete # {}}

=============================================================================

CONSTANTS
    Controls <- MCControls
    Types <- MCTypes
    Attrs <- MCAttrs
    NoType = "no type"
    Main = "main"
    PrimaryType <- MCPrimaryType
    ExtraTypes <- MCExtraTypes
    Deciding <- MCDeciding
    RequireAll = {"both"}
    Governance <- MCGovernance
    ProviderReaders = {"sovereign"}
    AbsenceDeciders <- MCAbsenceDeciders
    TagControl = "tags"
    TaggedTypes = {"vm"}
    TypeEtat <- MCTypeEtat
    DeclaredNa = {}
    Implemented <- MCImplemented
    Resources <- MCResources
    TypeOf <- MCTypeOf
    Findings <- MCGateFindings
    Codes <- MCCodes
    CodeOf <- MCGateCodeOf
    SubjectOf <- MCGateSubjectOf
    Inconclusive = {"unsure"}
    Subjects <- MCSubjects
    Target = "target"
    AnySubject = "any"
    Inventories <- MCGateInventories
    Policies <- MCGatePolicies
    Instants <- MCInstants
    SeverityOf <- MCSeverityOf
    CategoryOf <- MCCategoryOf
    ConfidenceOf <- MCConfidenceOf
    Gates <- MCGates
SPECIFICATION GateSpec
INVARIANT
    OneShowsADeviation

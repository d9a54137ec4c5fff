CONSTANTS
    Controls <- MCControls
    Types <- MCTypes
    Attrs <- MCAttrs
    NoType = "no type"
    Main = "main"
    PrimaryType <- MCPrimaryType
    ExtraTypes <- MCExtraTypes
    Deciding <- MCDeciding
    RequireAll = {"both"}
    Governance <- MCGovernance
    ProviderReaders = {"sovereign"}
    AbsenceDeciders <- MCAbsenceDeciders
    TagControl = "tags"
    TaggedTypes = {"vm"}
    TypeEtat <- MCTypeEtat
    DeclaredNa = {}
    Implemented <- MCImplemented
    Resources <- MCResources
    TypeOf <- MCTypeOf
    Findings <- MCFindings
    Codes <- MCCodes
    CodeOf <- MCCodeOf
    SubjectOf <- MCSubjectOf
    Inconclusive <- MCInconclusive
    Subjects <- MCSubjects
    Target = "target"
    AnySubject = "any"
    Inventories <- MCInventories
    Policies <- MCPolicies
    Instants <- MCInstants
SPECIFICATION Spec
INVARIANTS
    PassIsEarned
    ObservedDeviationStays
    EveryControlAnswered
    WaiversAreEarned
    ReportMatchesLines
PROPERTIES
    OnlyWithdraws

CONSTANTS
    Controls <- MCControls
    Types <- MCTypes
    Attrs = {"a"}
    NoType = "no type"
    Main = "main"
    PrimaryType <- MCPrimaryType
    ExtraTypes <- MCExtraTypes
    Deciding <- MCDeciding
    RequireAll = {}
    Governance = {"located", "tags", "sovereign"}
    ProviderReaders = {"sovereign"}
    AbsenceDeciders <- MCAbsenceDeciders
    TagControl = "tags"
    TaggedTypes = {"vm"}
    TypeEtat <- MCTypeEtat
    DeclaredNa = {}
    Implemented <- MCControls
    Resources <- MCResources
    TypeOf <- MCTypeOf
    Findings <- MCFindings
    Codes <- MCControls
    CodeOf <- MCCodeOf
    SubjectOf <- MCSubjectOf
    Inconclusive = {}
    Subjects <- MCSubjects
    Target = "target"
    AnySubject = "any"
    Inventories <- MCInventories
    Policies <- MCPolicies
    Instants = {1}
    SeverityOf <- MCSeverityOf
    CategoryOf <- MCCategoryOf
    ConfidenceOf <- MCConfidenceOf
    Gates = {"all"}
    Tasks <- MCTasks
    Root = "root"
    Items <- MCItems
    UnitNames = {"snapshots", "machines", "quotas"}
    TypeNames = {"snapshot", "vm", "quota"}
    PageSize = 1
    MaxPages = 2
    MaxGot = 4
    Refusals <- MCRefusals
    Listings <- MCListings
    Deafable = {2}
    Strangers = {3}
    Made <- MCMade
    Counted <- MCCounted
    Declared = {"gp"}
    Observations <- MCObservations
SPECIFICATION LiveScanSpec
INVARIANTS
    GreenIsWhole
    PassIsOnTheAccount
    NoResourceIsTrue
    FailureIsSaid
    InventoryIsReal

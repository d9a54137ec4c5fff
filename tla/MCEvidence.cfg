CONSTANTS
    Controls <- mcControls
    Facts <- mcFacts
    FactControl <- mcFactControl
    FactResource <- mcFactResource
    FactSince <- mcFactSince
    Secret <- mcSecret
    External <- mcExternal
    Resources <- mcResources
    Target = "tenant"
    NameOf <- mcNameOf
    StableOf <- mcStableOf
    mcDefault = default
    mcRelaxed = relaxed
    Configs <- mcConfigs
    DefaultConfig = default
    RelaxedBy <- mcRelaxedBy
    AnySubject = "any"
    NoFact = "none"
    Langs <- mcLangs
    Dirs = {d1, d2}
    Tenants <- mcTenants
    Policies <- mcPolicies
    Requests <- mcRequests
    NoScan = NoScan
    MaxScans = 2
    MaxTime = 2
    MaxFaults = 1
SPECIFICATION Spec
CHECK_DEADLOCK FALSE
INVARIANTS
    EvidenceTypeOK
    VerifiedIsOneScan
    SuccessVerifies
    HonestReDerives
    ReplayMovesOnlyWaivers
    RedactionIsConsistent
    DiffIsFaithful

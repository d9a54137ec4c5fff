\* What the documentation says of a call that is refused.  The command stops when it is ready.
SPECIFICATION Spec
CHECK_DEADLOCK FALSE
CONSTANTS
    Blank = ""
    Norm <- MCNorm
    Lower <- MCLower
    DefaultNames <- MCNames
    DefaultNetworkNames <- MCNetworkNames
    DefaultAliases <- MCAliases
    DefaultTypes <- MCTypes
    DefaultProduction <- MCProduction
    DefaultStates <- MCStates
    DefaultAge = 2
    DefaultKeyAge = 3
    Constraints <- MCConstraints
    ControlReferences <- MCReferences
    Readings <- MCReadings
    BucketNames <- MCBuckets
    PublicGroups <- MCGroups
    Sensitive <- MCSensitive
    Parts <- MCParts
    Rank <- MCRank
    Root <- MCRoot
    Dotted <- MCDotted
    OwnedTypes <- MCOwned
    SecretFields = {"secret", "access_key"}
    Invocations <- MCInvocations
    Replays <- MCReplays
    Provider = "prov"
    RegionKey = "region"
    NeedsKeys = TRUE
    WeakSecrets <- MCWeak
    CredDefaults <- MCDefaults
    Template <- MCTemplate
    LiveSpec <- MCLiveSpec
    Specs <- MCSpecs
    Souverainete <- MCSouverainete
    Subjects <- MCSubjects
INVARIANTS
    RefusedCallNeverPasses

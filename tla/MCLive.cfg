CONSTANTS
    Tasks <- MCTasks
    Root = "root"
    Items <- MCItems
    UnitNames = {"rule", "quota", "policy", "bucket", "inline policy", "cluster"}
    TypeNames = {"rule", "quota", "policy", "bucket", "cluster"}
    PageSize = 2
    MaxPages = 2
    MaxGot = 4
    Refusals <- MCRefusals
    Listings <- MCListings
    Deafable = {1, 3, 5}
    Strangers = {4}
SPECIFICATION FairLiveSpec
INVARIANTS
    CollectTypeOK
    KeptWhatWasRead
    ErrorIsTrue
PROPERTIES
    Terminates
    ContractKept

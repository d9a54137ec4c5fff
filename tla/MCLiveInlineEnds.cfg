CONSTANTS
    Tasks <- MCTasks
    Root = "root"
    Items <- MCItems
    UnitNames = {"rule", "quota", "policy", "bucket", "inline policy", "cluster"}
    TypeNames = {"rule", "quota", "policy", "bucket", "cluster"}
    PageSize = 2
    MaxPages = 2
    MaxGot = 4
    Refusals <- MCNoRefusal
    Listings <- MCListings
    Deafable = {6}
    Strangers = {4}
SPECIFICATION FairLiveSpec
PROPERTY InlineTerminates

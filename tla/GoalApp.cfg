\* One device; its background requests come in by the same port.
CONSTANTS
    phone = phone
    laptop = laptop
    own = own
    forwarded = forwarded
    Client = {phone}
    Port = {own}
    PortOf <- OnePort
    NoClient = NoClient
    RootMinutes = {40}
    LeafMinutes = {12}
    Splits <- MCSplits
    MaxGoals = 5
    MaxRoots = 1
    MaxRetry = 1
    MayReopen = FALSE
SPECIFICATION Spec
CHECK_DEADLOCK FALSE
INVARIANT PlanHolds
INVARIANT WorkedInOrder
INVARIANT AlwaysSomethingNext
INVARIANT JournalDoneHasEntry
 

SPECIFICATION Spec
CONSTANTS
    j1 = j1
    j2 = j2
    w1 = w1
    w2 = w2
    c1 = c1
    c2 = c2
    a1 = a1
    a2 = a2
    NoJob = NoJob
    Jobs = {j1, j2}
    Campaigns = {c1}
    Addresses = {a1, a2}
    CampaignOf <- OneCampaignOf
    Index <- OneIndex
    Address <- OneAddress
    Schedulers = {w1, w2}
    Operators = {}
    Hourly = 1
    Daily = 1
    Interval = 1
    Hour = 1
    Day = 1
    StaleAfter = 1
    MaxAttempts = 2
    Backoff <- ShortBackoff
    LostAckCommands = {"DATA"}
    MaxCrashes = 1
    MaxRetries = 1
SYMMETRY WorkerSymmetry
INVARIANTS
    AtMostOnceAccepted
    ResendableNotAccepted
PROPERTIES
    UncertainIsLeftAlone

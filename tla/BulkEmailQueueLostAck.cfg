SPECIFICATION Spec
CONSTANTS
    j1 = j1
    j2 = j2
    w1 = w1
    w2 = w2
    c1 = c1
    c2 = c2
    a1 = a1
    a2 = a2
    NoJob = NoJob
    Jobs = {j1, j2}
    Campaigns = {c1}
    Addresses = {a1, a2}
    CampaignOf <- OneCampaignOf
    Index <- OneIndex
    Address <- OneAddress
    Schedulers = {w1}
    Operators = {}
    Hourly = 2
    Daily = 3
    Interval = 1
    Hour = 2
    Day = 4
    StaleAfter = 1
    MaxAttempts = 2
    Backoff <- ShortBackoff
    LostAckCommands = {"DATA", "CONN"}
    MaxCrashes = 0
    MaxRetries = 0
INVARIANTS
    AtMostOnceAccepted

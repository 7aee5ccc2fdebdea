SPECIFICATION FairSpec
CONSTANTS
    j1 = j1
    j2 = j2
    w1 = w1
    w2 = w2
    c1 = c1
    c2 = c2
    a1 = a1
    a2 = a2
    NoJob = NoJob
    Jobs = {j1, j2}
    Campaigns = {c1, c2}
    Addresses = {a1}
    CampaignOf <- TwoCampaignsOf
    Index <- FirstIndex
    Address <- SharedAddress
    Schedulers = {w1}
    Operators = {}
    Hourly = 1
    Daily = 2
    Interval = 1
    Hour = 2
    Day = 3
    StaleAfter = 1
    MaxAttempts = 2
    Backoff <- ShortBackoff
    LostAckCommands = {"DATA"}
    MaxCrashes = 1
    MaxRetries = 0
PROPERTIES
    QueuedIsSettled
    InterruptedIsSettled

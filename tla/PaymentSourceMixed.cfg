SPECIFICATION Spec
CONSTANTS
    NoRead = NoRead
    NoSnapshot = NoSnapshot
    Ttl = 2
    MaxAge = 4
    Backoff = 1
    Active = 3
    Idle = 3
    Readers = {r1}
    Reads = {s1}
    MaxChanges = 1
INVARIANTS
    CodesMatchRows

CONSTANTS
    search = search
    daily = daily
    worker = worker
    operations = operations
    Keys = {search, daily}
    Senders = {worker, operations}
    NoKeyHeld = NoKeyHeld
    Ttl <- MCTtl
    SendLease = 1
SPECIFICATION FairJournal
INVARIANTS
    JournalTypeOK
    AtMostOnce
    JournalIsTruthful
PROPERTIES
    ClaimIsForEver
    EventsSettle
    ImplementsOnceOnly

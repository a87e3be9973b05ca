CONSTANTS
    lead = lead
    sale = sale
    rent = rent
    msg1 = msg1
    msg2 = msg2
    NoKey = NoKey
    DailyKey = DailyKey
    NoCriteria = NoCriteria
    NoRequest = NoRequest
    NoKeyHeld = NoKeyHeld
    Nothing = Nothing
    Worker = Worker
    Operations = Operations
    Senders = {Worker, Operations}
    Leads = {lead}
    Criteria = {sale}
    RequestKeys = {msg1, NoKey, DailyKey}
    Confirmations <- OneConfirmation
    Keys <- MCKeys
    Ttl <- ShortTtl
    SendLease = 0
    Lease = 0
    Cooldown = 0
    MaxJobs = 2
    MaxDay = 1
    MaxCases = 1
    MaxFaults = 0
    DailyDays = {1}
SPECIFICATION DeliverySpec
INVARIANTS
    DeliveryTypeOK
    NoticeFollowsSearch
CHECK_DEADLOCK FALSE

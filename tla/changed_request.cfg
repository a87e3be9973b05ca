CONSTANTS
    lead = lead
    sale = sale
    rent = rent
    msg1 = msg1
    msg2 = msg2
    NoKey = NoKey
    DailyKey = DailyKey
    NoCriteria = NoCriteria
    NoRequest = NoRequest
    NoKeyHeld = NoKeyHeld
    Nothing = Nothing
    Worker = Worker
    Operations = Operations
    Senders = {Worker, Operations}
    Leads = {lead}
    Criteria = {sale, rent}
    RequestKeys = {msg1, msg2, NoKey, DailyKey}
    Confirmations <- TwoConfirmations
    Keys <- MCKeys
    Ttl <- ShortTtl
    SendLease = 0
    Lease = 0
    Cooldown = 0
    MaxJobs = 2
    MaxDay = 1
    MaxCases = 2
    MaxFaults = 0
    DailyDays = {}
SPECIFICATION DeliverySpec
PROPERTIES
    ChangedRequestIsRefused
CHECK_DEADLOCK FALSE

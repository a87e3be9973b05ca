CONSTANTS
    lead = lead
    sale = sale
    rent = rent
    msg1 = msg1
    msg2 = msg2
    NoKey = NoKey
    NoCriteria = NoCriteria
    NoRequest = NoRequest
    Leads = {lead}
    Criteria = {sale}
    RequestKeys = {msg1, NoKey}
    Confirmations <- OneConfirmation
    Lease = 1
    Cooldown = 0
    MaxJobs = 2
    MaxDay = 1
    MaxCases = 1
    MaxFaults = 0
SPECIFICATION FairWorkflow
PROPERTIES
    ResumedSearchRuns
CHECK_DEADLOCK FALSE

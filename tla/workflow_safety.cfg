CONSTANTS
    lead = lead
    sale = sale
    rent = rent
    msg1 = msg1
    msg2 = msg2
    NoKey = NoKey
    NoCriteria = NoCriteria
    NoRequest = NoRequest
    Leads = {lead}
    Criteria = {sale, rent}
    RequestKeys = {msg1, msg2, NoKey}
    Confirmations <- MCConfirmations
    Lease = 1
    Cooldown = 0
    MaxJobs = 2
    MaxDay = 2
    MaxCases = 2
    MaxFaults = 1
SPECIFICATION WorkflowSpec
INVARIANTS
    WorkflowTypeOK
    HeldJobIsRunning
    OrphansComeFromFaults
    AnswerFollowsLiveCrawl
    OnlyLatestCaseIsLive
PROPERTIES
    AnswersAreFinal
CHECK_DEADLOCK FALSE

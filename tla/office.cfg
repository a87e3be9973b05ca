CONSTANTS
    Parts = {"phone", "consent", "run", "watch"}
    ali = ali
    sara = sara
    print1 = print1
    print2 = print2
    a = a
    b = b
    f = f
    w1 = w1
    w2 = w2
    rent = rent
    wide = wide
    narrow = narrow
    ReviewTTL = 4
    CheckTTL = 2
    OtpTTL = 2
    Cooldown = 1
    MaxAttempts = 2
    MaxSends = 3
    MaxClock = 7
    Staff <- MCStaff
    Managers <- MCManagers
    Prints <- MCPrints
    ConsentTTL = 2
    MaxDay = 2
    MaxConsents = 2
    MaxReviews = 2
    MaxEvents = 3
    Workers <- MCWorkers
    Listings <- MCListings
    Fresh <- MCFresh
    Site <- MCSite
    Deals <- MCDeals
    Policies <- MCPolicies
    Day = 1
    Pause = 1
    MaxWatchTime = 1
    MaxRows = 4
SYMMETRY MCSymmetry
SPECIFICATION MCSpec
CONSTRAINT FormsClosedWhenFull
INVARIANTS
    VerificationTypeOK
    ConsentBehindState
    VerifiedByLiveCode
    EffectiveRestsOnTwo
    NothingDecidedUnseen
    CheckpointBehindItems
    CompletedCoversSite
    WatchTypeOK
    NoHeadForgotten
    BackfillsInTurn
    OwnFiltersOnly
PROPERTIES
    StrandedNeedsReview
CHECK_DEADLOCK FALSE

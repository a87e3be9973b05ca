CONSTANTS
    Parts = {"picker", "form", "visits"}
    section1 = section1
    section2 = section2
    button = button
    mina = mina
    ali = ali
    Main = Main
    Sections <- MCSections
    Buttons <- MCButtons
    MaxMessages = 2
    MaxRevision = 1
    MaxQueued = 1
    VisitCustomers <- MCVisitCustomers
    Members <- MCMembers
    FormTTL = 1
    OfferTTL = 1
    MaxTime = 2
    MaxRequests = 2
    MaxOffers = 2
    MaxVisits = 3
    MaxWebVisits = 1
SYMMETRY MCSymmetry
SPECIFICATION MCSpec
CONSTRAINTS
    FewResumes
    FewIdleDesks
INVARIANTS
    FormTypeOK
    NoStepWithoutDeal
    TapAtMostOnce
    OneAnswerPerRequest
    BotNeverDoubleBooks
    MovedVisitIsGivenUp
PROPERTIES
    AcceptedForThisCase
    ImplementsVisitBook
CHECK_DEADLOCK FALSE

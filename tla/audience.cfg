SPECIFICATION Spec
CONSTANTS
    Subscribers = {x}
    Lists = {l1, l2}
    DoubleList = l1
    Requests = {r1, r2}
    BounceTypes = {"hard", "complaint", "soft"}
    EditStatuses = {"enabled", "blocklisted"}
    AllowBlocklist = TRUE
    AllowPreferences = TRUE
    AllowWipe = TRUE
    SendOptin = TRUE
    MaxInputs = 3
    InitialLists <- TwoKinds
    BounceAction <- OneOfEach
    QueueSize = 1
    ScanLimit = 2
    MaxFaults = 1
INVARIANTS TypeOK OptOutKept ConfirmedHasConsent MailsCounted CountActs
PROPERTIES ConfirmationKept BlocklistingLiftedByStaleOnly
SYMMETRY Symmetry
CHECK_DEADLOCK FALSE

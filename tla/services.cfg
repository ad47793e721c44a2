SPECIFICATION Spec
CONSTANTS
    r1 = r1
    r2 = r2
    l1 = l1
    l2 = l2
    p1 = p1
    p2 = p2
    Parts <- AllParts
    Users = {u1, u2}
    UserRequests <- Two
    EnvAdmin = FALSE
    LegacyAdmin = TRUE
    NewUsers <- TestUsers
    Edits <- TestEdits
    MaxChanges = 4
    MaxUserFaults = 1
    LoginRequests <- Two
    Tokens = {t1}
    MaxTries = 2
    MaxPasswords = 2
    MaxSessions = 3
    MaxLoginFaults = 1
    SettingsRequests <- Two
    PipedCampaigns = {k1}
    MaxSaves = 3
    MaxStarts = 2
    WebLists <- TwoLists
    Clicks <- Two
    MaxRetries = 1
    EnvSettings <- TestEnvs
    MaxWebEvents = 2
    Browsers <- Two
    ChannelSize = 2
    LogSize = 2
    MaxLines = 4
    Processes <- Two
    OlderReleases = {1, 15}
    MaxStartups = 2
    MaxUpgradeFaults = 1
    TplRequests <- Two
    MaxTemplates = 3
    MaxTplWrites = 3
    TxRequests <- Two
    Recipients = 3
    MediaRequests <- Two
    MediaKinds = {"image", "vector", "other"}
    MaxUploads = 2
    PushRequests <- Two
    PushTokens <- TwoTokens
SYMMETRY Symmetry
VIEW View
INVARIANTS TypeOK CacheFresh SetupEnds OldSessionsEnd SavedSettingsHold ConfirmationReported MissedOnlyWhenFull UpgradesComplete CopiesFollowRows FanOutsAnswered
PROPERTIES SuperAdminKept TokenEnds
CHECK_DEADLOCK FALSE

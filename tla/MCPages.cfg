\* Two users of one address, three attempts in two ticks, locked for three ticks after
\* two failures; two catalogs and two writes; lists of three jobs; two logins, logouts
\* and uploads; one failing request of every part; two widths of the pane; one job.
CONSTANTS
    Users = {n1, n2}
    MAX_ATTEMPTS = 3
    WINDOW = 2
    MAX_FAILURES = 2
    LOCKOUT = 3
    NoLock = NoLock
    MaxRequests = 5
    MaxTime = 4
    Idle = Idle
    Asked = Asked
    NoData = NoData
    MaxFailures = 1
    overrides = overrides
    materials = materials
    units = units
    n1 = n1
    n2 = n2
    Overrides = overrides
    Catalogs = {materials, units}
    Materials = materials
    Units = units
    Names = {n1, n2}
    Nothing = Nothing
    NoName = NoName
    NoWrite = NoWrite
    Hasty = {"json"}
    MaxHasty = 1
    MaxWrites = 2
    ListJobs <- MCJobs
    ListCustomer <- MCCustomer
    ListRate <- MCRate
    Found <- MCFound
    PAGE_SIZE = 2
    RECENT = 1
    NoMutation = NoMutation
    ListStart <- OneArchived
    PagedStart <- NoneArchived
    ListControls = {"archived", "dashboard"}
    PagedControls = {"search", "status", "sort", "pages"}
    MaxMutations = 2
    MaxOthers = 1
    MaxLogins = 2
    MaxLogouts = 2
    MaxExpiries = 1
    Files <- MCFiles
    Customers = {"", "c"}
    NoFile = NoFile
    NoUpload = NoUpload
    MaxSize = 2
    MaxUploads = 2
    MaxTrouble = 1
    s1 = s1
    s2 = s2
    c = c
    j = j
    StatJobs = {s1, s2}
    StatCustomer <- MCStatCustomer
    Month <- MCMonth
    NoCustomer = NoCustomer
    Unbekannt = Unbekannt
    MaxCorrections = 1
    MaxChanges = 1
    PdfPages <- MCPdfPages
    Width <- MCWidth
    Sources <- MCSources
    NoSource = NoSource
    PaneWidths = {4, 5}
    MaxReloads = 2
    WorkJobs = {j}
    KnownJobs = {}
    NoJob = NoJob
    NoResult = NoResult
    Purgeable = {}
    MaxEdits = 1
    MaxSent = 2
SPECIFICATION PagesSpec
CHECK_DEADLOCK FALSE
INVARIANTS
    PartsTypeOK
    WindowBound
    FailuresBounded
    OwnContent
    PagesAreTrue
    PagesHoldTheList
    PurgedWasArchived
    HighlightAligned
    AggregatesAgree
PROPERTIES
    TypedTextKept
    WaitingEnds

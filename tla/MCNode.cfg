SPECIFICATION Spec
CONSTANTS
    nullopt = nullopt
    zero = zero
    Names <- MCNames
    Keys = {"k1", "k2", "k3"}
    Addresses = {"a1", "a2", "a3"}
    Numbers = {0, 1, 2, 3, 4, 5, 9, 30}
    Word = 1024
    IntRange = 32
    Size <- MCSize
    Alnum <- MCAlnum
    Genesis <- MCGenesis
    Submitted <- MCSubmitted
    MaxSignatures = 2
    MaxCommands = 2
    MaxHeight = 2
    CharRange = 2
    Layouts = {"l1", "l2"}
    vptr <- MCvptr
    ToriiLayout = "l1"
    ByteRange = 8
    ShortRange = 2
    History <- MCHistory
    Top = 2
    Texts <- MCTexts
    Times = {1, 6}
    MAX_DELAY = 4
    MaxCalls = 2
    Written <- MCWritten
    Previous <- MCPrevious
    VoteSigs <- MCVoteSigs
    Hosts = {"a1", "a2", "a3"}
    Number <- MCNumber
    Files <- MCFiles
    Confs <- MCConfs
    Documents <- MCDocuments
    Joins <- MCJoins
    MaxWire = 1
    MaxStarts = 4
    MaxBootstraps = 2
    Clusters <- MCClusters
    News <- MCNews
    Fragile = {"n1"}
    MaxFaults = 1
    Additions <- MCAdditions
    MaxIndexCalls = 4
    MaxRefused = 1
    MaxEnds = 1
    QueueKeys = {1, 2, 3, 4}
    QueueSizes = {0, 1, 2, 3}
    MinuteLen = 2
    HourLen = 2
    DayLen = 2
    SystemFirstDay <- MCFirstDay
    SystemLastDay = 24855
    SYSTEM_MKTIME_MIN <- MCMktimeMin
    SYSTEM_MKTIME_MAX <- MCMktimeMax
    Starts <- MCStarts
    Zones <- MCZones
    Contents <- MCContents
    Fills = {0, 255}
CHECK_DEADLOCK FALSE
INVARIANTS
    LedgerTypeOK
    MasterKeyIsSignatory
    BlockReplays
    AssetsConserved
    AnsweredTruly
    
    ContentKept
    HashKept
    BootstrapComplete
    OneOrderingService
    OnlyStrangersKill
    HandedIsSent
    OriginalUnlessTorn
    PingsGoOn
    IndexIsExecuted
    MaxKeyIsMax
    CalendarRight
    HashOfContent
PROPERTIES
    RightsAtStart
    CallsEnd
    WaiterReady

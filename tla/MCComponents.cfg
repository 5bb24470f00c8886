\* One component at a time.
CONSTANTS
    Goroutines = {g1, g2}
    Requests = {r1, r2}
    MaxFiles = 3
    MaxFileSize = 2
    MaxEvents = 9
    MaxFaults = 2
    Names <- MCNames
    Components <- MCComponentNames
    Unnamed = "default"
    Matching <- MCMatching
    Parents <- MCParents
    LogLevels <- MCLogLevels
    WarnLevel = 4
    DebugLevel <- MCDebugLevel
    BaseLevel <- MCDebugLevel
    Configs <- MCConfigs
    MaxChanges = 1
    SpanIds = {s1, s2, s3}
    MaxSpansPerTrace = 2
    MaxRefused = 1
    QueueSize = 1
    BatchSize = 2
    MaxRecords = 2
    Timer = Timer
    Closer = Closer
    BurstSize = 1
    Minute = 2
    MaxBurstRecords = 4
    MaxBurstTime = 6
    One = 10
    MinRate = 6
    MaxAdjusts = 2
    DebugName = "debug"
    InfoName = "info"
    MaxFactories = 2
    MaxUpdates = 2
    Codes = {x, y}
    Places = {op, None}
    Size = 2
    Interval = 2
    MaxTime = 7
    MaxErrors = 3
    Absent = Absent
    Torn = Torn
    Nobody = Nobody
    NoLevel = NoLevel
    NoSpan = NoSpan
    Unset = Unset
    NoFactory = NoFactory
    None = None
    Result = Result
SPECIFICATION Spec
INVARIANTS
    ComponentsTypeOK
    RotationForgetsTheOldest
    LevelsInForce
    SpansEndOnce
    RecordsAccounted
    HandedOverOnce
    SamplingAccounted
    LoggersAreCurrent
    RateMatchesErrors
    OrderlyEnd
    ConfigurationHolds
PROPERTY ShutdownCompletes
\* Goroutines return, the process ends, a reader may wait for itself for good.
CHECK_DEADLOCK FALSE

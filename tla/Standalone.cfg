SPECIFICATION Standalone
CONSTANTS
    SummerBegin <- MCSummerBegin
    SummerEnd <- MCSummerEnd
    LastMonth = 14
    MonthStart <- MCMonthStart
    FirstWeekday = 1
    Alarms <- MCAlarms
    Repeats <- MCRepeats
    Counts = {0, 3}
    Lead = 1
    Duration = 2
    Delays = {0, 30, 1000}
    Horizon = 8760
    Broadcast <- MCBroadcast
    NoEvent = NoEvent
    Adders = {eit, cn}
    EitThreads = {eit}
    MaxEvents = 1
    OldEventsAre = 0
    ToCache = 9
    LanguageModeOff = TRUE
    MaxNow = 2
    MaxZaps = 1
    MaxAdds = 3
    InfobarTime = 2
    BoxTime = 2
    LcdInterval = 2
    Stretch = 1
    PipeSize = 12
    Rate = 1
    MaxPresses = 2
    MaxEnd = 3
    MaxDevice = 3
INVARIANTS
    TypeOK
    WallTimeKept
    NextExpectedDay
    DistancesKept
    EveryTurnAdvances
    CacheTypeOK
    EventsFound
    NoOrphans
    CacheBounded
    OnlyOldRemoved
    InputTypeOK
    TimersOnTime
    KeysInOrder
    PressedOnce
    KeyNotLost
    NeverOverstays
    OwnMessagesFew
PROPERTIES
    OldEventsGo
    DuplicatesGo
    WaitsItsTime
CHECK_DEADLOCK FALSE

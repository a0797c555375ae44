SPECIFICATION Spec
CONSTANTS
    ch1 = ch1
    ch2 = ch2
    ch3 = ch3
    tp1 = tp1
    tp2 = tp2
    tp3 = tp3
    NoChannel = NoChannel
    NoTransponder = NoTransponder
    Channels <- TwoChannels
    Transponders <- TwoTransponders
    TransponderOf <- TwoOf
    Receivable <- TwoTransponders
    Frontends <- OneFrontend
    MaxId = 2
    AutoTimeshift = FALSE
    MaxEvents = 1
    MaxBoxes = 2
INVARIANTS RecordingKept
CHECK_DEADLOCK FALSE

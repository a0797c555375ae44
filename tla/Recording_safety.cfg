SPECIFICATION Spec
CONSTANTS
    ch1 = ch1
    ch2 = ch2
    ch3 = ch3
    tp1 = tp1
    tp2 = tp2
    tp3 = tp3
    NoChannel = NoChannel
    NoTransponder = NoTransponder
    Channels <- TwoChannels
    Transponders <- TwoTransponders
    TransponderOf <- TwoOf
    Receivable <- TwoTransponders
    Frontends <- TwoFrontends
    MaxId = 2
    AutoTimeshift = TRUE
    MaxEvents = 1
    MaxBoxes = 2
SYMMETRY TwoSymmetry
INVARIANTS TypeOK RecordingWillStop RecordModeFollows
PROPERTIES LockHolds
CHECK_DEADLOCK FALSE

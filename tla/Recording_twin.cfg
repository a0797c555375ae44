SPECIFICATION Spec
CONSTANTS
    ch1 = ch1
    ch2 = ch2
    ch3 = ch3
    tp1 = tp1
    tp2 = tp2
    tp3 = tp3
    NoChannel = NoChannel
    NoTransponder = NoTransponder
    Channels <- ThreeChannels
    Transponders <- ThreeTransponders
    TransponderOf <- ThreeOf
    Receivable <- ThreeTransponders
    Frontends <- TwoFrontends
    MaxId = 2
    AutoTimeshift = FALSE
    MaxEvents = 1
    MaxBoxes = 2
INVARIANTS RecorderTuned
CHECK_DEADLOCK FALSE

SPECIFICATION FairSpec
CONSTANTS
    daily = daily
    byHand = byHand
    zap = zap
    web = web
    next = next
    AutoTimer = AutoTimer
    Timers = {byHand, zap, next, web}
    Request <- MCRequest
    Edits <- NoEdits
    Period = 2
    PreTime = 0
    MaxAdded = 2
    MaxTime = 3
    MaxBoots = 1
    MaxId = 3
PROPERTIES
    RecordingEnds
    RemovalIsSaved
    DueEventFires
CHECK_DEADLOCK FALSE

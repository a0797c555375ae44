SPECIFICATION Spec
CONSTANTS
    daily = daily
    byHand = byHand
    zap = zap
    web = web
    next = next
    AutoTimer = AutoTimer
    Timers = {daily}
    Request <- MCRequest
    Edits <- NoEdits
    Period = 2
    PreTime = 0
    MaxAdded = 2
    MaxTime = 4
    MaxBoots = 2
    MaxId = 5
INVARIANT AnnouncedBeforeStart
CHECK_DEADLOCK FALSE

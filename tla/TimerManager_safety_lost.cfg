SPECIFICATION Spec
CONSTANTS
    daily = daily
    byHand = byHand
    zap = zap
    web = web
    next = next
    AutoTimer = AutoTimer
    Timers = {daily}
    Request <- MCRequest
    Edits <- NoEdits
    Period = 2
    PreTime = 1
    MaxAdded = 2
    MaxTime = 2
    MaxBoots = 2
    MaxId = 5
INVARIANT ExtraTimesSaved
CHECK_DEADLOCK FALSE

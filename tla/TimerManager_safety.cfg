SPECIFICATION Spec
CONSTANTS
    daily = daily
    byHand = byHand
    zap = zap
    web = web
    next = next
    AutoTimer = AutoTimer
    Timers = {daily, zap, web}
    Request <- MCRequest
    Edits <- MCEdits
    Period = 2
    PreTime = 0
    MaxAdded = 2
    MaxTime = 4
    MaxBoots = 2
    MaxId = 5
INVARIANTS
    TypeOK
    RecordingIsRunning
    SavedUnlessDirty
    NoDuplicateTimers
PROPERTIES
    ImplementsRecordTimer
    WakesForTimers
CHECK_DEADLOCK FALSE

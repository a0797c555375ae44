SPECIFICATION FairSpec
CONSTANTS
    one = one
    two = two
    Channels = {one, two}
    HasEpg = {one}
    StartChannels = {one}
    LastProgram = 1
    MaxQueue = 2
    MaxChanges = 2
    MaxWebZaps = 1
    None = None
INVARIANTS
    TypeOK
    EpgOfChannel
    CurrentIsNotNext
PROPERTIES
    ZapSettles
    AllOnLastChannel
    EpgArrives
CHECK_DEADLOCK FALSE

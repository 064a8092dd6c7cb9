\* Two slots; a start, an exec and a stop want them.
CONSTANTS
    s1 = s1
    a1 = a1
    p1 = p1
    Starts = {s1}
    Asks = {a1}
    Stops = {p1}
    Loop = Loop
    MaxConnections = 2
SPECIFICATION FairSpec
INVARIANTS
    SlotsAreHandlers
    RoomInChannel
    WarnedBeforePrompt
PROPERTIES
    ChannelKeepsContract
    SlotsComeBack
    StopNeedsNoClient
CHECK_DEADLOCK FALSE

\* Two signals, two pipes, one write to each.
CONSTANTS
    s1 = s1
    s2 = s2
    out = out
    err = err
    Signals = {s1, s2}
    Pipes = {out, err}
    NoSignal = NoSignal
    MaxWrites = 1
SPECIFICATION FairSpec
INVARIANTS
    FramesWhole
    StreamsClosedIsTrue
    OutputBeforeStatus
    StatusNamesSignal
PROPERTIES
    RequestKeepsContract
    SignalEndsClient
    EndOfCommandEndsClient
CHECK_DEADLOCK FALSE

SPECIFICATION FairSpec
CONSTANTS
    Handlers = {}
    Pumps = {p1}
    None = None
    Buffer = 1
    MaxCalls = 2
CHECK_DEADLOCK FALSE
INVARIANTS FramesIntact
PROPERTIES WritesReturn FailureEndsTunnel ImplementsChannels

SPECIFICATION FairSpec
CONSTANTS
    Subs = {s1, s2}
    NumChannels = 1
    PerChannel = 2
    Environment = {"clientClose"}
    MaxUndercount = 1
INVARIANTS
    CounterTracksStreams
PROPERTIES
    ReconnectsEventually
CHECK_DEADLOCK FALSE

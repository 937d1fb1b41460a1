SPECIFICATION Spec
CONSTANTS
    Subs = {s1}
    NumChannels = 1
    PerChannel = 1
    Environment = {}
    MaxUndercount = 1
INVARIANTS
    CloseIsFinal

SPECIFICATION Spec
CONSTANTS
    c1 = c1
    c2 = c2
    Callers = {c1, c2}
    Clients <- MCClients
    Ops <- MCOps
    Arguments <- MCArguments
    DefaultCache <- MCDefaultCache
    DefaultTtl <- MCDefaultTtl
    MaxCalls <- MCMaxCalls
    Faults <- MCFaults
    Modulus = 16
    OneHour = 3
    Never = 1000
INVARIANTS
    CollectionTtlOfRefreshes

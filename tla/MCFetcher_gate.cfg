\* Host news may never answer; three hosts with one slot each could fill a pool of
\* three, so both limits bind.
CONSTANTS
    c1 = c1  c2 = c2  c3 = c3  c4 = c4
    news = news  api = api  push = push
    Calls = {c1, c2, c3, c4}
    Hosts <- MCHosts
    HostOf <- MCHostOf
    PerHostLimit = 1
    MaxConcurrent = 2
SPECIFICATION MCSlowNews
INVARIANTS TypeOK SlotsSound
PROPERTY MCIsolation

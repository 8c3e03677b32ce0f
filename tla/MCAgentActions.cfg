\* A request, two clients that come and go on two processes, a restart.
SPECIFICATION FairSpec
CONSTANTS
    r1 = r1
    s1 = s1
    s2 = s2
    p1 = p1
    p2 = p2
    Requests = {r1}
    Sockets = {s1, s2}
    Processes = {p1, p2}
    MaxRestarts = 1
INVARIANTS
    TypeOK
    StoresAgree
    PerformedOnce
    NoUpdateTwice
    QuietBroadcastReachesItsList
PROPERTIES
    CastsEnd
\* Every request is settled and nobody is connected any more.
CHECK_DEADLOCK FALSE

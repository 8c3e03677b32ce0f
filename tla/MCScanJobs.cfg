\* Two clients race on one scan of every type, with every fault.
SPECIFICATION FairSpec
CONSTANTS
    j1 = j1
    j2 = j2
    c1 = c1
    c2 = c2
    NoJob = NoJob
    Jobs = {j1}
    Clients = {c1, c2}
    ScanTypes = {"python", "fast", "detailed", "hybrid"}
    Faults = {"scanner", "database", "crash"}
INVARIANTS
    TypeOK
    FinishedFlowIsTerminal
    CompletedMeansStored
    ReferencesHold
PROPERTIES
    EndedStaysEnded
    ImplementsLifecycle
    ScanSettles

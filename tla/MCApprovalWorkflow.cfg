\* Three handlers race on one approval, with every operation.
CHECK_DEADLOCK FALSE
SPECIFICATION FairSpec
CONSTANTS
    p1 = p1
    h1 = h1
    h2 = h2
    h3 = h3
    NoApproval = NoApproval
    Approvals = {p1}
    Handlers = {h1, h2, h3}
    Operations = {"approve", "reject", "cancel", "cleanup"}
INVARIANTS
    TypeOK
    AnsweredLeavesPending
PROPERTIES
    NeverReopened
    QuietDecisionStands
    ExpiredIsForgotten

\* policy-engine/main.py: "Approve a pending action."
SPECIFICATION FairSystemSpec
CONSTANTS
    a1 = a1
    r1 = r1
    p1 = p1
    u1 = u1
    NoAction = NoAction
    Actions = {a1}
    Requests = {r1}
    MaxPoints = 1
    PolicyAnswers = {FALSE}
    PermissionAnswers = {TRUE, FALSE}
    Approvals = {p1}
    Users = {u1}
PROPERTIES
    ApprovalReleasesAction

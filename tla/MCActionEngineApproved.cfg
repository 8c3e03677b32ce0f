\* README: "Execute approved action".
SPECIFICATION Spec
CONSTANTS
    a1 = a1
    a2 = a2
    a3 = a3
    r1 = r1
    r2 = r2
    NoAction = NoAction
    Actions = {a1, a2}
    Requests = {r1, r2}
    MaxPoints = 1
    PolicyAnswers = {TRUE, FALSE}
    PermissionAnswers = {TRUE, FALSE}
PROPERTIES
    ExecutesApprovedOnly

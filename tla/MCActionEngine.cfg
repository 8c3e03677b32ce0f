\* Two requests race on three actions; one more action than rollback points.
SPECIFICATION Spec
CONSTANTS
    a1 = a1
    a2 = a2
    a3 = a3
    r1 = r1
    r2 = r2
    NoAction = NoAction
    Actions = {a1, a2, a3}
    Requests = {r1, r2}
    MaxPoints = 2
    PolicyAnswers = {TRUE, FALSE}
    PermissionAnswers = {TRUE, FALSE}
INVARIANTS
    TypeOK
    PendingNeverExecuted
    ExecutingHasRunner
    RollbackPointsBounded
    PointKeptWhileRoom
PROPERTIES
    ImplementsLifecycle

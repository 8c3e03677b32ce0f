\* Two approvals, three users, an action of each chain and one without.
SPECIFICATION Spec
CONSTANTS
    p1 = p1
    p2 = p2
    u1 = u1
    u2 = u2
    u3 = u3
    Approvals = {p1, p2}
    Users = {u1, u2, u3}
    ActionNames = {"deploy", "delete", "restart"}
SYMMETRY Symmetry
INVARIANTS
    TypeOK
    QuorumDecides
    RecordedByApprovers
PROPERTIES
    DecisionIsFinal

\* approval_chain.py: "Multi-level approval for production deployments".
SPECIFICATION Spec
CONSTANTS
    p1 = p1
    p2 = p2
    u1 = u1
    u2 = u2
    u3 = u3
    Approvals = {p1}
    Users = {u1, u2}
    ActionNames = {"deploy"}
INVARIANTS
    ApprovedByDifferentPeople

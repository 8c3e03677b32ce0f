\* Two calls at a time on two teams with one row of access each, or two for one.
SPECIFICATION Spec
CONSTANTS
    u1 = u1
    x1 = x1
    t1 = t1
    t2 = t2
    c1 = c1
    a1 = a1
    a2 = a2
    h1 = h1
    h2 = h2
    Users = {u1}
    Unknown = {x1}
    Teams = {t1, t2}
    Clusters = {c1}
    Accesses = {a1, a2}
    Levels = {1, 3}
    Handlers = {h1, h2}
    MaxRows = 2
INVARIANTS
    TypeOK
    StandingGrantCounts
PROPERTIES
    RemovesWhatItSaw

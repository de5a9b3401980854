SPECIFICATION Spec
CONSTANTS
    Identities = {a1, i1}
    Admin = a1
    Callers = {p1, p2, p3}
    Moderation = TRUE
    MaxRows = 4
SYMMETRY Symmetry
INVARIANTS TypeOK OneAccountPerType ActiveWasApproved GivenByApproved
CHECK_DEADLOCK FALSE

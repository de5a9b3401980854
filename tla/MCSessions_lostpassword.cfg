SPECIFICATION Spec
CONSTANTS
    Credentials = {c1}
    Usernames = {u1, u2}
    SignIns = {}
    Refreshers = {}
    Changers = {}
    Resetters = {r1}
    Renamers = {n1}
    SessionTtl = 9
    NameCooldown = 1
    MaxSessions = 2
    MaxTime = 2
    MaxIssued = 1
    MaxChosen = 1
PROPERTY SaveTouchesOneField
CHECK_DEADLOCK FALSE

SPECIFICATION MCSpec
CONSTANTS
    Credentials = {c1}
    Usernames = {u1, u2}
    SignIns = {s1}
    Refreshers = {f1}
    Changers = {h1}
    Resetters = {r1}
    Renamers = {n1}
    SessionTtl = 9
    NameCooldown = 1
    MaxSessions = 2
    MaxTime = 1
    MaxIssued = 2
    MaxChosen = 2
INVARIANTS TypeOK RetiredPasswordOpensNothing EndedStaysEnded
CHECK_DEADLOCK FALSE

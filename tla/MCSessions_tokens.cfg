SPECIFICATION Spec
CONSTANTS
    Credentials = {c1}
    Usernames = {u1}
    SignIns = {s1}
    Refreshers = {f1, f2}
    Changers = {}
    Resetters = {}
    Renamers = {}
    SessionTtl = 3
    NameCooldown = 1
    MaxSessions = 1
    MaxTime = 3
    MaxIssued = 4
    MaxChosen = 1
SYMMETRY Symmetry
INVARIANTS ExchangedTokenIsDead SessionLimit
CHECK_DEADLOCK FALSE

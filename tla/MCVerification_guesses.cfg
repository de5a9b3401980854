SPECIFICATION Spec
CONSTANTS
    Emails = {e1}
    Requesters = {r1}
    Verifiers = {}
    Resetters = {s1, s2}
    Linkers = {}
    RequestCooldown = 1
    OtpTtl = 2
    BlockedCooldown = 3
    Hour = 4
    HourlyLimit = 2
    MaxAttempts = 2
    MaxTime = 3
    MaxRows = 2
    MaxAnswers = 3
INVARIANT GuessLimit
CHECK_DEADLOCK FALSE

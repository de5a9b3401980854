SPECIFICATION Spec
CONSTANTS
    Emails = {e1}
    Requesters = {r1, r2}
    Verifiers = {v1, v2}
    Resetters = {}
    Linkers = {l1}
    RequestCooldown = 1
    OtpTtl = 1
    BlockedCooldown = 2
    Hour = 3
    HourlyLimit = 2
    MaxAttempts = 2
    MaxTime = 4
    MaxRows = 4
    MaxAnswers = 3
SYMMETRY Symmetry
INVARIANTS GuessLimit SingleUse HourlyOvershoot
PROPERTY ImplementsOneTimeCode
CHECK_DEADLOCK FALSE

SPECIFICATION FairSpec
CONSTANTS
    Emails = {e1}
    Requesters = {r1}
    Verifiers = {v1}
    Resetters = {s1}
    Linkers = {l1}
    RequestCooldown = 1
    OtpTtl = 1
    BlockedCooldown = 2
    Hour = 3
    HourlyLimit = 2
    MaxAttempts = 2
    MaxTime = 2
    MaxRows = 2
    MaxAnswers = 3
INVARIANTS TypeOK OnePendingPerEmail NoPhantomAttempts LiveCodeHasAttemptsLeft
PROPERTY HandlersReturn
CHECK_DEADLOCK FALSE

SPECIFICATION Spec
CONSTANTS
    Types = {organizer}
    SignIns = {s1}
    Refreshers = {f1}
    AccessTokenTtl = 2
    MaxTime = 4
    MaxIds = 2
INVARIANTS TypeOK RolesAreRecent SignOutTakesEffect
CHECK_DEADLOCK FALSE

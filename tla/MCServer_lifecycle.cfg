SPECIFICATION FairSpec
CONSTANTS
    s1 = s1
    t1 = t1
    Servers = {s1}
    Tools = {t1}
    Release <- MCRelease
    Verifiers = {v1, v2}
    Sagas = {w1}
    PoolMax = 2
INVARIANTS TypeOK ServesItsSchema
PROPERTIES ImplementsSchemaUpgrade RunsEnd HandlersReturn StopsWhenTold
CHECK_DEADLOCK FALSE

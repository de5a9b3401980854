SPECIFICATION Spec
CONSTANTS
    Emails = {e1, e2}
    Phones = {t1, t2}
    Usernames = {u1}
    Sagas = {s1, s2}
    SignIns = {q1}
    Editors = {d1}
    Renamers = {n1}
    Attempts = 2
    Webhook = TRUE
    MaxIds = 2
    MaxFaults = 2
SYMMETRY Symmetry
INVARIANTS TypeOK NotifiedOfTheRegistered PeopleDistinct ReferencesHold AccountHasCredential NoHalfRegistration
PROPERTY FinishedStays
CHECK_DEADLOCK FALSE

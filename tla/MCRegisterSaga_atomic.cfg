SPECIFICATION Spec
CONSTANTS
    Emails = {e1, e2}
    Phones = {t1, t2}
    Usernames = {u1, u2}
    Sagas = {s1, s2}
    SignIns = {}
    Editors = {d1}
    Renamers = {n1}
    Attempts = 1
    Webhook = FALSE
    MaxIds = 2
    MaxFaults = 0
SYMMETRY Symmetry
PROPERTY ImplementsAtomicRegistration
CHECK_DEADLOCK FALSE

SPECIFICATION FairSpec
CONSTANTS
    User = {u1}
    Stream = {s1, s2}
    Request = {r1}
    Cleaner = {}
    Minder = m1
    None = None
INVARIANTS
    TypeOK
    RegisteredRuns
    ExpiryPending
    
PROPERTIES
    LobbyGoes
CHECK_DEADLOCK FALSE

SPECIFICATION FairSpec
CONSTANTS
    User = {u1}
    Video = {v1}
    Item <- MCItem
    Request = {r1, r2}
    Timer = {t1}
    Cleaner = {c1}
    UserQueueLimit = 1
    MaxSeconds = 600
    Answer <- MCAnswer
    UseScrape = TRUE
    HasKey = TRUE
    Capacity = 2
    None = None
    Free = Free
    Leaked = Leaked
PROPERTY
    NoResubmission
CHECK_DEADLOCK FALSE

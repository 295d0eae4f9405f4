SPECIFICATION FairSpec
CONSTANTS
    User = {u1, u2}
    Item = {v1}
    Request = {r1}
    Timer = {t1}
    Mode = "linear"
    Capacity = 1
    None = None
    Free = Free
    Leaked = Leaked
INVARIANTS
    TypeOK
    PlayingHasTimer
    MutexHeldInside
PROPERTIES
    PlaybackMovesOn
    SkipVoteEnds
CHECK_DEADLOCK FALSE

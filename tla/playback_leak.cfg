SPECIFICATION Spec
CONSTANTS
    User = {u1, u2}
    Item = {v1}
    Request = {r1, r2}
    Timer = {}
    Mode = "linear"
    Capacity = 1
    None = None
    Free = Free
    Leaked = Leaked
PROPERTY
    BlankSkipIsAnswered
CHECK_DEADLOCK FALSE

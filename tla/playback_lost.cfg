SPECIFICATION Spec
CONSTANTS
    User = {u1, u2}
    Item = {v1, v2}
    Request = {r1}
    Timer = {t1}
    Mode = "linear"
    Capacity = 2
    None = None
    Free = Free
    Leaked = Leaked
PROPERTY
    PickRemovesOne
CHECK_DEADLOCK FALSE

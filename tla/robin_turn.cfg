SPECIFICATION Spec
CONSTANTS
    Item = {u1, u2, u3}
    Request = {r1, r2}
    Timer = {t1}
    Turns = 3
    Capacity = 1
    None = None
    Free = Free
    Leaked = Leaked
INVARIANT EachHasATurn
CHECK_DEADLOCK FALSE

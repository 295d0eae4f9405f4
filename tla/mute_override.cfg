SPECIFICATION Spec
CONSTANTS
    u1 = u1
    u2 = u2
    u3 = u3
    ip1 = ip1
    ip2 = ip2
    User = {u1, u2, u3}
    IP = {ip1, ip2}
    IPOf <- MCIPOf
    CreatorIP = ip1
    Request = {r1,r2}
    Timer = {t1}
    MuteTime = 1
    Cooldown = 1
    MaxTime = 0
    None = None
    Free = Free
    Leaked = Leaked
SYMMETRY Symmetry
PROPERTY
    OneVoteAtATime
CHECK_DEADLOCK FALSE

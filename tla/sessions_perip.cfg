SPECIFICATION Spec
CONSTANTS
    u1 = u1
    u2 = u2
    u3 = u3
    ip1 = ip1
    User = {u1, u2, u3}
    IP = {ip1}
    IPOf <- MCSameIPOf
    Lobby = {l1, l2}
    Request = {r1, r2}
    Cleaner = {c1}
    MaxLobbies = 1
    None = None
INVARIANT
    OneSessionPerIP
CHECK_DEADLOCK FALSE

SPECIFICATION Spec
CONSTANTS
    u1 = u1  u2 = u2
    r1 = r1  r2 = r2  r3 = r3
    f1 = f1  f2 = f2
    None = None
    Users = {u1, u2}
    Requests = {r1, r2, r3}
    Fids = {f1, f2}
SYMMETRY Symmetry
INVARIANTS
    GarbageExplained
    NoBrokenAvatar
    AnswerExact

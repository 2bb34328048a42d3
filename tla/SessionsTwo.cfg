SPECIFICATION Spec
CONSTANTS
    b1 = b1  b2 = b2  r1 = r1  r2 = r2
    s1 = s1  s2 = s2  t1 = t1  t2 = t2  u1 = u1  u2 = u2
    None = None  Junk = Junk  NoRow = NoRow
    Browsers = {b1, b2}
    Requests = {r1, r2}
    Kinds = {"page", "login", "callback"}
    Sids = {s1, s2}
    Tokens = {t1, t2}
    Users = {u1}
SYMMETRY Symmetry
INVARIANTS
    UserProvenance
PROPERTIES
    AcceptsOwnState

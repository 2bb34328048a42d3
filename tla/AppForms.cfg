SPECIFICATION AppSpec
CONSTANTS
    b1 = b1  b2 = b2  t1 = t1  t2 = t2
    a1 = a1  a2 = a2  u1 = u1  u2 = u2  m1 = m1  m2 = m2  n1 = n1
    None = None
    Given = Given
    Trimmed = Trimmed
    Unfit = Unfit
    Logins = {b1}
    Tabs = {t1, t2}
    Browser <- MCBrowser
    Accounts = {a1, a2}
    Users = {u1, u2}
    Mails = {m1, m2}
    MailsOf <- MCMailsOf
    Usernames = {u1, u2}
    Username <- MCUsername
    Names = {n1}
SYMMETRY TabSymmetry
CONSTRAINT Unmoderated
INVARIANT FormsCurrent
PROPERTY EditsKept

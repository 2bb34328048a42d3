SPECIFICATION FairSpec
CONSTANTS
    l1 = l1  l2 = l2
    google1 = google1  google2 = google2  github = github
    u1 = u1  u2 = u2  u3 = u3
    m1 = m1  m2 = m2  m3 = m3
    n1 = n1  n2 = n2
    None = None
    Logins = {l1, l2}
    Accounts = {google1, google2, github}
    Users = {u1, u2}
    Mails = {m1, m3}
    MailsOf <- MCStableMailsOf
    Usernames = {n1}
    Username <- MCUsername
INVARIANTS
    NobodyStranded
PROPERTIES
    LoginsEnd

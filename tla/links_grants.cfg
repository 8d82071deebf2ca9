\* Two browsers of one person, two codes, a link that changes its locks.
SPECIFICATION Safety
CONSTANTS
    v1 = v1  v2 = v2
    e1 = e1  e2 = e2  p1 = p1  p2 = p2  k1 = k1  k2 = k2
    None = None
    Visitors = {v1, v2}
    Emails = {e1, e2}
    MailboxOf <- Mailboxes
    Passwords = {p1, p2}
    KnownTo <- Known
    Settings <- ThreeLocks
    CodeIds = {k1, k2}
    CodeTries = 1
    CodesPerWindow = 1
    PasswordTries = 1
SYMMETRY Symmetry
INVARIANTS AccessEarned CodeSpentOnce GuessesBounded
CHECK_DEADLOCK FALSE

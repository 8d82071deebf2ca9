\* Two requests, two sessions and links, three tokens, two passwords, limits of one.
SPECIFICATION Spec
CONSTANTS
    h1 = h1  h2 = h2  Nobody = Nobody
    s1 = s1  s2 = s2  t1 = t1  t2 = t2  t3 = t3  m1 = m1  m2 = m2
    Handlers = {h1, h2}
    Sessions = {s1, s2}
    Tokens = {t1, t2, t3}
    Mails = {m1, m2}
    LockoutAttempts = 1
    MaxTokens = 1
    MailsPerHour = 1
    MaxPasswords = 2
SYMMETRY Symmetry
INVARIANTS CredentialsFollowPassword CountsBounded
CHECK_DEADLOCK FALSE

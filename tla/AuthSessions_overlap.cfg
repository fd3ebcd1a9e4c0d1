\* Two requests in flight; the pools let each race happen once.
CONSTANTS
    Requests = {q1, q2}
    Sessions = {s1, s2, s3}
    Tokens = {t1, t2}
    Passwords = {p1, p2}
    ResetLimit = 1
SPECIFICATION Spec
SYMMETRY Symmetry
CHECK_DEADLOCK FALSE
INVARIANTS SessionsKnowPassword PasswordAsChosen OneSessionPerLogin LogoutEndsLogin ResetLimitHeld TokenUsedOnce

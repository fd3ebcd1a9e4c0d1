--------------------------- MODULE MCAuthSessions ---------------------------
EXTENDS AuthSessions, TLC

Symmetry ==
    Permutations(Sessions) \cup Permutations(Tokens) \cup Permutations(Passwords)
        \cup Permutations(Requests)
=============================================================================

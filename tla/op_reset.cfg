SPECIFICATION OperatorsSpec
CONSTANTS
    Logins = {l1}
    Admins = {a1}
    MAX_FAILED_LOGINS = 2
    LockSpan = 1
    SessionSpan = 2
    MaxSecret = 2
    MaxGuesses = 1
    MaxClock = 2
PROPERTY OldTokensEndAtOnce

SPECIFICATION ServerSpec
CONSTANTS
    Requests = {r1, r2}
    ContentIds = {c1, c2}
    Images = {i1}
    Fields = {f1}
    NoImage = NoImage
    Starts = {"created", "ingested", "published", "drafted"}
    MaxWork = 5
    Logins = {r1, r2}
    Admins = {a1}
    MAX_FAILED_LOGINS = 2
    LockSpan = 1
    SessionSpan = 2
    MaxSecret = 2
    MaxGuesses = 3
    MaxClock = 3
    Handlers = {r1, r2}
    MaxToken = 4
    MaxInvitation = 1
    Posts = {r1, r2}
    Enrollments = {e1}
    RequestIds = {q1, q2}
    Costs = {0, 1}
    Scale = 2
    Granted = 1
    MaxGeneration = 1
CONSTRAINTS SessionOrFailures NoneAtABound
SYMMETRY RequestSymmetry
INVARIANTS
    DraftTypeOK OneDraft PublishedIsValid NoStatementCollides ReaderGetsItsPage
    AccountsTypeOK FifthFailureLocks SessionsFollowThePassword
    OneLiveTokenPerSignIn ReplayEndsFamily
    TypeOK TranscriptIsCurrent ChargedOnce VerdictFitsABalance
PROPERTIES
    PublishedNeverChanges NoCommandLeavesAGap DraftStartsFromLatest LockHolds AskedOnce
CHECK_DEADLOCK FALSE

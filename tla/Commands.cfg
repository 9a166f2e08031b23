\* Two processes, each run once, of any command and of root or another user,
\* and one request.  There is no next state once both have ended.
SPECIFICATION FairSpec
CHECK_DEADLOCK FALSE
CONSTANTS
    p1 = p1
    p2 = p2
    r1 = r1
    Processes = {p1, p2}
    Requests = {r1}
    RuntimeID = 10001
    Users = {0, 1000}
    MaxPostcards = 2
INVARIANTS TypeOK RunsUnprivileged VerifiedBackupsLast ReportsAreTrue
PROPERTY StopsOnSignal

\* Two processes open a new or unversioned file at the same time.
\* No deadlock check: when every process serves, Open has nothing left to do.
SPECIFICATION Spec
CONSTANTS
    p1 = p1
    p2 = p2
    NoProcess = NoProcess
    Processes = {p1, p2}
    CurrentVersion = 4
    IdentityVersion = 3
    InitialVersions = {0}
    MaxFaults = 0
PROPERTIES MigratesSequentially
CHECK_DEADLOCK FALSE

\* Two processes open a file of any version, unversioned and future ones
\* included; a file without a version is opened by one of them first.
\* No deadlock check: when every process serves, Open has nothing left to do.
SPECIFICATION SpecFirstAlone
CONSTANTS
    p1 = p1
    p2 = p2
    NoProcess = NoProcess
    Processes = {p1, p2}
    CurrentVersion = 4
    IdentityVersion = 3
    InitialVersions = {0, 1, 2, 3, 4, 5}
    MaxFaults = 2
INVARIANTS TypeOK VersionNamesSchema ReadyWhileOpen
PROPERTIES MigratesSequentially EventuallyOpen
CHECK_DEADLOCK FALSE

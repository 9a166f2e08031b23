\* The instance of Commands.cfg, for what main.go says of the shutdown.
SPECIFICATION Spec
CHECK_DEADLOCK FALSE
CONSTANTS
    p1 = p1
    p2 = p2
    r1 = r1
    Processes = {p1, p2}
    Requests = {r1}
    RuntimeID = 10001
    Users = {0, 1000}
    MaxPostcards = 2
PROPERTY ShutdownIsGraceful

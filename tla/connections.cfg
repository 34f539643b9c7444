\* Two terminal sessions, one of them through a VPN route in half of the runs.
SPECIFICATION CSpec
CONSTANTS
    Sessions = {1, 2}
    MaxSessions = 1
    RetainedExited = 0
    ReconnectLimit = 1
    MaxProcesses = 2
    Ups = {u}
    Relays = {r}
    Stoppers = {c}
    Free = Free
    Sweeper = Sweeper
    MaxStops = 1
    RoutedSessions = {1}
    PlainRequests = 3
    RoutedRequests = 2
INVARIANTS
    CTypeOK
    ProcessesAreAccounted
    RouteIsAccounted
    DisconnectedIsDown
PROPERTIES
    ClosedStaysClosed
    StopWins
    SweepSparesDials
    CloseGivesBack
    ShutdownEnds
\* An engine where nobody asks for anything any more stands still.
CHECK_DEADLOCK FALSE

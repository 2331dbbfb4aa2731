\* A disabled node between two others.
CONSTANTS
    FlowNodes = {1, 2, 3}
    FlowClients = {u1}
    MaxVersion = 3
    MaxStops = 0
    MaxForks = 0
SPECIFICATION FlowSpec
CHECK_DEADLOCK FALSE
INVARIANTS
    DownstreamStaysBlocked

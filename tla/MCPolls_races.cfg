CONSTANTS
    w1 = w1
    w2 = w2
    w3 = w3
    e1 = e1
    e2 = e2
    e3 = e3
    d1 = d1
    d2 = d2
    d3 = d3
    d4 = d4
    NoConn = NoConn
    Workers <- TwoWorkers
    Endpoints <- ThreeEndpoints
    Conns <- ThreeConns
    Adapters = {"modbus-tcp"}
    ListenOnly = {}
    Unsupported = {"bacnet"}
    MaxSize = 1
    MaxSweeps = 1
    RaceOutcomes = {"fatal", "stale", "lost"}
SPECIFICATION SpecAPI
INVARIANTS TypeOK CountBound
SYMMETRY PoolSymmetry
CHECK_DEADLOCK FALSE

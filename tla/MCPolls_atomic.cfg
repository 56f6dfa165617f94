CONSTANTS
    w1 = w1
    w2 = w2
    w3 = w3
    e1 = e1
    e2 = e2
    e3 = e3
    d1 = d1
    d2 = d2
    d3 = d3
    d4 = d4
    NoConn = NoConn
    Workers <- ThreeWorkers
    Endpoints <- TwoEndpoints
    Conns <- FourConns
    Adapters = {"modbus-tcp"}
    ListenOnly = {}
    Unsupported = {"bacnet"}
    MaxSize = 1
    MaxSweeps = 2
    RaceOutcomes = {}
SPECIFICATION SpecAPI
INVARIANTS PooledOpen HandlerDials LeakBound
SYMMETRY PoolSymmetry
CHECK_DEADLOCK FALSE

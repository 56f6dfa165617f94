CONSTANTS
    w1 = w1
    w2 = w2
    d1 = d1
    e1 = e1
    e2 = e2
    c1 = c1
    c2 = c2
    NoConn = NoConn
    NoProps = NoProps
    NoDevice = NoDevice
    Workers <- TwoWorkers
    Devices <- OneDevice
    Endpoints <- TwoEndpoints
    Conns <- TwoConns
    Adapters = {"modbus-tcp", "snmp"}
    ListenOnly = {}
    Unsupported = {}
    MaxSize = 1
    RaceOutcomes = {}
    Metadata <- MovedPaired
SPECIFICATION Spec
INVARIANTS OneTarget Accounted

CONSTANTS
    m1 = m1
    a1 = a1
    h1 = h1
    s2 = s2
    MqttDevices <- OneDevice
    SourceAddrs <- OneAddr
    HostOf <- MCHostOf
    QueueCap = 1
    AsyncCap = 1
    DeviceCap = 1
    Predefined = {}
    Found <- FoundDevice
    ProfileFound = {TRUE}
    MaxEvents = 1
SPECIFICATION FairSpec
PROPERTY HttpForwarded
CHECK_DEADLOCK FALSE

CONSTANTS
    m1 = m1
    a1 = a1
    h1 = h1
    s2 = s2
    MqttDevices <- OneDevice
    SourceAddrs <- OneAddr
    HostOf <- MCHostOf
    QueueCap = 1
    AsyncCap = 1
    DeviceCap = 1
    Predefined = {}
    Found <- FoundDevice
    ProfileFound = {TRUE, FALSE}
    MaxEvents = 3
SPECIFICATION FairSpec
INVARIANT TypeOK
PROPERTIES ImplementsBridge EventuallyDelivered DiscoveryEnds
CHECK_DEADLOCK FALSE

CONSTANTS
    http = http
    mqtt = mqtt
    snmp = snmp
    Https <- JustHttp
    Mqtts <- JustMqtt
    Snmps <- JustSnmp
    PortOf <- MCPortOf
SPECIFICATION FairSpec
INVARIANTS TypeOK HttpStops SettledStop
PROPERTY StartsAndStops
CHECK_DEADLOCK FALSE

---------------------------- MODULE MCListeners ----------------------------
(* One listener of each kind, HTTP and MQTT configured with one port.        *)
EXTENDS Listeners, TLC

CONSTANTS http, mqtt, snmp

JustHttp == {http}
JustMqtt == {mqtt}
JustSnmp == {snmp}
MCPortOf == http :> 8000 @@ mqtt :> 8000 @@ snmp :> 1620
=============================================================================

------------------------------ MODULE Ingest ------------------------------
(***************************************************************************)
(* The passive path: the callbacks of the three listeners push events into *)
(* the shared channel receivedData, one goroutine (processReceiveData)     *)
(* decodes them and sends the values to the SDK's asyncCh, announcing the  *)
(* devices the SDK does not know on deviceCh.                              *)
(*   pkg/adapter/listener_{http,mqtt,snmp}, pkg/model/resource.go,         *)
(*   internal/driver/drive.go (processReceiveData ... buildCommandValues). *)
(*                                                                         *)
(* An event keeps what the routing tells apart: the source, the device it  *)
(* names (MQTT) or the host it comes from (SNMP), and what its payload is  *)
(* good for.  The id counts acceptances and is there to tell events apart. *)
(***************************************************************************)
EXTENDS Integers, Sequences

CONSTANTS
    MqttDevices,    \* device names in MQTT payloads
    SourceAddrs,    \* UDP addresses, host and port, traps come from
    HostOf,         \* the host of each
    QueueCap,       \* capacity of receivedData (256 in the code)
    AsyncCap,       \* capacity of asyncCh, AsyncBufferSize (64)
    DeviceCap,      \* capacity of deviceCh: 1, or 0 when discovery is off and
                    \* the channel is nil
    Predefined,     \* devices of res/devices, registered at the start
    Found,          \* the devices Discover finds: fixed ones
    ProfileFound,   \* what GetProfileByName may answer for a registered device
    MaxEvents       \* bound on the events accepted in a behaviour

\* malformed: not JSON, no device or no data; untyped: no field converts to
\* the type its profile declares; good: at least one does.
Payloads == {"malformed", "untyped", "good"}

\* Where an event comes from: the device its payload names, its source address,
\* or nothing the routing looks at.
Http == <<"http", "any">>
Origins == ({"mqtt"} \X MqttDevices) \cup ({"snmp"} \X SourceAddrs) \cup {Http}
Events == [id : 1 .. MaxEvents, from : Origins, payload : Payloads]

\* A registered device: its name and the Address property of its protocols.
DeviceNames == MqttDevices \cup SourceAddrs \cup {d.name : d \in Predefined \cup Found}
Registrable == [name : DeviceNames,
                address : DeviceNames \cup {d.address : d \in Predefined \cup Found}]

ASSUME IngestAssumption ==
    /\ QueueCap \in Nat \ {0} /\ AsyncCap \in Nat \ {0} /\ DeviceCap \in Nat
    /\ MaxEvents \in Nat
    /\ ProfileFound \subseteq BOOLEAN /\ ProfileFound # {}
    /\ SourceAddrs \subseteq DOMAIN HostOf
    /\ \A d \in Predefined \cup Found : d = [name |-> d.name, address |-> d.address]

VARIABLES
    received,    \* receivedData
    accepted,    \* number of events accepted so far
    stage,       \* where the consumer goroutine is
    hand,        \* the event it has taken, <<>> or a sequence of one
    target,      \* the name it is about to announce, <<>> or a sequence of one
    async,       \* asyncCh: events whose values wait for the SDK
    announced,   \* deviceCh: lists of devices
    registry,    \* the devices the SDK has
    delivered,   \* events whose values the SDK has taken
    sdkUp,       \* the SDK's goroutines drain its channels
    ctx,         \* cd.ctx: "live" or "cancelled"
    discovery    \* the goroutine of Discover: "idle" or "running"

vars == <<received, accepted, stage, hand, target, async, announced, registry, delivered, sdkUp,
          ctx, discovery>>

Stages == {"select", "decode", "announce", "send", "exited"}

TypeOK ==
    /\ received \in Seq(Events) /\ Len(received) <= QueueCap
    /\ accepted \in 0 .. MaxEvents
    /\ stage \in Stages
    /\ hand \in {<<>>} \cup {<<e>> : e \in Events}
    /\ (hand = <<>>) <=> (stage \in {"select", "exited"})
    /\ target \in {<<>>} \cup {<<n>> : n \in DeviceNames}
    /\ (target # <<>>) <=> (stage = "announce")
    /\ async \in Seq(Events) /\ Len(async) <= AsyncCap
    /\ announced \in Seq(SUBSET Registrable) /\ Len(announced) <= DeviceCap
    /\ registry \subseteq Registrable
    /\ delivered \in Seq(Events)
    /\ sdkUp \in BOOLEAN
    /\ ctx \in {"live", "cancelled"}
    /\ discovery \in {"idle", "running"}

\* Initialize and the start of the consumer goroutine.
Init ==
    /\ received = <<>> /\ accepted = 0
    /\ stage = "select" /\ hand = <<>> /\ target = <<>>
    /\ async = <<>> /\ announced = <<>>
    /\ registry = Predefined
    /\ delivered = <<>>
    /\ sdkUp = TRUE /\ ctx = "live"
    /\ discovery = "idle"

-----------------------------------------------------------------------------
\* Faulty variant: the channel takes what it is given.
Push_Unbounded(from, payload) ==
    /\ accepted < MaxEvents
    /\ accepted' = accepted + 1
    /\ received' = Append(received, [id |-> accepted + 1, from |-> from, payload |-> payload])
    /\ UNCHANGED <<stage, hand, target, async, announced, registry, delivered, sdkUp, ctx,
                   discovery>>

\* A listener's non-blocking send: a full channel refuses the event.
Push(from, payload) ==
    /\ accepted < MaxEvents
    /\ Len(received) < QueueCap
    /\ accepted' = accepted + 1
    /\ received' = Append(received, [id |-> accepted + 1, from |-> from, payload |-> payload])
    /\ UNCHANGED <<stage, hand, target, async, announced, registry, delivered, sdkUp, ctx,
                   discovery>>

\* handlePush answers 200 when the event is queued and 503 when it is not;
\* OnPublish and onTrap drop it without a word.  Only acceptance changes state.
HandlePush == \E p \in Payloads : Push(Http, p)
OnPublish == \E d \in MqttDevices, p \in Payloads : Push(<<"mqtt", d>>, p)
OnTrap == \E a \in SourceAddrs, p \in Payloads : Push(<<"snmp", a>>, p)

-----------------------------------------------------------------------------
\* The select of processReceiveData; with both cases ready Go picks either.
ExitOnDone ==
    /\ stage = "select" /\ ctx = "cancelled"
    /\ stage' = "exited"
    /\ UNCHANGED <<received, accepted, hand, target, async, announced, registry, delivered, sdkUp,
                   ctx, discovery>>

Receive ==
    /\ stage = "select" /\ received # <<>>
    /\ hand' = <<Head(received)>>
    /\ received' = Tail(received)
    /\ stage' = "decode"
    /\ UNCHANGED <<accepted, target, async, announced, registry, delivered, sdkUp, ctx, discovery>>

\* The registered devices an event may be about: the one the MQTT payload names,
\* or those with the bare host of a trap as their Address.
Matches(e) ==
    {d \in registry : IF e.from[1] = "mqtt" THEN d.name = e.from[2]
                                           ELSE d.address = HostOf[e.from[2]]}

\* What lookupProfile and lookupDeviceByAddr answer, a name and whether there is
\* a profile: one of the devices that match, or the name in the payload or the
\* whole source address, without a profile.
LookUps(e) == IF Matches(e) # {} THEN {d.name : d \in Matches(e)} \X ProfileFound
                                 ELSE {<<e.from[2], FALSE>>}

\* What decodeReceiveEvent makes of an event before it looks at a device.
Undecodable(e) == e.from[1] = "http" \/ e.payload = "malformed"

\* The event is of no use: back to the select.
GiveUp == stage' = "select" /\ hand' = <<>> /\ UNCHANGED target

\* Decode and look the device up.  With a profile, its types decide; without,
\* registered or not, the device is announced first and its fields get inferred
\* types, which always convert.
Decode ==
    /\ stage = "decode"
    /\ LET e == hand[1] IN
       IF Undecodable(e) THEN GiveUp
       ELSE \E found \in LookUps(e) :
              \/ /\ found[2] /\ e.payload = "untyped"
                 /\ GiveUp
              \/ /\ found[2] /\ e.payload = "good"
                 /\ stage' = "send" /\ UNCHANGED <<hand, target>>
              \/ /\ ~found[2]
                 /\ stage' = "announce" /\ target' = <<found[1]>> /\ UNCHANGED hand
    /\ UNCHANGED <<received, accepted, async, announced, registry, delivered, sdkUp, ctx,
                   discovery>>

\* The name of a device that is announced also becomes its Address property.
NewDevice(name) == [name |-> name, address |-> name]

\* Faulty variant: the send waits for room.
EnsureDevice_Waits ==
    /\ stage = "announce" /\ Len(announced) < DeviceCap
    /\ announced' = Append(announced, {NewDevice(target[1])})
    /\ stage' = "send" /\ target' = <<>>
    /\ UNCHANGED <<received, accepted, hand, async, registry, delivered, sdkUp, ctx,
                   discovery>>

\* ensureDevice: a non-blocking send, skipped when the channel is full or nil.
EnsureDevice ==
    /\ stage = "announce"
    /\ announced' = IF Len(announced) < DeviceCap
                    THEN Append(announced, {NewDevice(target[1])}) ELSE announced
    /\ stage' = "send" /\ target' = <<>>
    /\ UNCHANGED <<received, accepted, hand, async, registry, delivered, sdkUp, ctx,
                   discovery>>

\* Faulty variant: a full channel drops the values.
Send_Drops ==
    /\ stage = "send"
    /\ async' = IF Len(async) < AsyncCap THEN Append(async, hand[1]) ELSE async
    /\ hand' = <<>> /\ stage' = "select"
    /\ UNCHANGED <<received, accepted, target, announced, registry, delivered, sdkUp, ctx,
                   discovery>>

\* cd.asyncCh <- asyncVal, outside the select: it waits for room and for
\* nothing else.
Send ==
    /\ stage = "send" /\ Len(async) < AsyncCap
    /\ async' = Append(async, hand[1])
    /\ hand' = <<>> /\ stage' = "select"
    /\ UNCHANGED <<received, accepted, target, announced, registry, delivered, sdkUp, ctx,
                   discovery>>

-----------------------------------------------------------------------------
\* The SDK runs Discover in a goroutine, one at a time, on a request or a timer.
StartDiscovery ==
    /\ sdkUp /\ discovery = "idle"
    /\ discovery' = "running"
    /\ UNCHANGED <<received, accepted, stage, hand, target, async, announced, registry, delivered,
                   sdkUp, ctx>>

\* Faulty variant: it waits until its devices have been added.
Discover_Waits ==
    /\ discovery = "running"
    /\ IF Found \subseteq registry
       THEN discovery' = "idle" /\ UNCHANGED announced
       ELSE /\ Len(announced) < DeviceCap
            /\ announced' = Append(announced, Found)
            /\ UNCHANGED discovery
    /\ UNCHANGED <<received, accepted, stage, hand, target, async, registry, delivered, sdkUp, ctx>>

\* After its sleep it sends all it has found; the send waits for room.
Discover ==
    /\ discovery = "running" /\ Len(announced) < DeviceCap
    /\ announced' = Append(announced, Found)
    /\ discovery' = "idle"
    /\ UNCHANGED <<received, accepted, stage, hand, target, async, registry, delivered, sdkUp, ctx>>

-----------------------------------------------------------------------------
\* The SDK (external): takes values, and registers announced devices when a
\* provision watcher matches them and their name is not taken.
TakeAsync ==
    /\ sdkUp /\ async # <<>>
    /\ delivered' = Append(delivered, Head(async))
    /\ async' = Tail(async)
    /\ UNCHANGED <<received, accepted, stage, hand, target, announced, registry, sdkUp, ctx,
                   discovery>>

TakeDevice ==
    /\ sdkUp /\ announced # <<>>
    /\ announced' = Tail(announced)
    /\ \E matched \in SUBSET {d \in Head(announced) : \A r \in registry : r.name # d.name} :
         registry' = registry \cup matched
    /\ UNCHANGED <<received, accepted, stage, hand, target, async, delivered, sdkUp, ctx,
                   discovery>>

\* On shutdown the SDK's goroutines end before it calls Stop, which ends by
\* cancelling the driver's context.
SdkShutdown ==
    /\ sdkUp /\ sdkUp' = FALSE
    /\ UNCHANGED <<received, accepted, stage, hand, target, async, announced, registry, delivered,
                   ctx, discovery>>

Stop ==
    /\ ~sdkUp /\ ctx = "live" /\ ctx' = "cancelled"
    /\ UNCHANGED <<received, accepted, stage, hand, target, async, announced, registry, delivered,
                   sdkUp, discovery>>

Consumer == ExitOnDone \/ Receive \/ Decode \/ EnsureDevice \/ Send

Next ==
    \/ HandlePush \/ OnPublish \/ OnTrap
    \/ Consumer
    \/ StartDiscovery \/ Discover
    \/ TakeAsync \/ TakeDevice
    \/ SdkShutdown \/ Stop

Spec == Init /\ [][Next]_vars

\* The consumer goroutine and, while it is up, the SDK's keep running.  A place
\* that gets free in a full channel goes to the sender that waits for it.
FairSpec ==
    /\ Spec
    /\ WF_vars(Consumer) /\ WF_vars(TakeAsync) /\ WF_vars(TakeDevice) /\ SF_vars(Discover)

-----------------------------------------------------------------------------
\* An event that decodeReceiveEvent turns into values when its device is not
\* known, or known with a profile the fields fit.
CanForward(e) == ~Undecodable(e) /\ e.payload = "good"

\* What the path holds, in the order in which it will come out.
InTransit == async \o hand \o received

AbstractBridge == INSTANCE Bridge WITH
    Forwardable <- CanForward,
    Capacity <- QueueCap + 1 + AsyncCap,
    pending <- InTransit

\* Across the two channels and the goroutine between them, accepted events are
\* delivered in order and once, and none that can be forwarded is left out.
ImplementsBridge == AbstractBridge!Spec

\* While the SDK is up, an accepted event that can be forwarded reaches it: a
\* full asyncCh only delays the consumer, and a full or missing deviceCh does
\* not stop it.
Delivered(i) == \E k \in DOMAIN delivered : delivered[k].id = i
Waiting(i) == \E k \in DOMAIN InTransit : InTransit[k].id = i /\ CanForward(InTransit[k])
EventuallyDelivered == \A i \in 1 .. MaxEvents : Waiting(i) ~> (Delivered(i) \/ ~sdkUp)

\* While the SDK is up, a discovery ends: its send gets through to deviceCh, also
\* while the consumer fills that channel with the unknown devices of events.
DiscoveryEnds == discovery = "running" ~> (discovery = "idle" \/ ~sdkUp)

\* What the documentation says.
\* "Forwards received data via EdgeX async channel": an event the HTTP listener
\* has answered with 200 is among it.
HttpForwarded == \A i \in 1 .. MaxEvents :
    (\E k \in DOMAIN received : received[k].id = i /\ received[k].from[1] = "http"
                                /\ received[k].payload = "good")
        ~> (Delivered(i) \/ ~sdkUp)

=============================================================================

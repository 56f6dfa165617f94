# NexIoT-go in TLA+

NexIoT-go is an EdgeX device service: it turns the commands of the EdgeX SDK into
reads and writes of field devices (Modbus, SNMP, OPC UA, HTTP), and the messages
devices send on their own (HTTP, MQTT, SNMP traps) into EdgeX readings. These
modules model its core, state what makes it correct, and check and prove it.
Paths below are those of the repository.

## The system

| Component | Code | State it keeps | Operations |
|---|---|---|---|
| Configuration cache | `pkg/model/protocol_config.go` | `sync.Map` (device, protocol) → properties, global to the process | resolve; update and remove (exported, no caller) |
| Connection pool | `pkg/protocol/poller.go` | Go map endpoint → client, `maxSize`, a mutex `GetHandler` does not take | `GetHandler`; `DisconnectAll` and `removeClient` (no caller) |
| Driver, commands | `internal/driver/drive.go` | none of its own | `HandleReadCommands`, `HandleWriteCommands`, device callbacks that log |
| Driver, ingestion | `internal/driver/drive.go` | channels `receivedData`, `asyncCh`, `deviceCh`, one goroutine | decode, look up, announce, send |
| Driver, start and stop | `internal/driver/drive.go` | context, receivers | `Initialize`, `Start`, `Stop` |
| Receivers | `pkg/protocol/listener.go` | list of listeners | register, `StartAll`, `StopAll` |
| Listeners | `pkg/adapter/listener_*` | a server each, in a field | `Start`, `Stop`, the callback that pushes events |
| Connector | `pkg/protocol/connector.go` | none | read and write, single and batch |
| Parser, conversions | `pkg/parser`, `pkg/conv` | none | decode, encode, convert |
| Modbus adapter | `pkg/adapter/modbus` | handler and client, under a lock | connect, disconnect, read and write, single and batch |
| SNMP, OPC UA, HTTP client | `pkg/adapter/{snmp,opcua,httpclient}` | client, connected flag, HTTP's token; a lock, taken by each in different places | the same operations |

How they interact:

    SDK goroutines ── HandleRead/WriteCommands ──> cache ──> pool ──> connector ──> adapter ──> device
    device ──> listener callback ──> receivedData ──> processReceiveData ──> asyncCh, deviceCh ──> SDK

The SDK runs each command in a goroutine of its own, so the cache and the pool are
shared by all commands in flight. Each listener's `Start` runs in its own
goroutine and `Stop` comes from the SDK's. The passive path is one goroutine
between two bounded channels.

What is hard: the interleaving of commands in a pool without locks; a cache that
is never refreshed; two channels in a row, the second of which is sent to outside
the select; `Stop` between the steps of `Start`; uint16 arithmetic on spans of
registers; commands that fail in part; requests that were given up and arrive all the
same; four adapters that differ in what they lock, retry and convert. `PROJECT.json` lists the hazards at their
lines, each with the properties that cover it or why none does yet.

What makes each part correct: the cache gives one configuration per key; the pool
has one connection per endpoint, at most its maximum, of the right protocol and
open; commands for one device go to one place and return; events that were
accepted are delivered in order, once, unless they cannot be forwarded; listeners
stop when told to; a session is used only while it is open; what a write has done to
the device agrees with what it returned, and a read returns what its addresses held; a value read or written belongs to the
resource it is for and survives the change of type.

## Modules

| Module | Models | Correspondence |
|---|---|---|
| `WriteOnce` | what the cache promises | one cell per key, chosen at most once, told as chosen |
| `ProtocolConfig` | the cache | `cache` is the map, `call` the resolution each goroutine is in. `Load` and `LoadOrStore` are steps of their own because a goroutine may be preempted between them |
| `Polls` | the pool | `clients` and `count` are the entries and the length of the Go map; every access is a step; an assignment lasts from `StartAssign` to `EndAssign`. `RaceOutcomes` says what overlapping accesses may do. `SpecAPI` adds `DisconnectAll`, which goes from entry to entry: it disconnects the client, then deletes the entry (`StartDelete` to `EndDelete`), and `sweep` says how far it is |
| `Commands` | the driver's data plane | composes `ProtocolConfig` and `Polls` (INSTANCE) with the loop over the protocols of a device and the device callbacks; `badly` has the protocols whose exchange failed |
| `Bridge` | what the passive side promises | a bounded queue that may leave out only what cannot be forwarded |
| `Ingest` | listeners' callbacks, consumer goroutine, `Discover`, the channels, the SDK | one action per callback and per step of the consumer. `registry` has the SDK's devices, `Matches` those an event is looked up to, `ProfileFound` whether their profiles are there |
| `Listeners` | `Start`, `StartAll`, `StopAll`, the life of the servers | `field` is the pointer `Start` sets under the lock and reads again without |
| `Registers` | connector, parser, conversions, Modbus requests | a command is one step, from resources to cells and back; `memory` is the device |
| `Sessions` | `Connect`, `Disconnect` and the use of a Modbus, SNMP, OPC UA or HTTP adapter by several goroutines | `adapter` says which; `client`, `connected`, `token` and `lock` are its fields. A call is split where it leaves the adapter for the library. `sessions`, `issued` and `forgotten` are the HTTP server's |
| `Exchange` | the reads and writes of HTTP, OPC UA and SNMP | one action per request and answer; `wire` and `answers` are the network, `memory` the device. What a command writes is its name, so that what the device holds tells who wrote it |
| `Values` | the types of values: `conv.ValueToType`, what each of those adapters makes of a value it reads or writes, `convertValue` for pushed ones | a Go value is its kind and its content; a conversion gives the set of its possible results. `Size` says how many integers a width has, `Round` how floats round |
| `PollsProofs`, `CommandsProofs`, `IngestProofs`, `ListenersProofs`, `RegistersProofs`, `SessionsProofs`, `ExchangeProofs`, `ValuesProofs` | | the theorems about the module each is named for; those about `ProtocolConfig` are in `CommandsProofs` |

`Sessions` and `Exchange` both model the adapters behind a pooled connection: the first
their lives and locks, with an exchange in one step, the second the exchanges, on
a session that is open. `Registers` does both reading and converting for Modbus, whose
library and parser work on registers; `Values` is the converting of the others.

Each `MC...` module gives the constants of the module it extends their small
values; each `.cfg` is one run. An operator whose comment says "Faulty
variant" is the definition it precedes with a bug put in. No specification uses
it; it serves to show that the properties can tell the two apart.

What a data race may do. `p.clients` is read and assigned without a lock.
The Go runtime ends the process at most of the overlaps it notices; for those it
misses the model lets a look-up miss an entry or see the one being stored, and an
overlapping assignment or deletion lose its entry or its count (so that the length of
the map may drift from its entries, and go below zero). A connection that never
existed (a torn interface word) is not among the outcomes.

## Runs

Runs that pass:

| Run | Shows |
|---|---|
| `polls_races` | 2 commands, 3 endpoints, maximum 1, every outcome of the races, one `DisconnectAll` at any time: the length exceeds the maximum by less than the number of commands (`CountBound`), whatever is lost |
| `polls_atomic` | 3 commands, 2 endpoints, 4 connections, atomic map: what check-then-act alone may do, and up to two calls of `DisconnectAll` whose steps come between those of the commands. A handler leads where its configuration says, and is open unless `DisconnectAll` has been called (`HandlerDials`); until then at most one connection per command is ever dialed to an endpoint (`LeakBound`); pooled connections are open and at their endpoint, but for the one whose client has been disconnected and whose entry is about to go (`PooledOpen`) |
| `commands_core` | 2 commands on a device that is updated (another protocol, and the first one moved and disabled), removed and added, the pool full or not: they return (`CommandsReturn`), and their steps are steps of `Polls` and `ProtocolConfig` (`UsesParts`), so what is proved of those holds of them. A configuration in use is the one in the cache, whatever metadata each command was given (`Agreement`), and the cache is a set of write-once cells (`ImplementsWriteOnce`) |
| `commands_moved` | 2 commands on a device whose first protocol moves between two endpoints, enabled at both, and which has a second one or not; the two are written in either order. Commands for one protocol that are in flight together go to one endpoint (`OneTarget`); a write that returned without an error has gone through all protocols, one with an error has met one failure and stopped there (`Accounted`) |
| `ingest_core` | channels of capacity 1, three events of every source and payload, traps from a host whose device is known only once it has been discovered, profiles found or not, shutdown at any time: the path implements `Bridge` (`ImplementsBridge`); what can be forwarded reaches an SDK that is up (`EventuallyDelivered`), though `deviceCh` may be full; a discovery gets its devices through to a `deviceCh` that announcements fill again and again (`DiscoveryEnds`) |
| `listeners_core` | one listener of each kind, HTTP and MQTT on one port, in any order, `Stop` at any moment of their starts: HTTP never serves after it (`HttpStops`), all stop if they were settled (`SettledStop`); nobody's start or failure holds up the others or `StopAll` (`StartsAndStops`) |
| `registers_core` | sequences of commands for one or two of 10 resources of every table, 8 addresses, different lengths, decoders and types, on a device that answers, fails, or stores after the timeout: a value read is made of the registers of its resource, also where a span wraps (`ReadRight`); none is missing below the top (`ReadWhole`); adjacent resources are written whole or not at all (`WriteAllOrNothing`) and read back as written (`ReadsBack`) |
| `exchange_core` | 2 commands, each a read or a write of one of 5 batches at 2 addresses (one point, two, two in the other order with the first again at the end, one whose second value does not convert, one with an OID without its dot), SNMP sending twice; requests and answers late, lost or refused. What a write has done at any time is what its adapter's order allows, also when it has failed or been given up (`WrittenPrefix`); once it has returned ok it does nothing more, SNMP excepted (`DoneIsDone`); a read returns what its addresses have held meanwhile, and one for each if it returns ok and the agent of SNMP has refused none (`ReadsHeld`); all return (`CommandsReturn`) |
| `sessions_core` | 2 callers of any of the three operations, for each adapter and each setting of the HTTP URLs; up to 3 logins. The token of an HTTP request stays the client's (`TokenSettled`) and the server has no session nobody knows of (`SessionsKnown`); a `Connect` that returns nil has an open client and what its login gave, a token or the empty one (`NilMeansOpen`); a nil client is met only where `Disconnect` drops it (`NoNilUse`); all calls return (`CallsReturn`) |
| `values_core` | every value of every type an SNMP, OPC UA or HTTP device holds, or a device pushes, for every EdgeX type; writes followed by reads. A number becomes no other one, but for its type's width; of a number in JSON the float64 nearest to it is meant, an integer of SNMP or OPC UA exactly (`NumbersRight`). What the device has taken reads back, over HTTP if a float64 holds it (`WritesReadBack`); a pushed value that arrives is the one pushed (`PushedRight`) |

Runs that find a statement of the repository violated (each is a finding in
`PROJECT.json` with the quoted line):

| Run | Finding |
|---|---|
| `commands_updates` | a command after a device was updated goes to the endpoint of its first command, until a restart (`drive.go:278`, `protocol_config.go:36`, against `README.md:207`) |
| `ingest_http` | accepted HTTP events have no decoder and are dropped |

### Other behaviours met while modelling

The models contain more behaviours a maintainer should know of, which no run is about.
Where they contradict a line of the repository, that line is named.

* `Commands`: a read whose exchange failed returns what it has without an error
  (`drive.go:209`, against `docs/wiki-en.md:148` and `:131`).
* `Polls`: two commands pass the limit check together (`poller.go:72`), which
  `CountBound` allows for; two that miss the same endpoint both dial it, and the first
  connection stays open out of reach (`poller.go:66`, against `poller.go:3`), which
  `LeakBound` bounds; two protocols with one endpoint share a connection of the
  first (against `poller.go:19`); concurrent map accesses end the process
  (`poller.go:103`); the default timeout of `poller.go:30` is never used. Between the two steps of
  `DisconnectAll` on an entry `GetHandler`, which reads the map without `p.mu`, hands
  out a disconnected client, neither "an existing connection" nor "a new one"
  (`poller.go:96`, against `poller.go:58`); nothing in the program calls it.
* `Ingest`: the consumer blocked on `asyncCh` does not see the cancelled context
  (`drive.go:337`); the callbacks do not look at it at all, so a handler that is still
  running when `Stop` has returned pushes an event nobody takes. A device registered
  from a trap has host and port as its address, which the bare host of its next trap
  does not match, so it is announced again, as is one whose profile is not found
  (`drive.go:381`, `drive.go:395`, `drive.go:425`, against `drive.go:390`).
* `Listeners`: a `Stop` during the start of the MQTT listener makes it call through nil
  (`mqtt.go:80`, against `mqtt.go:102`); an SNMP socket that opens after `Stop` serves
  for ever (`snmp.go:89`).
* `Registers`: a batch that ends in the last register has an end address of 0 and loses
  values (`modbus.go:282`); a resource without a length panics in a batch
  (`modbus.go:313`); a single write to a resource with an encoder is refused, as it looks
  it up under the decoder's name (`connector.go:108`, against `encoder.go:14`). A `length`
  that is a string, as in `res/profiles/snmp.test.profile.yaml:14`, panics
  (`resource.go:36`); the models give it as a number.
* `Sessions`: nothing renews a token that has expired, nor reconnects a session that has
  died; SNMP's `Disconnect` takes no lock (against `docs/wiki-en.md:169`), so that
  a `Connect` it crosses may return nil without a session or go through a nil client
  (`snmp.go:152`), and a call may meet one; after a `Disconnect` of OPC UA every call
  does. A login that answers with an empty token counts as one (`httpclient.go:316`),
  and its session cannot be logged out. "basic" credentials are sent
  only when there is a token (`httpclient.go:246`).
* `Exchange`: a batch read of SNMP finds no value for an OID written without the dot with
  which gosnmp begins those of its answers (`snmp.go:214`; `listener_snmp/snmp.go:99`
  knows of the dot), as in all of `res/profiles`; of two points with one OID only one
  gets a value; a copy of a Set that was sent again may undo a later one; a Set that the
  agent refuses is reported as done (`snmp.go:254`). A batch read it refused returns nil
  with points unset, and a null variable reads as the text of a nil (`snmp.go:217`,
  against `docs/wiki-en.md:148`).
* `Values`: a number pushed for a resource of type Int16, Uint16, Uint32 or Uint64
  becomes an int32, which the SDK refuses, and its field is dropped (`drive.go:553`, against
  `drive.go:540`); integers of 8 and 16 bits are set over SNMP as text (`snmp.go:397`, against
  `snmp.go:367`); HTTP writes bytes in base64 and reads them back so; a JSON
  null reads as the text `<nil>` for a String; a bare JSON value is
  returned as text (`httpclient.go:409`, against `httpclient.go:376`).

### Bounds

The instances are small enough for every run to end within a minute on a laptop and within
a few on a slow machine. Callers and workers are interchangeable and meet only in one map or one endpoint, so
two (three where a bound counts them) show each kind of meeting: hit, miss, both miss,
miss against assignment, two assignments. `Conns` bounds the connections ever
dialed in a behaviour; with none left `Connect` can only fail. `MaxSize` 1
stands for 20: a pool is short by one, full, or over. `MaxSweeps` bounds the calls of
`DisconnectAll`: one meets every step of the commands, the second meets what they did
after the first. A `DisconnectAll` goes through an endpoint at most once; that Go's range
may produce an entry again that was deleted and stored anew is what a second call does. `QueueCap`, `AsyncCap` and
`DeviceCap` stand for 256, 64 and 1: channels are empty, in between and full,
both at once. `MaxEvents` ends the acceptance of events. The one address of traps has a host whose
device is `Found`, so that its traps come before and after the device is known. The devices of
`commands_core` and `commands_moved` have the protocols and endpoints that their questions need:
one that is disabled or has no adapter, and two that are enabled and written. In `Registers`, 2^16 is
`Modulus` = 8 with addresses at the bottom, in the middle and at the top, and the
Modbus limits are 4 words and 5 bits so that spans exceed them. `MaxBatch` bounds
the resources in a command. In `Exchange`, two commands meet at one address before,
between and after each other's requests; three points in a batch have a first, a
middle and a last; `MaxSends` 2 stands for SNMP's 4 (one copy is late, or none). In
`Sessions`, two callers meet in every pair of calls; `MaxLogins` 3 lets a session that was
lost, and one that was logged out, be followed by another. In `Values`, integers
of 2, 3, 4 and 5 bits stand for those of 8, 16, 32 and 64, and mantissas of 3 and 4 bits for
those of floats, so that all integers of all kinds occur, with floats that do not hold
the largest of them. `polls_races` and
`polls_atomic` permute connections and workers (symmetry) and check no liveness. A `deviceCh` that is nil because discovery is off
is one of capacity 0; `ingest_core` has it with capacity 1, which refuses announcements
in the same way while it is full. `MaxLogins` refuses logins beyond it. `Found` is one
device for the two of `Discover`: the list is sent whole.

Deadlock is checked except where the system may rightly stop: the process has
ended (`polls_*`, whose calls of `DisconnectAll` are used up, and `sessions_core` after a panic), all events are used up (`ingest_*`),
the listeners have stopped (`listeners_core`), the commands are over (`exchange_core`).

### Fairness

* `Commands`: weak fairness of each goroutine's own steps inside a call.
  Go schedules runnable goroutines, and an adapter's `Connect` and exchanges end by its
  timeout; OPC UA's `Connect` and `Close` are called with `context.Background` only
  (`opcua.go:114`, `:139`), so theirs is the library's. No fairness makes the SDK send a command or change a device.
* `Ingest`: weak fairness of the consumer and, while it is up, of the SDK's taking
  of `asyncCh` values and of announcements; strong fairness of `Discover`'s send, since
  a Go channel serves the senders that wait for it in order, before those that poll
  it in a select. Nothing obliges devices to send or the SDK to stay up.
* `Listeners`: weak fairness of the goroutines of the starts and of a `StopAll`
  that has begun (HTTP's `Shutdown`, which closes the socket in a step of its own and then
  waits for handlers in flight, gives up after five seconds; the others do not wait). `Stop` itself need never come.
* `Exchange`, `Sessions`: weak fairness of the steps of a command or call that has begun,
  which end by the adapters' timeouts; strong fairness of those that take the lock,
  since Go's `sync.Mutex` hands itself over to a goroutine that has waited for a
  millisecond. Nothing obliges a device or the network to answer.

## Proofs

`tlapm CommandsProofs.tla`, and so for the other seven modules of theorems, checks
them. They hold for every value of the constants under these assumptions, each an ASSUME
of the module it is about:

| Module | Assumed of the constants |
|---|---|
| `Polls` | workers and endpoints are finitely many, `MaxSize` is positive, `MaxSweeps` is a number, `NoConn` is no connection |
| `Commands` | those of `Polls`; `NoProps` is no property map; there are protocol names; a device's metadata maps names to properties |
| `Ingest` | `receivedData` and `asyncCh` have room for one or more, `deviceCh` may have none; every address has a host; a device is a name and an address; a profile is found or not |
| `Listeners` | a listener is of one kind; they are finitely many; each has a port |
| `Registers` | there is more than one address; resources start at addresses from 1 up, are shorter than the table and have a type of the SDK; the tables are full when the device leaves the factory |
| `Sessions` | `NoCaller` is no caller |
| `Exchange` | a batch is a sequence of points and not empty; a request is sent once or more; `Factory`, `NoCommand` and `Null` are no commands |
| `Values` | there are more than two integers of each width, as many negative as not, and of a wider one a multiple of those of a narrower one; the nearest float to a float is itself, a float of 32 bits is one of 64, and rounding makes no negative number of one that is not |

The argument is the same throughout: an invariant that every step preserves by itself, of
the type, the property, and whatever else the property needs. The strengthenings are
definitions of the modules they are about.

* `ProtocolConfig`: `CacheTypeCorrect`, `CallersAgree`, and `CacheIsWriteOnce`, by which the
  cache implements `WriteOnce`: initial states map to initial states and each step
  to a step or a stutter. The type is inductive by itself, and `Agreement` with it: an
  entry that a caller was told is there, so no `LoadOrStore` replaces it. They
  are stated of the instance the driver has, whose keys are any devices and names, and so
  are in `CommandsProofs`.
* `Polls`, under all outcomes of the races and, where it is said, with `DisconnectAll`:
  - `OvershootBounded`. `CountBound` is not inductive: between check and assignment
    a call may add one entry whatever the count is. `OvershootInv` counts the calls
    in that stretch together with the entries. Of the calls that pass the check on
    a pool short of full, the one that does so is itself in that stretch, which leaves
    at most all workers but one.
  - `TypeCorrect` knows of the length only that it is an integer: a deletion that overlaps an
    assignment may count an entry off that was not counted in.
  - `PooledStayOpen` and `HandlersDial` need `HeldInv`: what a call holds after
    `Connect` is open, leads to its endpoint, is its own and not pooled, so
    `DisconnectAll` cannot close it before it is stored. `PooledStayOpen` is of a map
    whose operations are atomic, and excepts the entry that `DisconnectAll` is at;
    `HandlersDial`, under all outcomes of the races, is of the program as it is, which
    does not call `DisconnectAll`.
  - `CountIsExact`: the length is the number of entries if no update is lost.
  - `LeakBounded` needs `LeakInv`: an endpoint without an entry has no connections
    but those held by calls about to store them, and connections and calls that may
    still dial are together at most the workers. It is of the program as it is, too, and for races that neither
    fake nor lose entries; with those, calls may miss and dial without end.

* `Commands`:
  - `PoolUsed` and `CacheUsed`, together `PartsUsed`: every step of the driver is one of the pool's, and one of
    the cache's, or leaves it alone. They need `LinkInv`, which ties the loop of a command
    to its calls of `GetHandler` and `ResolveProtocolConfig`: a command that is
    in neither runs neither. `TypeCorrect` and these two are proved together, with the
    theorems on `Polls` brought in by INSTANCE. `CommandsAgree` and `DriverResolvesOnce` follow: devices may
    be updated, the cache stays write-once.
  - `OneTargetHolds`: by `CallersAgree` of the cache two commands with one key have one
    configuration, by `LinkInv` they asked the pool for its endpoint, and by
    `HandlersDial` each holds a connection that leads there.
  - `FailuresAccounted`, for any number of protocols, from `FailureInv`: a write whose
    command goes on has not failed.
* `Sessions`, for any number of callers and logins, all four adapters:
  - `TokenStaysSettled` from `MutexInv`: whoever is where its adapter locks holds the
    mutex, so no login or logout runs while a request is out.
  - `SessionsStayKnown` needs `TokenInv`: HTTP has a token only while it is connected
    or about to be, so a login never replaces one.
  - `NeverNil` needs `ClientInv`: Modbus and HTTP never drop a client they have, and
    nothing is used before a `Connect` has returned nil.
  - `ConnectOpens` needs `OpenInv`: where the client is open for each adapter, and for
    SNMP that no `Disconnect` runs with a `Connect`, unless `crossed` says so.
* `Ingest`, for channels of any capacity and any number of events, devices and addresses:
  - `RefinesBridge`: initial states map to initial states, and each step to a step of
    `Bridge` or a stutter. `asyncCh`, the hand of the consumer and `receivedData`, put
    in a row, are the queue of `Bridge`: a callback appends at its end, the SDK takes from
    its front, the consumer passes an event from one part to the next, which leaves the
    row as it is, or leaves it out, which `Bridge` allows for an event that cannot be
    forwarded. It needs of the type invariant that the hand is empty or holds one event.
* `Listeners`, for any number of listeners of each kind on any ports:
  - `HttpServersStop` from `MarkedInv`: an `http.Server` that `StopAll` has got to is
    marked as shut down, and one that is marked does not serve. `OrderInv` says that it
    gets to each once, and that there are no others.
  - `SettledStops` from `SettledInv` and `FieldInv`: a field is not cleared before
    `StopAll` comes to it, so no listener is passed over.
  - `OnlyStopPanics`: a start or its failure never ends the process. No run checks this.
* `Registers`, for any width of an address, limits, resources and values:
  - `ReadsAreRight` and `ReadsAreWhole` need of the state only its type. They rest on what
    the operators do: where the span of a batch begins and ends in arithmetic modulo
    `Modulus`, that an offset taken modulo `Modulus` finds the registers of its own
    resource although the span wraps, and that decoding depends on those alone.
  - `WritesAllOrNothing`: the registers of a batch, concatenated, have each value at
    the sum of the lengths before it, which for adjacent resources is its own address. This
    is the one induction over a sequence; it goes by the first element that would break it.
  - `WritesReadBack` from `WrittenInv`: what a command has written is in the tables until the
    next one, and each decoder undoes its encoder.
* `Exchange`, for any number of commands, addresses, points in a batch and repeated sends:
  - `WritesKeepOrder`. `WrittenPrefix` is not inductive: a request that is under way
    may still be carried out. `WireInv` says which there may be (for a point the command
    has come to, with a value that converts; but with SNMP one at a time, and none of a
    command that has gone on), and `PlaceInv` that a command that runs has a point to
    go on with.
  - `OverIsOver` is `WireInv` again: a write that returned ok has nothing on the wire, but
    for the copies of SNMP.
  - `ReadsReturnHeld` from `AnswerInv` and `ReadInv`: an answer brings what its addresses
    have held since its command began, or says that the device refused, and HTTP has a
    value of each point before the next. What SNMP makes of a refusal is excepted.
* `Values`, for all sizes of integers, all roundings and all texts, of which the provers
  know only what is assumed:
  - `NumbersReadRight` from `ObjectInv`: what a device holds is of its type, also after a
    write, so a number that is read is one of its kind. The rest is arithmetic: casting
    to a narrower integer, and to a signed one and then a narrower one, changes
    a number by a multiple of the narrower size; a float of the type that holds the
    number is kept on its way through a float64, which holds it too.
  - `WritesAreReadBack` from `StoredInv`: the device holds what was sent of the value last
    written, in a type its object has. Each conversion undoes, for each type, what its
    adapter does to send it; over HTTP, for numbers that a float64 holds.
  - `PushedFieldsRight` from `PushInv`: only a device that pushes answers a push, and with
    what JSON decodes to.

TLC checked the strengthenings on the instances of the runs before they were proved. The
type invariant of the cache is checked as part of that of `Commands`; `CountExact` is only
proved. The attempt to prove the value of a CASE showed two whose arms overlapped, of which
TLA+ may choose any: how a batch read reports an error (`Registers`) and what a
device holds (`Values`). They are written with IF now.

Only model-checked: all liveness, which under fairness is out of the prover's reach:
`CommandsReturn` (of `Commands` and of `Exchange`), `EventuallyDelivered`, `DiscoveryEnds`,
`StartsAndStops` and `CallsReturn`. That IEEE 754 rounds as `Values` assumes is not proved
either; TLC evaluates the assumption for the small floats of the run.

## Abstractions and what is left out

* One resolution of a field and the call through it are one step in `Listeners`; an
  error of the MQTT broker's `Close`, which keeps the field, is left out.
* The SDK is external: its registry, its shutdown order, the type check of
  `NewCommandValue`. So are the devices and the protocol libraries, with the limits
  they put on requests.
* In `Registers`, MAC and IPv4 strings are the words they stand for; their syntax is
  left out. A late device stores its values in the step in which the timeout is
  reported. Address 65536, whose conversion to uint16 the platform decides, is
  not among the resources, nor is a command without resources. A gap or another order
  in a batch write puts values at other addresses; a test of the repository states
  the concatenation, so `WriteAllOrNothing` speaks of adjacent resources.
* In `Commands`, what an exchange did is whether it failed.
* In `Sessions`, a read or write is one exchange, and a session that dies is an exchange
  that fails. Modbus's handling of the dead connection is the library's.
* In `Exchange`, a device carries out a request at once or refuses it, a Get of SNMP also in
  part; that it does half of a Set is not modelled. A point of OPC UA or HTTP that is read
  without an error is taken to have a value. `convertForWrite` and JSON refuse some values of a
  point; which ones is in `Values`.
* In `Values`, the texts are few; JSON objects and arrays pushed as fields, and an int64
  written as an SNMP Counter64, for which gosnmp has no encoding, are left out. Of
  `ToFloat64` and `ToInt32` only the cases occur that keep the value, since the SDK passes a
  float64 or an int32. A number read beyond the range of its 64-bit integer is whatever
  the platform makes of it.
* Not modelled: `UpdateProtocolConfig`, `RemoveProtocolConfig`, `removeClient`,
  `ToFloat64Slice` and `ToInt32Slice`, which have no caller;
  `ProcessCustomConfigChanges` (one integer, for which `Discover` sleeps), the metric, the
  failures of `Initialize`, which come before anything runs; the security settings of SNMP
  v3 and OPC UA and the forms of the HTTP token, which are handed on; simulators,
  scripts and configuration data.

## What is left

Every part of the running service that has a caller is modelled, and every safety property
of the passing runs is proved. What could be added:

1. Shorter proofs: those of `Registers` are long where a lemma about sequences would be cited
   several times.

----------------------------- MODULE Listeners -----------------------------
(***************************************************************************)
(* The life of the passive listeners: registration from listener.json,     *)
(* StartAll, which runs every Start in a goroutine of its own and returns, *)
(* and StopAll, which calls every Stop in turn.                            *)
(*   pkg/protocol/listener.go, pkg/adapter/listener_{http,mqtt,snmp},      *)
(*   internal/driver/drive.go (Start, Stop, loadListeners).                *)
(*                                                                         *)
(* Start of the MQTT and SNMP listeners sets the field with its server     *)
(* under the lock and reads it again without; Stop, under the lock, closes *)
(* the server and sets the field to nil.  A call through the nil field     *)
(* panics, and a panic in a goroutine nobody recovers ends the process.    *)
(***************************************************************************)
EXTENDS Integers, Sequences, SequencesExt

CONSTANTS
    Https, Mqtts, Snmps,    \* the listeners of each kind in listener.json
    PortOf                  \* the port each is configured with

Listeners == Https \cup Mqtts \cup Snmps

ASSUME ListenersAssumption ==
    /\ Https \cap Mqtts = {} /\ Https \cap Snmps = {} /\ Mqtts \cap Snmps = {}
    /\ IsFiniteSet(Listeners)
    /\ Listeners \subseteq DOMAIN PortOf

VARIABLES
    servers,   \* rc.Servers: the enabled listeners in the order of the file
    pc,        \* the goroutine of each listener's Start
    field,     \* r.server, r.srv, r.listener: "nil" or "set"
    closing,   \* the http.Server has been shut down
    driver,    \* "new", "started", "stopping" or "stopped"
    toStop,    \* the listeners StopAll has yet to stop
    settled,   \* every Start was serving or over when Stop was called
    panicked   \* the process is down

vars == <<servers, pc, field, closing, driver, toStop, settled, panicked>>

\* off, spawned: before Start runs; made: the server exists; hooked, bound:
\* in MQTT's Start; listening: in SNMP's Listen, before it has its socket.
Stages == {"off", "spawned", "made", "hooked", "bound", "listening", "serving", "ended"}

TypeOK ==
    /\ servers \in Seq(Listeners) /\ IsInjective(servers)
    /\ pc \in [Listeners -> Stages]
    /\ field \in [Listeners -> {"nil", "set"}]
    /\ closing \in SUBSET Https
    /\ driver \in {"new", "started", "stopping", "stopped"}
    /\ toStop \in Seq(Listeners)
    /\ settled \in BOOLEAN /\ panicked \in BOOLEAN

Init ==
    /\ servers = <<>>
    /\ pc = [l \in Listeners |-> "off"]
    /\ field = [l \in Listeners |-> IF l \in Https THEN "set" ELSE "nil"]
    /\ closing = {}
    /\ driver = "new" /\ toStop = <<>> /\ settled = FALSE /\ panicked = FALSE

-----------------------------------------------------------------------------
\* Faulty variant: listener.json is loaded twice.
Start_Twice ==
    /\ driver = "new" /\ driver' = "started"
    /\ \E enabled \in SUBSET Listeners :
        /\ servers' \in {s \o s : s \in SetToSeqs(enabled)}
        /\ pc' = [l \in Listeners |-> IF l \in enabled THEN "spawned" ELSE "off"]
    /\ UNCHANGED <<field, closing, toStop, settled, panicked>>

\* Start of the driver: loadListeners registers the enabled ones in the order
\* of the file, and StartAll spawns their Starts.  The errors those return are
\* dropped.
Start ==
    /\ driver = "new" /\ driver' = "started"
    /\ \E enabled \in SUBSET Listeners :
        /\ servers' \in SetToSeqs(enabled)
        /\ pc' = [l \in Listeners |-> IF l \in enabled THEN "spawned" ELSE "off"]
    /\ UNCHANGED <<field, closing, toStop, settled, panicked>>

Goto(l, stage) ==
    /\ pc' = [pc EXCEPT ![l] = stage]
    /\ UNCHANGED <<servers, closing, driver, toStop, settled>>

\* Another listener, or another program, may have the port.
PortBusy(l) == \E k \in Listeners \ {l} :
    PortOf[k] = PortOf[l] /\ pc[k] \in {"bound", "serving"}

\* Faulty variant: a busy port is waited for.
Bind_Waits(l, stage) ==
    /\ ~PortBusy(l) /\ Goto(l, stage)
    /\ UNCHANGED <<field, panicked>>

\* A step that takes the port: on to `stage`, or Start returns an error.
Bind(l, stage) ==
    /\ \/ ~PortBusy(l) /\ Goto(l, stage)
       \/ Goto(l, "ended")
    /\ UNCHANGED <<field, panicked>>

\* A call through the field: it panics if Stop has set it to nil.
Through(l, Call) ==
    IF field[l] = "nil"
    THEN /\ panicked' = TRUE
         /\ UNCHANGED <<servers, pc, field, closing, driver, toStop, settled>>
    ELSE Call

\* Faulty variant: the http.Server is made by Start, which misses the Shutdown.
ListenAndServe_NewServer(l) ==
    /\ l \in Https /\ pc[l] = "spawned"
    /\ Bind(l, "serving")

\* HTTP: ListenAndServe returns at once on a server that was shut down.
ListenAndServe(l) ==
    /\ l \in Https /\ pc[l] = "spawned"
    /\ IF l \in closing THEN Goto(l, "ended") /\ UNCHANGED <<field, panicked>>
                        ELSE Bind(l, "serving")

\* MQTT and SNMP: the server is made, under the lock.
Make(l) ==
    /\ l \in Mqtts \cup Snmps /\ pc[l] = "spawned"
    /\ field' = [field EXCEPT ![l] = "set"]
    /\ Goto(l, "made")
    /\ UNCHANGED panicked

\* MQTT: AddHook (twice), AddListener, which opens the socket, and Serve.
AddHooks(l) ==
    /\ l \in Mqtts /\ pc[l] = "made"
    /\ Through(l, Goto(l, "hooked") /\ UNCHANGED <<field, panicked>>)

AddListener(l) ==
    /\ l \in Mqtts /\ pc[l] = "hooked"
    /\ Through(l, Bind(l, "bound"))

Serve(l) ==
    /\ l \in Mqtts /\ pc[l] = "bound"
    /\ Through(l, Goto(l, "serving") /\ UNCHANGED <<field, panicked>>)

\* SNMP: Listen is called through the field; it opens the socket on its own.
CallListen(l) ==
    /\ l \in Snmps /\ pc[l] = "made"
    /\ Through(l, Goto(l, "listening") /\ UNCHANGED <<field, panicked>>)

Listen(l) ==
    /\ l \in Snmps /\ pc[l] = "listening"
    /\ Bind(l, "serving")

StartStep(l) ==
    /\ ~panicked
    /\ \/ ListenAndServe(l)
       \/ Make(l)
       \/ AddHooks(l)
       \/ AddListener(l)
       \/ Serve(l)
       \/ CallListen(l)
       \/ Listen(l)

-----------------------------------------------------------------------------
\* Stop of the driver enters StopAll, ...
Stop ==
    /\ ~panicked /\ driver = "started" /\ driver' = "stopping"
    /\ toStop' = servers
    /\ settled' = \A l \in Listeners : pc[l] \in {"off", "serving", "ended"}
    /\ UNCHANGED <<servers, pc, field, closing, panicked>>

\* ... which stops the listeners in order.  HTTP: Shutdown marks the server and
\* closes its socket, whether it runs yet or not, ...
Shutdown ==
    /\ ~panicked /\ driver = "stopping" /\ toStop # <<>>
    /\ LET l == Head(toStop) IN
       /\ l \in Https \ closing
       /\ closing' = closing \cup {l}
       /\ pc' = IF pc[l] = "serving" THEN [pc EXCEPT ![l] = "ended"] ELSE pc
    /\ UNCHANGED <<servers, field, driver, toStop, settled, panicked>>

\* Faulty variant: the first listener ends the loop.
StopNext_FirstOnly ==
    /\ ~panicked /\ driver = "stopping" /\ toStop # <<>>
    /\ Head(toStop) \in Https => Head(toStop) \in closing
    /\ toStop' = <<>>
    /\ UNCHANGED <<servers, pc, field, closing, driver, settled, panicked>>

\* ... and returns when no request is in a handler any more, or after five seconds
\* with an error; StopAll goes on either way.  MQTT and SNMP: nothing to do
\* without a server; otherwise it is closed and the field cleared.  gosnmp's
\* Close does nothing before the socket is open.
StopNext ==
    /\ ~panicked /\ driver = "stopping" /\ toStop # <<>>
    /\ toStop' = Tail(toStop)
    /\ LET l == Head(toStop) IN
       \/ l \in closing /\ UNCHANGED <<pc, field>>
       \/ /\ l \notin Https
          /\ pc' = IF pc[l] = "serving" /\ field[l] = "set"
                   THEN [pc EXCEPT ![l] = "ended"] ELSE pc
          /\ field' = [field EXCEPT ![l] = "nil"]
    /\ UNCHANGED <<servers, closing, driver, settled, panicked>>

\* ... and cancels the context.
Stopped ==
    /\ ~panicked /\ driver = "stopping" /\ toStop = <<>>
    /\ driver' = "stopped"
    /\ UNCHANGED <<servers, pc, field, closing, toStop, settled, panicked>>

Next ==
    \/ Start
    \/ \E l \in Listeners : StartStep(l)
    \/ Stop \/ Shutdown \/ StopNext \/ Stopped

Spec == Init /\ [][Next]_vars

\* The goroutines of the listeners run, and a Stop that began goes on: HTTP's
\* Shutdown gives up after five seconds and the other two do not wait.
FairSpec == Spec /\ WF_vars(Shutdown) /\ WF_vars(StopNext) /\ WF_vars(Stopped)
                 /\ \A l \in Listeners : WF_vars(StartStep(l))

-----------------------------------------------------------------------------
\* Strengthenings the proofs rest on.  StopAll has yet to get to l.
Awaits(l) == driver \in {"new", "started"} \/ l \in Range(toStop)

\* StopAll stops each listener once, and they are all that ever started.
OrderInv ==
    /\ IsInjective(toStop)
    /\ driver # "stopping" => toStop = <<>>
    /\ \A l \in Listeners : pc[l] # "off" => driver # "new" /\ l \in Range(servers)

\* The http.Server that StopAll has got to is marked, and never serves again.
MarkedInv == \A l \in Https :
    /\ field[l] = "set"
    /\ ~Awaits(l) /\ pc[l] # "off" => l \in closing
    /\ l \in closing => pc[l] # "serving"

\* The field of a listener is not cleared before StopAll gets to it.
FieldInv == \A l \in Listeners :
    Awaits(l) /\ pc[l] \notin {"off", "spawned", "ended"} => field[l] = "set"

\* Nothing is under way in a settled stop, and what it has got to is over.
SettledInv == settled =>
    /\ driver \in {"stopping", "stopped"} /\ ~panicked
    /\ \A l \in Listeners : /\ pc[l] \in {"off", "serving", "ended"}
                            /\ ~Awaits(l) => pc[l] # "serving"

\* The HTTP server is made before Start, so that it cannot be missed by a Stop
\* that comes early: once Stop has returned it does not serve.
HttpStops == driver = "stopped" => \A l \in Https : pc[l] # "serving"

\* A Stop that finds every listener serving, or over, stops them all and
\* panics nowhere.
SettledStop == settled =>
    /\ ~panicked
    /\ driver = "stopped" => \A l \in Listeners : pc[l] # "serving"

\* Each listener gets to serve, or to its own error, whatever the others do:
\* one that fails or blocks does not keep the rest from starting.
EachStarts == \A l \in Listeners :
    pc[l] = "spawned" ~> (pc[l] \in {"serving", "ended"} \/ driver # "started")

\* StopAll gets through the listeners.
StopReturns == driver = "stopping" ~> (driver = "stopped" \/ panicked)

\* Neither holds up the other.
StartsAndStops == EachStarts /\ StopReturns

=============================================================================

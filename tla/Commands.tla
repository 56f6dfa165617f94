----------------------------- MODULE Commands -----------------------------
(***************************************************************************)
(* internal/driver/drive.go, the data plane: HandleReadCommands and        *)
(* HandleWriteCommands, which the SDK runs in as many goroutines as        *)
(* requests arrive, over the configuration cache (ProtocolConfig) and the  *)
(* connection pool (Polls), while core-metadata adds, updates and removes  *)
(* devices.                                                                *)
(*                                                                         *)
(* A command goes through the protocols of the device in the order in      *)
(* which Go ranges over the map, any order.  For each it resolves the      *)
(* configuration, gets a handler, and reads or writes through it.          *)
(***************************************************************************)
EXTENDS Integers, FiniteSets

CONSTANTS
    Workers, Devices, Endpoints,
    Adapters, ListenOnly, Unsupported,   \* protocol names, as in Polls
    Conns, NoConn, MaxSize, RaceOutcomes,
    Metadata,    \* values of a device's protocols: protocol name -> properties
    NoProps, NoDevice

Names == Adapters \cup ListenOnly \cup Unsupported
Props == [endpoint : Endpoints, disabled : BOOLEAN]
Keys == Devices \X Names

ASSUME CommandsAssumption ==
    /\ IsFiniteSet(Workers) /\ Workers # {}
    /\ IsFiniteSet(Endpoints) /\ Endpoints # {}
    /\ Names # {}
    /\ NoConn \notin Conns /\ NoProps \notin Props /\ NoDevice \notin Metadata
    /\ MaxSize \in Nat \ {0}
    /\ RaceOutcomes \subseteq {"fatal", "stale", "lost"}
    /\ \A m \in Metadata : \E P \in SUBSET Names : m \in [P -> Props]

VARIABLES
    meta,    \* what the SDK's cache holds for each device, NoDevice if nothing
    cmd,     \* the command each worker is running
    cache, call,                                    \* ProtocolConfig
    clients, count, conn, pc, arg, mine, down       \* Polls

configVars == <<cache, call>>
poolVars == <<clients, count, conn, pc, arg, mine, down>>
vars == <<meta, cmd, cache, call, clients, count, conn, pc, arg, mine, down>>

Config == INSTANCE ProtocolConfig WITH Callers <- Workers
\* Nothing calls DisconnectAll.
Pool == INSTANCE Polls
            WITH sweep <- [e \in Endpoints |-> "off"], sweeps <- 0, MaxSweeps <- 0

\* No command, or one that is about to take the next protocol ("next"), waits
\* for its configuration ("resolve") or its handler ("handler"), or has
\* returned, without an error ("done") or with one ("failed"); and the
\* protocols whose exchange went badly.  (The values read are left out.)
NoCmd == [stage |-> "none"]
Returned == {"done", "failed"}
Cmd == [stage : {"next", "resolve", "handler"} \cup Returned, kind : {"read", "write"},
        dev : Devices, given : Metadata, todo : SUBSET Names, badly : SUBSET Names]

TypeOK ==
    /\ meta \in [Devices -> Metadata \cup {NoDevice}]
    /\ cmd \in [Workers -> Cmd \cup {NoCmd}]
    /\ Config!TypeOK
    /\ Pool!TypeOK

Init ==
    /\ meta \in [Devices -> Metadata \cup {NoDevice}]
    /\ cmd = [w \in Workers |-> NoCmd]
    /\ Config!Init
    /\ Pool!Init

-----------------------------------------------------------------------------
\* The device callbacks.  The SDK has updated its own cache; the driver logs
\* and leaves its configurations and connections as they are.
AddDevice(d, m) ==
    /\ ~down /\ meta[d] = NoDevice
    /\ meta' = [meta EXCEPT ![d] = m]
    /\ UNCHANGED <<cmd, configVars, poolVars>>

UpdateDevice(d, m) ==
    /\ ~down /\ meta[d] # NoDevice
    /\ meta' = [meta EXCEPT ![d] = m]
    /\ UNCHANGED <<cmd, configVars, poolVars>>

\* Faulty variant: a removed device stays, without protocols.
RemoveDevice_Empties(d) ==
    /\ ~down /\ meta[d] # NoDevice
    /\ meta' = [meta EXCEPT ![d] = <<>>]
    /\ UNCHANGED <<cmd, configVars, poolVars>>

RemoveDevice(d) ==
    /\ ~down /\ meta[d] # NoDevice
    /\ meta' = [meta EXCEPT ![d] = NoDevice]
    /\ UNCHANGED <<cmd, configVars, poolVars>>

-----------------------------------------------------------------------------
\* The SDK calls the driver with the protocols it has for the device now.
Begin(w, d, kind) ==
    /\ ~down /\ cmd[w] = NoCmd /\ meta[d] # NoDevice
    /\ cmd' = [cmd EXCEPT ![w] = [stage |-> "next", kind |-> kind, dev |-> d,
                                 given |-> meta[d], todo |-> DOMAIN meta[d], badly |-> {}]]
    /\ UNCHANGED <<meta, configVars, poolVars>>

\* The loop takes a protocol and enters ResolveProtocolConfig.
NextProtocol(w) ==
    /\ ~down /\ cmd[w].stage = "next"
    /\ \E p \in cmd[w].todo :
        /\ Config!Resolve(w, <<cmd[w].dev, p>>, cmd[w].given[p])
        /\ cmd' = [cmd EXCEPT ![w].stage = "resolve", ![w].todo = @ \ {p}]
    /\ UNCHANGED <<meta, poolVars>>

ResolveStep(w) ==
    /\ ~down
    /\ Config!Load(w) \/ Config!LoadOrStore(w)
    /\ UNCHANGED <<meta, cmd, poolVars>>

\* The protocol the worker is at, and the configuration resolved for it.
Protocol(w) == call[w].key[2]

\* `continue`: on to the next protocol.
Continue(w) ==
    /\ Config!Return(w)
    /\ cmd' = [cmd EXCEPT ![w].stage = "next"]
    /\ UNCHANGED <<meta, poolVars>>

Resolved(w) == cmd[w].stage = "resolve" /\ call[w].pc = "done"

\* IsDisabled, or a name GetHandler rejects before it looks at the pool.
Skip(w) ==
    /\ ~down /\ Resolved(w)
    /\ call[w].ret.disabled \/ Protocol(w) \in Unsupported
    /\ Continue(w)

\* Faulty variant: the handler is asked for with the properties passed in.
GetHandler_Given(w) ==
    /\ ~down /\ Resolved(w)
    /\ ~call[w].ret.disabled
    /\ Pool!Enter(w, [name |-> Protocol(w),
                      endpoint |-> cmd[w].given[Protocol(w)].endpoint])
    /\ cmd' = [cmd EXCEPT ![w].stage = "handler"]
    /\ UNCHANGED <<meta, configVars>>

GetHandler(w) ==
    /\ ~down /\ Resolved(w)
    /\ ~call[w].ret.disabled
    /\ Pool!Enter(w, [name |-> Protocol(w), endpoint |-> call[w].ret.endpoint])
    /\ cmd' = [cmd EXCEPT ![w].stage = "handler"]
    /\ UNCHANGED <<meta, configVars>>

PoolStep(w) ==
    /\ Pool!GetHandlerStep(w)
    /\ UNCHANGED <<meta, cmd, configVars>>

\* Faulty variant: the handler is asked for again.
NoHandler_Retries(w) ==
    /\ ~down /\ cmd[w].stage = "handler" /\ pc[w] = "idle"
    /\ cmd' = [cmd EXCEPT ![w].stage = "resolve"]
    /\ UNCHANGED <<meta, configVars, poolVars>>

\* GetHandler returned an error, which is logged.
NoHandler(w) ==
    /\ ~down /\ cmd[w].stage = "handler" /\ pc[w] = "idle"
    /\ Continue(w)

\* The exchange of the protocol the worker is at is over.
Exchanged(w, stage, good) ==
    cmd' = [cmd EXCEPT ![w].stage = stage,
                       ![w].badly = IF good THEN @ ELSE @ \cup {Protocol(w)}]

\* Faulty variant: a failed read drops the pooled connection, behind the pool.
Read_Evicts(w) ==
    /\ ~down /\ cmd[w].stage = "handler" /\ pc[w] = "got" /\ cmd[w].kind = "read"
    /\ Exchanged(w, "next", FALSE)
    /\ clients' = [clients EXCEPT ![arg[w].endpoint] = NoConn]
    /\ Pool!Idle(w) /\ Config!Return(w)
    /\ UNCHANGED <<meta, count, conn, down>>

\* HandleReadSingle or HandleReadBatch returns: all the values or an error, with
\* some of them or none.  A failure is logged and the loop goes on.
Read(w) ==
    /\ ~down /\ cmd[w].stage = "handler" /\ pc[w] = "got" /\ cmd[w].kind = "read"
    /\ \E good \in BOOLEAN : Exchanged(w, "next", good)
    /\ Pool!Return(w) /\ Config!Return(w)
    /\ UNCHANGED meta

\* Faulty variant: a failure is logged and the loop goes on.
Write_GoesOn(w) ==
    /\ ~down /\ cmd[w].stage = "handler" /\ pc[w] = "got" /\ cmd[w].kind = "write"
    /\ \E good \in BOOLEAN : Exchanged(w, "next", good)
    /\ Pool!Return(w) /\ Config!Return(w)
    /\ UNCHANGED meta

\* HandleWriteSingle or HandleWriteBatch; the first error ends the command and
\* leaves the protocols written so far as they are.
Write(w) ==
    /\ ~down /\ cmd[w].stage = "handler" /\ pc[w] = "got" /\ cmd[w].kind = "write"
    /\ \E good \in BOOLEAN : Exchanged(w, IF good THEN "next" ELSE "failed", good)
    /\ Pool!Return(w) /\ Config!Return(w)
    /\ UNCHANGED meta

\* No protocol is left: the command returns with a nil error.
Finish(w) ==
    /\ ~down /\ cmd[w].stage = "next" /\ cmd[w].todo = {}
    /\ cmd' = [cmd EXCEPT ![w].stage = "done"]
    /\ UNCHANGED <<meta, configVars, poolVars>>

\* The SDK has taken the result; the goroutine is free.
End(w) ==
    /\ ~down /\ cmd[w].stage \in Returned
    /\ cmd' = [cmd EXCEPT ![w] = NoCmd]
    /\ UNCHANGED <<meta, configVars, poolVars>>

CommandStep(w) ==
    \/ NextProtocol(w)
    \/ ResolveStep(w)
    \/ Skip(w)
    \/ GetHandler(w)
    \/ PoolStep(w)
    \/ NoHandler(w)
    \/ Read(w)
    \/ Write(w)
    \/ Finish(w)

Next ==
    \/ \E w \in Workers :
        \/ \E d \in Devices, kind \in {"read", "write"} : Begin(w, d, kind)
        \/ CommandStep(w)
        \/ End(w)
    \/ \E d \in Devices :
        \/ \E m \in Metadata : AddDevice(d, m) \/ UpdateDevice(d, m)
        \/ RemoveDevice(d)

Spec == Init /\ [][Next]_vars

\* A goroutine that runs a command is scheduled, and every exchange with a
\* device ends by the timeout of its adapter, or of its library: OPC UA's
\* Connect is given none.
FairSpec == Spec /\ \A w \in Workers : WF_vars(CommandStep(w))

-----------------------------------------------------------------------------
\* The worker is reading or writing through the handler it was given.
Using(w) == cmd[w].stage = "handler" /\ pc[w] = "got"

\* Commands for one device and protocol go to one and the same endpoint, also
\* when the device is updated or removed and added between their starts, and
\* however their resolutions and connections interleave.
OneTarget == \A v, w \in Workers :
    Using(v) /\ Using(w) /\ call[v].key = call[w].key
        => conn[mine[v]].endpoint = conn[mine[w]].endpoint


\* A write that returns without an error has gone through all protocols of the
\* device, and none that it got a handler for has failed; one that returns an
\* error has met exactly one failure and stopped there, wherever in the order
\* of the map that is.
Accounted == \A w \in Workers :
    /\ cmd[w].stage = "done" /\ cmd[w].kind = "write" => cmd[w].todo = {} /\ cmd[w].badly = {}
    /\ cmd[w].stage = "failed" => \E p \in Names : cmd[w].badly = {p}

\* A command the SDK started returns, unless the process ends.
CommandsReturn == \A w \in Workers :
    cmd[w].stage = "next" ~> (cmd[w].stage \in Returned \cup {"none"} \/ down)

\* What module ProtocolConfig promises, of the cache the commands share: those
\* that hold a configuration of one device and protocol hold the cache's, and the
\* first one resolved is never replaced, whatever metadata each was handed.
Agreement == Config!Agreement
ImplementsWriteOnce == Config!ImplementsWriteOnce

\* The commands use the pool and the cache as their modules say they are used,
\* so what is proved of Polls and ProtocolConfig holds of them here.
UsesPool == Pool!Spec
UsesConfig == Config!Spec
UsesParts == UsesPool /\ UsesConfig

-----------------------------------------------------------------------------
(* Strengthenings the proofs rest on.                                        *)

\* A worker is in the cache only for a protocol it has taken, and in the pool
\* only with the endpoint that was resolved for it.
LinkInv == \A w \in Workers :
    /\ cmd[w].stage \notin {"resolve", "handler"} => call[w] = Config!NoCall
    /\ cmd[w].stage # "handler" => pc[w] = "idle"
    /\ cmd[w].stage = "handler" =>
        /\ call[w].pc = "done"
        /\ pc[w] # "idle" => arg[w].endpoint = call[w].ret.endpoint
    /\ cmd[w].stage # "none" => cmd[w].todo \subseteq DOMAIN cmd[w].given

\* A write that has met a failure is over.
FailureInv == \A w \in Workers :
    cmd[w].stage \notin {"none", "failed"} /\ cmd[w].kind = "write" => cmd[w].badly = {}

=============================================================================

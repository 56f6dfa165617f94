------------------------------ MODULE Exchange ------------------------------
(***************************************************************************)
(* The requests a command makes of a device through a pooled adapter that  *)
(* other commands use at the same time: ReadSingle, ReadBatch, WriteSingle *)
(* and WriteBatch of                                                       *)
(*   pkg/adapter/httpclient, pkg/adapter/opcua, pkg/adapter/snmp.          *)
(* (Those of pkg/adapter/modbus are in Registers.)                         *)
(*                                                                         *)
(* HTTP makes a request for every point and holds the client's lock while  *)
(* it waits for the answer; OPC UA writes point by point and reads all     *)
(* points at once, without a lock; SNMP makes one request for the command, *)
(* without a lock, and sends it again when no answer comes.  A request     *)
(* that is given up may still reach the device.                            *)
(*                                                                         *)
(* A point is its address, whether its value converts, whether its OID     *)
(* begins with a dot, as those in the answers of gosnmp do, and whether it *)
(* is text, which conv.ValueToType makes of anything.  What a command      *)
(* writes is its own name.                                                 *)
(***************************************************************************)
EXTENDS Integers, Sequences

CONSTANTS
    Commands,    \* the commands, each run by a goroutine of the SDK
    Addresses,
    Batches,     \* the sequences of points a command may name
    MaxSends,    \* how often SNMP sends a request: 1 + Retries (4 in the code)
    Factory,     \* what the device holds at first
    Null,        \* what an answer of SNMP has in place of a value it refuses
    NoCommand

Adapters == {"http", "opcua", "snmp"}
Points == [address : Addresses, converts : BOOLEAN, dotted : BOOLEAN, text : BOOLEAN]

ASSUME ExchangeAssumption ==
    /\ Batches \subseteq Seq(Points) \ {<<>>}
    /\ MaxSends \in Nat \ {0}
    /\ Factory \notin Commands /\ NoCommand \notin Commands
    /\ Null \notin Commands \cup {Factory}

VARIABLES
    adapter,   \* which of the adapters this is
    op,        \* of a command: "read" or "write"
    points,    \* the points it names
    stage,     \* where it is: "new", "ready" to send, "waiting", or over
    next,      \* the first point that has not been answered
    sends,     \* how often the request for it has been sent
    values,    \* the values read so far
    lock,      \* who holds h.mu
    wire,      \* requests under way to the device
    answers,   \* answers under way back
    memory,    \* what the device holds
    written,   \* the points of a command whose value the device has stored
    refused,   \* commands with a request the device has refused
    held       \* for a read, the values each address has held since it began

vars == <<adapter, op, points, stage, next, sends, values, lock, wire, answers, memory,
          written, refused, held>>

Stored == Commands \cup {Factory}
Readings == Stored \cup {Null}
Over == {"ok", "error"}
Nothing == <<>>

TypeOK ==
    /\ adapter \in Adapters
    /\ op \in [Commands -> {"read", "write"}]
    /\ points \in [Commands -> Batches]
    /\ stage \in [Commands -> {"new", "ready", "waiting"} \cup Over]
    /\ next \in [Commands -> Nat] /\ sends \in [Commands -> 0 .. MaxSends]
    /\ written \in [Commands -> SUBSET Nat]
    /\ DOMAIN values = Commands
    /\ \A c \in Commands :
        /\ next[c] \in 1 .. Len(points[c]) + 1
        /\ written[c] \subseteq DOMAIN points[c]
        /\ DOMAIN values[c] \subseteq DOMAIN points[c]
        /\ \A i \in DOMAIN values[c] : values[c][i] \in Readings
    /\ lock \in Commands \cup {NoCommand}
    /\ wire \subseteq [of : Commands, at : Nat, copy : 1 .. MaxSends]
    /\ \A r \in wire : r.at \in DOMAIN points[r.of]
    /\ answers \subseteq [of : Commands, at : Nat, good : BOOLEAN,
                          values : [Addresses -> Readings] \cup {Nothing}]
    /\ memory \in [Addresses -> Stored]
    /\ refused \subseteq Commands
    /\ held \in [Commands -> [Addresses -> SUBSET Stored]]

Init ==
    /\ adapter \in Adapters
    /\ op \in [Commands -> {"read", "write"}]
    /\ points \in [Commands -> Batches]
    /\ stage = [c \in Commands |-> "new"]
    /\ next = [c \in Commands |-> 1]
    /\ sends = [c \in Commands |-> 0]
    /\ values = [c \in Commands |-> Nothing]
    /\ lock = NoCommand
    /\ wire = {} /\ answers = {}
    /\ memory = [a \in Addresses |-> Factory]
    /\ written = [c \in Commands |-> {}]
    /\ refused = {}
    /\ held = [c \in Commands |-> [a \in Addresses |-> {}]]

-----------------------------------------------------------------------------
\* The loops of httpclient's batches and of opcua's WriteBatch.
PointByPoint(c) == adapter = "http" \/ (adapter = "opcua" /\ op[c] = "write")

\* The points a request is for, the one that starts at point k.
Part(c, k) == IF PointByPoint(c) THEN {k} ELSE DOMAIN points[c]

AllConvert(c) == \A i \in Part(c, next[c]) : points[c][i].converts

\* Faulty variant: h.mu is released after an answer only.
EndAs_KeepsLock(c, result) ==
    /\ stage' = [stage EXCEPT ![c] = result]
    /\ lock' = IF lock = c /\ result # "error" THEN NoCommand ELSE lock
    /\ answers' = {a \in answers : a.of # c}

\* The command returns; h.mu is released by doRequest's defer.
EndAs(c, result) ==
    /\ stage' = [stage EXCEPT ![c] = result]
    /\ lock' = IF lock = c THEN NoCommand ELSE lock
    /\ answers' = {a \in answers : a.of # c}

\* The SDK calls the driver, which calls the adapter.
Begin(c) ==
    /\ stage[c] = "new"
    /\ stage' = [stage EXCEPT ![c] = "ready"]
    /\ held' = IF op[c] = "read" THEN [held EXCEPT ![c] = [a \in Addresses |-> {memory[a]}]] ELSE held
    /\ UNCHANGED <<adapter, op, points, next, sends, values, lock, wire, answers, memory,
                   written, refused>>

\* A value that json.Marshal, convertForWrite or goValueToSnmpPDU does not take
\* ends a write before its request; SNMP converts all values first.
Refuse(c) ==
    /\ stage[c] = "ready" /\ op[c] = "write" /\ ~AllConvert(c)
    /\ EndAs(c, "error")
    /\ UNCHANGED <<adapter, op, points, next, sends, values, wire, memory, written, refused, held>>

\* doRequest takes h.mu and keeps it until it has the answer.
Send(c) ==
    /\ stage[c] = "ready"
    /\ op[c] = "write" => AllConvert(c)
    /\ adapter = "http" => lock = NoCommand
    /\ lock' = IF adapter = "http" THEN c ELSE lock
    /\ stage' = [stage EXCEPT ![c] = "waiting"]
    /\ sends' = [sends EXCEPT ![c] = 1]
    /\ wire' = wire \cup {[of |-> c, at |-> next[c], copy |-> 1]}
    /\ UNCHANGED <<adapter, op, points, next, values, answers, memory, written, refused, held>>

\* Faulty variant: it is sent again for ever.
Resend_Forever(c) ==
    /\ adapter = "snmp" /\ stage[c] = "waiting"
    /\ sends' = [sends EXCEPT ![c] = @ + 1]
    /\ wire' = wire \cup {[of |-> c, at |-> next[c], copy |-> sends[c] + 1]}
    /\ UNCHANGED <<adapter, op, points, stage, next, values, lock, answers, memory, written,
                   refused, held>>

\* Retries of gosnmp: the same request once more.
Resend(c) ==
    /\ adapter = "snmp" /\ stage[c] = "waiting" /\ sends[c] < MaxSends
    /\ sends' = [sends EXCEPT ![c] = @ + 1]
    /\ wire' = wire \cup {[of |-> c, at |-> next[c], copy |-> sends[c] + 1]}
    /\ UNCHANGED <<adapter, op, points, stage, next, values, lock, answers, memory, written,
                   refused, held>>

\* Faulty variant: the error of the last request is dropped.
TimeOut_NoError(c) ==
    /\ stage[c] = "waiting"
    /\ adapter = "snmp" => sends[c] = MaxSends
    /\ EndAs(c, "ok")
    /\ UNCHANGED <<adapter, op, points, next, sends, values, wire, memory, written, refused, held>>

\* The adapter gives up.
TimeOut(c) ==
    /\ stage[c] = "waiting"
    /\ adapter = "snmp" => sends[c] = MaxSends
    /\ EndAs(c, "error")
    /\ UNCHANGED <<adapter, op, points, next, sends, values, wire, memory, written, refused, held>>

\* Faulty variant: the status is not looked at.
Taken_Any(c, a) == TRUE

\* A status other than 2xx, or one that is not StatusOK, is an error.  SNMP puts
\* it in the packet of the answer, at which nothing looks: only ReadSingle fails
\* when the packet has no variables.
Taken(c, a) ==
    \/ a.good
    \/ /\ adapter = "snmp"
       /\ op[c] = "write" \/ Len(points[c]) > 1 \/ a.values # Nothing

\* ReadBatch of SNMP finds the point of a value by its OID as it is written:
\* without the dot none is found, and of several points with one OID the last.
Assigned(c, k) ==
    LET found == {i \in Part(c, k) : points[c][i].dotted} IN
    IF adapter = "snmp" /\ Len(points[c]) > 1
    THEN {i \in found : \A j \in found : j > i => points[c][j].address # points[c][i].address}
    ELSE Part(c, k)

\* The points that get a value of the answer.
Answered(c, a) == {i \in Assigned(c, a.at) : points[c][i].address \in DOMAIN a.values}

\* ValueToType, or the JSON before it, does not take a value that was read, or
\* the nil of a variable that was refused, of which it makes a text only; the OPC
\* UA adapter leaves the value as it is.
Readable(c, a) ==
    op[c] = "write" \/ adapter = "opcua" \/ \A i \in Answered(c, a) :
        points[c][i].converts /\ (a.values[points[c][i].address] = Null => points[c][i].text)

\* Faulty variant: every point gets the first value of the answer.
Merge_First(c, a) ==
    [i \in DOMAIN values[c] \cup Answered(c, a) |->
        IF i \in Answered(c, a) THEN a.values[points[c][a.at].address] ELSE values[c][i]]

\* The values read so far and those of the answer.
Merge(c, a) ==
    [i \in DOMAIN values[c] \cup Answered(c, a) |->
        IF i \in Answered(c, a) THEN a.values[points[c][i].address] ELSE values[c][i]]

More(c) == PointByPoint(c) /\ next[c] < Len(points[c])

\* The answer to the request the command waits for: on to the next point, or
\* the command is over.
Receive(c) ==
    /\ stage[c] = "waiting"
    /\ \E a \in answers :
        /\ a.of = c /\ a.at = next[c]
        /\ IF ~Taken(c, a) \/ ~Readable(c, a)
           THEN EndAs(c, "error") /\ UNCHANGED <<next, values>>
           ELSE /\ EndAs(c, IF More(c) THEN "ready" ELSE "ok")
                /\ next' = [next EXCEPT ![c] = IF More(c) THEN @ + 1 ELSE Len(points[c]) + 1]
                /\ values' = IF op[c] = "read" THEN [values EXCEPT ![c] = Merge(c, a)] ELSE values
    /\ sends' = [sends EXCEPT ![c] = 0]
    /\ UNCHANGED <<adapter, op, points, wire, memory, written, refused, held>>

Step(c) == Begin(c) \/ Refuse(c) \/ Send(c) \/ Resend(c) \/ TimeOut(c) \/ Receive(c)

-----------------------------------------------------------------------------
\* The device (external) carries out a request whenever it arrives, or refuses
\* it.  Its answer finds the command waiting for it or is lost.  A point of OPC
\* UA or HTTP that is read without an error has a value.
Reply(r, good, read) ==
    answers' = IF stage[r.of] = "waiting" /\ next[r.of] = r.at
               THEN answers \cup {[of |-> r.of, at |-> r.at, good |-> good, values |-> read]}
               ELSE answers

Reading(c) == op[c] = "read" /\ stage[c] \in {"ready", "waiting"}

Carry(r) ==
    /\ wire' = wire \ {r}
    /\ Reply(r, TRUE, IF op[r.of] = "read" THEN memory ELSE Nothing)
    /\ IF op[r.of] = "write"
       THEN /\ memory' = [a \in Addresses |->
                   IF \E i \in Part(r.of, r.at) : points[r.of][i].address = a THEN r.of ELSE memory[a]]
            /\ written' = [written EXCEPT ![r.of] = @ \cup Part(r.of, r.at)]
       ELSE UNCHANGED <<memory, written>>
    /\ held' = [c \in Commands |-> [a \in Addresses |->
                   IF Reading(c) THEN held[c][a] \cup {memory'[a]} ELSE held[c][a]]]
    /\ UNCHANGED <<adapter, op, points, stage, next, sends, values, lock, refused>>

\* An answer of SNMP that refuses a read, as a whole or some of its variables,
\* has the variables with a null for those, or none at all.
Refusals(r) ==
    IF adapter = "snmp" /\ op[r.of] = "read"
    THEN {Nothing} \cup {[a \in Addresses |-> IF a \in refusing THEN Null ELSE memory[a]] :
                            refusing \in SUBSET {points[r.of][i].address : i \in Part(r.of, r.at)} \ {{}}}
    ELSE {Nothing}

Reject(r) ==
    /\ wire' = wire \ {r}
    /\ \E read \in Refusals(r) : Reply(r, FALSE, read)
    /\ refused' = refused \cup {r.of}
    /\ UNCHANGED <<adapter, op, points, stage, next, sends, values, lock, memory, written, held>>

Next ==
    \/ \E c \in Commands : Step(c)
    \/ \E r \in wire : Carry(r) \/ Reject(r)

Spec == Init /\ [][Next]_vars

\* The goroutines run and their timeouts end; sync.Mutex starves nobody.  The
\* device and the network owe nothing, and no command has to begin.
FairSpec ==
    /\ Spec
    /\ \A c \in Commands :
        /\ WF_vars(Resend(c) \/ TimeOut(c) \/ Receive(c))
        /\ SF_vars(Refuse(c) \/ Send(c))

-----------------------------------------------------------------------------
\* What a write has done to the device, at any time and also after it has
\* returned.  Point by point: all the points before the first one without an
\* answer, perhaps that one, and none after it.  In one request: all of them or
\* none, and all if it returned ok unless the device refused.  Never a value
\* that does not convert.
WrittenPrefix == \A c \in Commands : op[c] = "write" =>
    /\ \A i \in written[c] : points[c][i].converts
    /\ IF PointByPoint(c)
       THEN 1 .. next[c] - 1 \subseteq written[c] /\ written[c] \subseteq 1 .. next[c]
       ELSE /\ written[c] \in {{}, DOMAIN points[c]}
            /\ stage[c] = "ok" => written[c] = DOMAIN points[c] \/ c \in refused

\* A write that has returned ok does nothing to the device any more, so it
\* cannot undo a later one.  SNMP is the exception: a copy that was sent again
\* may be carried out after the answer to another.
DoneIsDone ==
    [][\A a \in Addresses : memory'[a] # memory[a]
          => adapter = "snmp" \/ stage[memory'[a]] # "ok"]_vars

\* A read returns values that their own addresses have held since it began, and
\* one for every address if it returns ok, also when points share an address;
\* except that a batch of SNMP reads none of the addresses that are written
\* without the dot, and that of what the device has refused a read of SNMP makes a
\* text, and a batch of it may return ok without a value.
ReadsHeld == \A c \in Commands : op[c] = "read" =>
    LET batch == adapter = "snmp" /\ Len(points[c]) > 1 IN
    /\ \A i \in DOMAIN values[c] :
          \/ values[c][i] \in held[c][points[c][i].address]
          \/ values[c][i] = Null /\ adapter = "snmp" /\ c \in refused /\ points[c][i].text
    /\ stage[c] = "ok" => \A i \in DOMAIN points[c] :
          (batch => points[c][i].dotted /\ c \notin refused) =>
          \E j \in DOMAIN values[c] : points[c][j].address = points[c][i].address

\* A command that has begun returns, whatever the device and the network do and
\* however many commands wait for the lock.
CommandsReturn == \A c \in Commands : stage[c] \in {"ready", "waiting"} ~> stage[c] \in Over

-----------------------------------------------------------------------------
(* Strengthenings the proofs rest on.                                        *)

\* A command that is not over has a point to go on with, and a write waits only
\* for what it could convert.
PlaceInv == \A c \in Commands :
    /\ stage[c] \notin Over => next[c] \in DOMAIN points[c]
    /\ stage[c] = "waiting" /\ op[c] = "write" => AllConvert(c)

\* Requests are for points their command has come to.  Except with SNMP there is
\* one at a time, and a command that goes on has left none behind.
WireInv == \A r \in wire :
    /\ r.at <= next[r.of]
    /\ op[r.of] = "write" => \A i \in Part(r.of, r.at) : points[r.of][i].converts
    /\ adapter # "snmp" =>
        /\ r.copy = 1 /\ r.at = next[r.of] /\ stage[r.of] \in {"waiting", "error"}
        /\ \A a \in answers : a.of # r.of

\* An answer finds its command waiting for it, says whether the device has
\* stored the points, and brings what their addresses have held, except for those
\* of SNMP it refuses.
AnswerInv == \A a \in answers :
    /\ stage[a.of] = "waiting" /\ a.at = next[a.of]
    /\ a.good \/ a.of \in refused
    /\ op[a.of] = "write" /\ a.good => Part(a.of, a.at) \subseteq written[a.of]
    /\ op[a.of] = "read" =>
        /\ a.good => DOMAIN a.values = Addresses
        /\ \A d \in DOMAIN a.values :
              \/ a.values[d] \in held[a.of][d]
              \/ a.values[d] = Null /\ ~a.good /\ adapter = "snmp"

\* A read starts without values; while it runs it has seen what the device holds
\* now, and point by point it has the values of the points before the next one.
ReadInv == \A c \in Commands :
    /\ stage[c] = "new" => values[c] = Nothing
    /\ Reading(c) => \A d \in Addresses : memory[d] \in held[c][d]
    /\ adapter = "http" /\ op[c] = "read" => DOMAIN values[c] = 1 .. next[c] - 1

=============================================================================

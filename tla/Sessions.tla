------------------------------ MODULE Sessions ------------------------------
(***************************************************************************)
(* Connect, Disconnect and the use of one adapter, by goroutines that      *)
(* share it:                                                               *)
(*   pkg/adapter/{modbus, snmp, opcua, httpclient}.                        *)
(*                                                                         *)
(* The pool connects an adapter once, before it shares it, and never       *)
(* disconnects it; the interface (Session in pkg/protocol/connector.go)    *)
(* lets Connect and Disconnect be called at any time, and so do the        *)
(* callers here.  An adapter is used only after a Connect has returned nil.*)
(*                                                                         *)
(* The four differ in what they lock: HTTP its requests too, Modbus and    *)
(* OPC UA only Connect and Disconnect, SNMP only Connect.                  *)
(***************************************************************************)
EXTENDS Integers, FiniteSets

CONSTANTS
    Callers,
    NoCaller,
    MaxLogins      \* bound on the sessions the HTTP server opens

Adapters == {"modbus", "snmp", "opcua", "http"}
NoToken == 0
Tokens == 1 .. MaxLogins

ASSUME SessionsAssumption ==
    /\ NoCaller \notin Callers
    /\ MaxLogins \in Nat

VARIABLES
    adapter,     \* which of the four this is
    urls,        \* HTTP: which of LoginURL, with a Username, and LogoutURL are set
    client,      \* the library's client: "nil", "closed" or "open"
    connected,   \* the field of that name
    token,       \* h.token
    lock,        \* who holds the mutex
    pc,          \* where each caller is
    ret,         \* what its last call returned
    carried,     \* the token its request carries
    ready,       \* a Connect has returned nil
    crossed,     \* SNMP: a Disconnect ran while a Connect did
    issued,      \* sessions the HTTP server has opened
    sessions,    \* those that are still open
    forgotten,   \* those whose token the client never got, or could not log out
    blank        \* the token the server answered the last login with was empty

vars == <<adapter, urls, client, connected, token, lock, pc, ret, carried, ready, crossed, issued,
          sessions, forgotten, blank>>
serverVars == <<issued, sessions, forgotten, blank>>

Connecting == {"connect", "open", "opened"}
Disconnecting == {"disconnect", "close", "closed", "broken"}

TypeOK ==
    /\ adapter \in Adapters
    /\ urls \subseteq {"login", "logout"}
    /\ client \in {"nil", "closed", "open"}
    /\ connected \in BOOLEAN /\ ready \in BOOLEAN /\ crossed \in BOOLEAN
    /\ token \in {NoToken} \cup Tokens
    /\ lock \in Callers \cup {NoCaller}
    /\ pc \in [Callers -> {"idle", "use", "exchange", "panicked"} \cup Connecting \cup Disconnecting]
    /\ ret \in [Callers -> {"nil", "error"}]
    /\ carried \in [Callers -> {NoToken} \cup Tokens]
    /\ issued \in 0 .. MaxLogins
    /\ sessions \subseteq 1 .. issued /\ forgotten \subseteq 1 .. issued
    /\ token <= issued
    /\ blank \in BOOLEAN

\* NewModbusClient, NewSnmpClient, NewOpcuaClient, NewHttpClient.
Init ==
    /\ adapter \in Adapters
    /\ urls \in SUBSET (IF adapter = "http" THEN {"login", "logout"} ELSE {})
    /\ client = "nil" /\ connected = FALSE /\ token = NoToken
    /\ lock = NoCaller
    /\ pc = [c \in Callers |-> "idle"]
    /\ ret = [c \in Callers |-> "error"]
    /\ carried = [c \in Callers |-> NoToken]
    /\ ready = FALSE /\ crossed = FALSE
    /\ issued = 0 /\ sessions = {} /\ forgotten = {} /\ blank = FALSE

-----------------------------------------------------------------------------
WithLogin == "login" \in urls
WithLogout == "logout" \in urls

Alive == \A c \in Callers : pc[c] # "panicked"
Goto(c, place) == pc' = [pc EXCEPT ![c] = place]

\* A call starts.
Call(c) ==
    /\ Alive /\ pc[c] = "idle"
    /\ \E place \in {"connect", "disconnect"} \cup (IF ready THEN {"use"} ELSE {}) :
        /\ Goto(c, place)
        /\ crossed' = (crossed \/ /\ adapter = "snmp"
                                  /\ \E d \in Callers \ {c} :
                                        \/ place = "connect" /\ pc[d] \in Disconnecting
                                        \/ place = "disconnect" /\ pc[d] \in Connecting \cup Disconnecting)
    /\ UNCHANGED <<adapter, urls, client, connected, token, lock, ret, carried, ready, serverVars>>

\* A call ends, and with it the deferred unlock.
Return(c, result) ==
    /\ Goto(c, "idle")
    /\ ret' = [ret EXCEPT ![c] = result]
    /\ lock' = IF lock = c THEN NoCaller ELSE lock
    /\ ready' = (ready \/ (pc[c] \in Connecting /\ result = "nil"))
    /\ UNCHANGED <<adapter, urls, crossed>>

GoOn(c, place) ==
    /\ Goto(c, place)
    /\ UNCHANGED <<adapter, urls, ret, ready, crossed>>

Panic(c) == GoOn(c, "panicked") /\ UNCHANGED <<client, connected, token, lock, carried, serverVars>>

\* The calls that take the mutex.
Locks(c) ==
    CASE adapter = "http" -> pc[c] \in {"connect", "disconnect", "use"}
      [] adapter = "snmp" -> pc[c] = "connect"
      [] OTHER -> pc[c] \in {"connect", "disconnect"}

Take(c) == lock = NoCaller /\ lock' = c

\* Faulty variant: HTTP logs in again.
Established_NotHttp ==
    CASE adapter = "snmp" -> client # "nil" /\ connected
      [] adapter = "opcua" -> client # "nil"
      [] OTHER -> FALSE

\* Connect has nothing to do.
Established ==
    CASE adapter \in {"http", "snmp"} -> client # "nil" /\ connected
      [] adapter = "opcua" -> client # "nil"
      [] OTHER -> FALSE

\* Faulty variant: an established session returns without its unlock.
EnterConnect_KeepsLock(c) ==
    /\ Alive /\ pc[c] = "connect" /\ lock = NoCaller
    /\ \/ /\ Established
          /\ GoOn(c, "idle") /\ lock' = c
          /\ UNCHANGED <<client, connected>>
       \/ /\ ~Established
          /\ lock' = c
          /\ client' = CASE adapter = "http" -> "open"
                         [] adapter \in {"modbus", "snmp"} /\ client = "nil" -> "closed"
                         [] OTHER -> client
          /\ connected' = (connected \/ (adapter = "modbus" /\ client = "nil"))
          /\ GoOn(c, "open")
       \/ \* newClient refuses the configuration.
          /\ adapter = "modbus" /\ client = "nil"
          /\ Return(c, "error")
          /\ connected' = FALSE
          /\ UNCHANGED client
    /\ UNCHANGED <<token, carried, serverVars>>

\* Faulty variant: every adapter calls itself connected by then.
EnterConnect_Connected(c) ==
    /\ Alive /\ pc[c] = "connect" /\ lock = NoCaller
    /\ \/ /\ Established
          /\ Return(c, "nil")
          /\ UNCHANGED <<client, connected>>
       \/ /\ ~Established
          /\ lock' = c
          /\ client' = CASE adapter = "http" -> "open"
                         [] adapter \in {"modbus", "snmp"} /\ client = "nil" -> "closed"
                         [] OTHER -> client
          /\ connected' = (connected \/ (adapter # "snmp" /\ client = "nil"))
          /\ GoOn(c, "open")
       \/ \* newClient refuses the configuration.
          /\ adapter = "modbus" /\ client = "nil"
          /\ Return(c, "error")
          /\ connected' = FALSE
          /\ UNCHANGED client
    /\ UNCHANGED <<token, carried, serverVars>>

\* Connect up to the call of the library.  Modbus and SNMP keep the client they
\* make even if it does not open, and Modbus calls itself connected by then;
\* OPC UA keeps one that is connected.
EnterConnect(c) ==
    /\ Alive /\ pc[c] = "connect" /\ lock = NoCaller
    /\ \/ /\ Established
          /\ Return(c, "nil")
          /\ UNCHANGED <<client, connected>>
       \/ /\ ~Established
          /\ lock' = c
          /\ client' = CASE adapter = "http" -> "open"
                         [] adapter \in {"modbus", "snmp"} /\ client = "nil" -> "closed"
                         [] OTHER -> client
          /\ connected' = (connected \/ (adapter = "modbus" /\ client = "nil"))
          /\ GoOn(c, "open")
       \/ \* newClient refuses the configuration.
          /\ adapter = "modbus" /\ client = "nil"
          /\ Return(c, "error")
          /\ connected' = FALSE
          /\ UNCHANGED client
    /\ UNCHANGED <<token, carried, serverVars>>

\* The device answers the library or does not.  SNMP reads its client again, which
\* a Disconnect may have dropped since.
Open(c) ==
    /\ Alive /\ pc[c] = "open" /\ adapter # "http"
    /\ adapter = "snmp" => client # "nil"
    /\ \/ client' = "open" /\ GoOn(c, "opened") /\ UNCHANGED lock
       \/ Return(c, "error") /\ UNCHANGED client
    /\ UNCHANGED <<connected, token, carried, serverVars>>

OpenPanics(c) == Alive /\ pc[c] = "open" /\ adapter = "snmp" /\ client = "nil" /\ Panic(c)

\* An answer whose token is the empty string is taken.
EmptyToken(c) ==
    /\ token' = NoToken /\ blank' = TRUE
    /\ GoOn(c, "opened") /\ UNCHANGED lock

\* Faulty variant: a refusal is taken for an answer.
Login_AnyStatus(c) ==
    /\ Alive /\ pc[c] = "open" /\ adapter = "http"
    /\ \/ /\ ~WithLogin
          /\ GoOn(c, "opened") /\ UNCHANGED <<lock, token, serverVars>>
       \/ /\ WithLogin /\ issued < MaxLogins
          /\ issued' = issued + 1 /\ sessions' = sessions \cup {issued + 1}
          /\ \/ /\ token' = issued + 1 /\ blank' = FALSE
                /\ GoOn(c, "opened") /\ UNCHANGED <<lock, forgotten>>
             \/ /\ forgotten' = forgotten \cup {issued + 1}
                /\ EmptyToken(c) \/ (Return(c, "error") /\ UNCHANGED <<token, blank>>)
       \/ /\ WithLogin /\ issued < MaxLogins
          /\ GoOn(c, "opened") /\ token' = issued + 1 /\ UNCHANGED <<lock, serverVars>>
    /\ UNCHANGED <<client, connected, carried>>

\* login: the server opens a session and its answer brings the token, or an empty
\* one, or is lost or has none; or it opens no session and refuses, or does not.
Login(c) ==
    /\ Alive /\ pc[c] = "open" /\ adapter = "http"
    /\ \/ /\ ~WithLogin
          /\ GoOn(c, "opened") /\ UNCHANGED <<lock, token, serverVars>>
       \/ /\ WithLogin /\ issued < MaxLogins
          /\ issued' = issued + 1 /\ sessions' = sessions \cup {issued + 1}
          /\ \/ /\ token' = issued + 1 /\ blank' = FALSE
                /\ GoOn(c, "opened") /\ UNCHANGED <<lock, forgotten>>
             \/ /\ forgotten' = forgotten \cup {issued + 1}
                /\ EmptyToken(c) \/ (Return(c, "error") /\ UNCHANGED <<token, blank>>)
       \/ /\ WithLogin
          /\ EmptyToken(c) \/ (Return(c, "error") /\ UNCHANGED <<token, blank>>)
          /\ UNCHANGED <<issued, sessions, forgotten>>
    /\ UNCHANGED <<client, connected, carried>>

FinishConnect(c) ==
    /\ Alive /\ pc[c] = "opened"
    /\ connected' = TRUE
    /\ Return(c, "nil")
    /\ UNCHANGED <<client, token, carried, serverVars>>

-----------------------------------------------------------------------------
\* Disconnect up to the call of the library.
NothingOpen == IF adapter = "http" THEN ~connected ELSE client = "nil"

EnterDisconnect(c) ==
    /\ Alive /\ pc[c] = "disconnect"
    /\ Locks(c) => lock = NoCaller
    /\ IF NothingOpen
       THEN connected' = FALSE /\ Return(c, "nil")
       ELSE GoOn(c, "close") /\ UNCHANGED connected /\ lock' = IF Locks(c) THEN c ELSE lock
    /\ UNCHANGED <<client, token, carried, serverVars>>

\* Close of the library's client, which SNMP reads again.
Close(c) ==
    /\ Alive /\ pc[c] = "close" /\ adapter # "http" /\ client # "nil"
    /\ client' = "closed"
    /\ \E place \in {"closed", "broken"} : GoOn(c, place)
    /\ UNCHANGED <<connected, token, lock, carried, serverVars>>

ClosePanics(c) == Alive /\ pc[c] = "close" /\ adapter # "http" /\ client = "nil" /\ Panic(c)

\* logout, if there is anything to log out: the session has ended unless the
\* request got lost; without a good answer the token is forgotten all the same.
Logout(c) ==
    /\ Alive /\ pc[c] = "close" /\ adapter = "http"
    /\ \/ /\ WithLogout \/ token = NoToken
          /\ sessions' = sessions \ {token}
          /\ GoOn(c, "closed") /\ UNCHANGED forgotten
       \/ /\ token # NoToken
          /\ forgotten' = forgotten \cup {token}
          /\ GoOn(c, IF WithLogout THEN "broken" ELSE "closed") /\ UNCHANGED sessions
    /\ UNCHANGED <<client, connected, token, lock, carried, issued, blank>>

\* Faulty variant: Modbus drops its client, too.
FinishDisconnect_Drops(c) ==
    /\ Alive /\ pc[c] \in {"closed", "broken"}
    /\ connected' = FALSE
    /\ token' = NoToken
    /\ client' = IF adapter \in {"opcua", "modbus"} \/ (adapter = "snmp" /\ pc[c] = "broken") THEN "nil" ELSE client
    /\ Return(c, IF pc[c] = "closed" THEN "nil" ELSE "error")
    /\ UNCHANGED <<carried, serverVars>>

\* OPC UA drops its client, SNMP only one that did not close.
FinishDisconnect(c) ==
    /\ Alive /\ pc[c] \in {"closed", "broken"}
    /\ connected' = FALSE
    /\ token' = NoToken
    /\ client' = IF adapter = "opcua" \/ (adapter = "snmp" /\ pc[c] = "broken") THEN "nil" ELSE client
    /\ Return(c, IF pc[c] = "closed" THEN "nil" ELSE "error")
    /\ UNCHANGED <<carried, serverVars>>

-----------------------------------------------------------------------------
\* Faulty variant: HTTP does not lock its requests.
Use_Unlocked(c) ==
    /\ Alive /\ pc[c] = "use" /\ client # "nil"
    /\ UNCHANGED lock
    /\ carried' = [carried EXCEPT ![c] = token]
    /\ GoOn(c, "exchange")
    /\ UNCHANGED <<client, connected, token, serverVars>>

\* A read or write takes the client, and HTTP the token, as they are now.
Use(c) ==
    /\ Alive /\ pc[c] = "use" /\ client # "nil"
    /\ IF Locks(c) THEN Take(c) ELSE UNCHANGED lock
    /\ carried' = [carried EXCEPT ![c] = token]
    /\ GoOn(c, "exchange")
    /\ UNCHANGED <<client, connected, token, serverVars>>

UsePanics(c) ==
    /\ Alive /\ pc[c] = "use" /\ client = "nil"
    /\ Locks(c) => lock = NoCaller
    /\ Panic(c)

\* The exchange succeeds, or fails, as it must on a closed client; SNMP's
\* ReadSingle then takes itself for disconnected.
Exchange(c) ==
    /\ Alive /\ pc[c] = "exchange"
    /\ \/ client = "open" /\ Return(c, "nil") /\ UNCHANGED connected
       \/ /\ Return(c, "error")
          /\ \/ UNCHANGED connected
             \/ adapter = "snmp" /\ connected' = FALSE
    /\ carried' = [carried EXCEPT ![c] = NoToken]
    /\ UNCHANGED <<client, token, serverVars>>

\* The server ends a session when it likes.
Expire ==
    /\ \E s \in sessions : sessions' = sessions \ {s}
    /\ UNCHANGED <<adapter, urls, client, connected, token, lock, pc, ret, carried, ready, crossed,
                   issued, forgotten, blank>>

LockSteps(c) == EnterConnect(c) \/ EnterDisconnect(c) \/ Use(c) \/ UsePanics(c)
OtherSteps(c) ==
    \/ Open(c) \/ OpenPanics(c) \/ Login(c) \/ FinishConnect(c)
    \/ Close(c) \/ ClosePanics(c) \/ Logout(c) \/ FinishDisconnect(c)
    \/ Exchange(c)

Next == Expire \/ \E c \in Callers : Call(c) \/ LockSteps(c) \/ OtherSteps(c)

Spec == Init /\ [][Next]_vars

\* The callers run, exchanges end by their timeouts, and the mutex is fair.
FairSpec == Spec /\ \A c \in Callers : WF_vars(OtherSteps(c)) /\ SF_vars(LockSteps(c))

-----------------------------------------------------------------------------
\* The token a request of the HTTP client carries stays the client's own until
\* the request is over: no login replaces it and no logout ends its session in
\* between, whatever other callers do.
TokenSettled == \A c \in Callers :
    adapter = "http" /\ pc[c] = "exchange" => carried[c] = token

\* Every open session of the server is the one the client holds the token of,
\* or one whose token it never got or failed to log out, or was not told how to.
SessionsKnown == sessions \subseteq {token} \cup forgotten

\* The session a Connect that returns nil stands for: with a login, the one whose
\* token the server has given, if it has given one that is not empty.
InSession ==
    /\ connected /\ client = "open"
    /\ adapter = "http" /\ WithLogin => token # NoToken \/ blank

\* A Connect that returns nil has an open client, and the session of its login,
\* also when an earlier one failed half way or was disconnected.  SNMP's, if a
\* Disconnect ran at the same time, may not.
NilMeansOpen ==
    [][\A c \in Callers :
          pc[c] \in Connecting /\ pc'[c] = "idle" /\ ret'[c] = "nil" => InSession' \/ crossed]_vars

\* No caller goes through a nil client, except in the adapters whose Disconnect
\* drops it.
NoNilUse == \A c \in Callers : pc[c] = "panicked" => adapter \in {"opcua", "snmp"}

\* Every call returns unless the process has panicked: no call waits for a lock
\* that it or an idle caller holds.
CallsReturn == \A c \in Callers : pc[c] # "idle" ~> (pc[c] = "idle" \/ ~Alive)

-----------------------------------------------------------------------------
(* Strengthenings the proofs rest on.                                        *)

\* Whoever is where the adapter locks holds the mutex.
Guarded(c) ==
    \/ pc[c] \in {"open", "opened"}
    \/ adapter # "snmp" /\ pc[c] \in {"close", "closed", "broken"}
    \/ adapter = "http" /\ pc[c] = "exchange"
MutexInv == \A c \in Callers : Guarded(c) => lock = c

\* Modbus and HTTP never drop a client: until they have one, nothing is ready.
ClientInv == adapter \in {"modbus", "http"} /\ client = "nil" =>
    /\ ~ready
    /\ adapter = "http" => ~connected
    /\ \A c \in Callers : pc[c] \in {"idle", "connect", "disconnect"}

\* HTTP has a token only while it is connected or about to be, and a token it
\* is about to drop is of no session that is known to no one.
TokenInv ==
    /\ adapter # "http" => sessions = {}
    /\ adapter = "http" =>
        /\ client # "closed"
        /\ connected /\ WithLogin => token # NoToken \/ blank
        /\ ~connected => token = NoToken \/ \E c \in Callers : pc[c] = "opened"
        /\ \A c \in Callers :
            /\ pc[c] \in {"open", "opened"} => ~connected
            /\ pc[c] = "opened" /\ WithLogin => token # NoToken \/ blank
            /\ pc[c] \in {"closed", "broken"} => token \notin sessions \/ token \in forgotten

\* A client is open when Connect has got so far; OPC UA has none that is not
\* connected, and SNMP is not connected unless it is open or being closed.
OpenInv ==
    /\ crossed => adapter = "snmp"
    /\ \A c \in Callers : pc[c] = "opened" => client = "open" \/ crossed
    /\ adapter = "opcua" /\ client # "nil" =>
        \/ connected /\ client = "open"
        \/ \E c \in Callers : pc[c] \in {"opened", "closed", "broken"}
    /\ adapter = "opcua" => \A c \in Callers : pc[c] = "open" => client = "nil"
    /\ adapter = "snmp" /\ ~crossed =>
        /\ connected => client = "open" \/ \E c \in Callers : pc[c] \in {"closed", "broken"}
        /\ \A c, d \in Callers :
              c # d /\ pc[c] \in Disconnecting => pc[d] \notin Connecting \cup Disconnecting

SessionInv == MutexInv /\ ClientInv /\ TokenInv /\ OpenInv

=============================================================================

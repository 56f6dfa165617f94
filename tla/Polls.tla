------------------------------- MODULE Polls -------------------------------
(***************************************************************************)
(* pkg/protocol/poller.go: the pool of protocol connections.               *)
(*                                                                         *)
(* The workers are the goroutines in which the SDK runs HandleReadCommands *)
(* and HandleWriteCommands; both call GetHandler.  GetHandler never takes  *)
(* p.mu, so every access to the pool is a step of its own: the look-up,    *)
(* the limit check, the connection attempt, and the map assignment, which  *)
(* lasts from its start to its end.                                        *)
(*                                                                         *)
(* A Go map is not safe for concurrent use.  The runtime notices most      *)
(* accesses that overlap an assignment and ends the process; the ones it   *)
(* misses may read an old state or damage the table.  RaceOutcomes says    *)
(* which of these outcomes the model lets happen: "fatal" (the process     *)
(* ends), "stale" (a look-up misses an entry or sees the one being         *)
(* stored), "lost" (an overlapping assignment loses its entry or its count *)
(* or both).  With RaceOutcomes = {} the map operations are atomic and     *)
(* what remains is the check-then-act of GetHandler itself.                *)
(*                                                                         *)
(* DisconnectAll takes p.mu, which excludes only another DisconnectAll: it *)
(* ranges over the map, disconnects each client and then deletes its       *)
(* entry, in steps that GetHandler's may come between.                     *)
(***************************************************************************)
EXTENDS Integers, FiniteSets

CONSTANTS
    Workers,       \* SDK goroutines
    Endpoints,     \* values of the Endpoint property
    Adapters,      \* protocol names newClient has an adapter for
    ListenOnly,    \* names ValidateProtocol accepts and newClient does not
    Unsupported,   \* names ValidateProtocol rejects
    Conns,         \* identities of connections (bounds how many are dialed)
    NoConn,
    MaxSize,       \* WithMaxCounts
    MaxSweeps,     \* how often DisconnectAll is called (a bound of the model)
    RaceOutcomes

Names == Adapters \cup ListenOnly \cup Unsupported
Configs == [name : Names, endpoint : Endpoints]

ASSUME PollsAssumption ==
    /\ IsFiniteSet(Workers) /\ Workers # {}
    /\ IsFiniteSet(Endpoints)
    /\ Endpoints # {} /\ Names # {}
    /\ NoConn \notin Conns
    /\ MaxSize \in Nat \ {0}
    /\ MaxSweeps \in Nat
    /\ RaceOutcomes \subseteq {"fatal", "stale", "lost"}

VARIABLES
    clients,   \* the entries of p.clients: endpoint -> connection or NoConn
    count,     \* len(p.clients), the count field of the Go map
    conn,      \* what each connection is: its state and the config it was made from
    pc,        \* where each worker is in GetHandler
    arg,       \* the protocol config it was called with
    mine,      \* newAdapter, then the handler it returned
    down,      \* the runtime has ended the process
    sweep,     \* what a DisconnectAll that is running has done to each entry
    sweeps     \* how often it has been called

vars == <<clients, count, conn, pc, arg, mine, down, sweep, sweeps>>
sweepVars == <<sweep, sweeps>>
poolVars == <<clients, count, conn, down, sweep, sweeps>>

\* No DisconnectAll runs ("off"); the entry was there when it began ("due") or
\* was not ("new"); it is being disconnected and deleted, or is gone.
SweepStages == {"off", "due", "new", "closed", "deleting", "done"}
Stages == {"idle", "lookup", "limit", "connect", "add", "assign", "got"}
ConnRec == [state : {"unused", "open", "closed"}, name : Names, endpoint : Endpoints]

Pooled == {e \in Endpoints : clients[e] # NoConn}
OpenTo(e) == {c \in Conns : conn[c].state = "open" /\ conn[c].endpoint = e}

TypeOK ==
    /\ clients \in [Endpoints -> Conns \cup {NoConn}]
    /\ count \in Int
    /\ conn \in [Conns -> ConnRec]
    /\ pc \in [Workers -> Stages]
    /\ arg \in [Workers -> Configs]
    /\ mine \in [Workers -> Conns \cup {NoConn}]
    /\ down \in BOOLEAN
    /\ sweep \in [Endpoints -> SweepStages]
    /\ sweeps \in 0..MaxSweeps

\* A worker outside GetHandler and a connection not dialed yet have no config;
\* any value of the type stands for it and is never read.
NoConfig == CHOOSE c \in Configs : TRUE
Unused == [state |-> "unused", name |-> NoConfig.name, endpoint |-> NoConfig.endpoint]

\* NewPolls.
Init ==
    /\ clients = [e \in Endpoints |-> NoConn]
    /\ count = 0
    /\ conn = [c \in Conns |-> Unused]
    /\ pc = [w \in Workers |-> "idle"]
    /\ arg = [w \in Workers |-> NoConfig]
    /\ mine = [w \in Workers |-> NoConn]
    /\ down = FALSE
    /\ sweep = [e \in Endpoints |-> "off"]
    /\ sweeps = 0

-----------------------------------------------------------------------------
\* Workers in the middle of a map assignment, and whether another worker or
\* DisconnectAll is in the middle of a change of the map.
Assigning == {w \in Workers : pc[w] = "assign"}
Deleting == \E e \in Endpoints : sweep[e] = "deleting"
Overlaps(w) == Assigning \ {w} # {} \/ Deleting

\* The runtime notices the overlap and ends the process.
Killed ==
    /\ "fatal" \in RaceOutcomes
    /\ down' = TRUE
    /\ UNCHANGED <<clients, count, conn, pc, arg, mine, sweepVars>>

Fatal(w) == Overlaps(w) /\ Killed

\* Which of the entry and the count a change of the map gets done.
Effects(overlapped) ==
    IF overlapped /\ "lost" \in RaceOutcomes THEN BOOLEAN \X BOOLEAN ELSE {<<TRUE, TRUE>>}

\* The call is over: with an error, or its caller is done with the handler.
Idle(w) ==
    /\ pc' = [pc EXCEPT ![w] = "idle"]
    /\ arg' = [arg EXCEPT ![w] = NoConfig]
    /\ mine' = [mine EXCEPT ![w] = NoConn]

\* GetHandler(cfg) is entered.  A name ValidateProtocol rejects returns an
\* error at once and touches nothing.
Enter(w, cfg) ==
    /\ ~down /\ pc[w] = "idle"
    /\ cfg.name \in Adapters \cup ListenOnly
    /\ pc' = [pc EXCEPT ![w] = "lookup"]
    /\ arg' = [arg EXCEPT ![w] = cfg]
    /\ UNCHANGED <<poolVars, mine>>

\* What the map may show for e to an access that is overlapped or not.
Shown(e, overlapped) ==
    {clients[e]} \cup
        IF overlapped /\ "stale" \in RaceOutcomes
        THEN {NoConn} \cup {mine[v] : v \in {u \in Assigning : arg[u].endpoint = e}}
        ELSE {}

\* What p.clients[endpoint] may evaluate to.
Seen(w) == Shown(arg[w].endpoint, Overlaps(w))

\* Faulty variant: the pool is searched for a connection of the protocol.
Lookup_ByProtocol(w) ==
    /\ ~down /\ pc[w] = "lookup"
    /\ \E found \in {NoConn} \cup {clients[e] : e \in {x \in Pooled :
                                      conn[clients[x]].name = arg[w].name}} :
        /\ pc' = [pc EXCEPT ![w] = IF found # NoConn THEN "got" ELSE "limit"]
        /\ mine' = [mine EXCEPT ![w] = found]
        /\ UNCHANGED <<poolVars, arg>>

\* The look-up, by endpoint alone: a hit is returned whatever protocol it is of.
Lookup(w) ==
    /\ ~down /\ pc[w] = "lookup"
    /\ \/ \E found \in Seen(w) :
            /\ pc' = [pc EXCEPT ![w] = IF found # NoConn THEN "got" ELSE "limit"]
            /\ mine' = [mine EXCEPT ![w] = found]
            /\ UNCHANGED <<poolVars, arg>>
       \/ Fatal(w)

\* Faulty variant: a limit that is one too high.
CheckLimit_OffByOne(w) ==
    /\ ~down /\ pc[w] = "limit"
    /\ IF count > MaxSize
       THEN Idle(w)
       ELSE pc' = [pc EXCEPT ![w] = "connect"] /\ UNCHANGED <<arg, mine>>
    /\ UNCHANGED poolVars

\* The limit check.
CheckLimit(w) ==
    /\ ~down /\ pc[w] = "limit"
    /\ IF count >= MaxSize
       THEN Idle(w)
       ELSE /\ pc' = [pc EXCEPT ![w] = "connect"]
            /\ UNCHANGED <<arg, mine>>
    /\ UNCHANGED poolVars

\* newClient and Connect.  The adapter is private to the worker until it is
\* added, so a failed one is garbage.  Without an adapter for the protocol,
\* with bad properties or an unreachable device the call returns an error.
Connect(w) ==
    /\ ~down /\ pc[w] = "connect"
    /\ \/ \E c \in Conns :
            /\ arg[w].name \in Adapters
            /\ conn[c].state = "unused"
            /\ conn' = [conn EXCEPT ![c] = [state |-> "open", name |-> arg[w].name,
                                            endpoint |-> arg[w].endpoint]]
            /\ mine' = [mine EXCEPT ![w] = c]
            /\ pc' = [pc EXCEPT ![w] = "add"]
            /\ UNCHANGED <<clients, count, arg, down, sweepVars>>
       \/ Idle(w) /\ UNCHANGED poolVars

\* addClient: the assignment begins ...
StartAssign(w) ==
    /\ ~down /\ pc[w] = "add"
    /\ \/ /\ pc' = [pc EXCEPT ![w] = "assign"]
          /\ UNCHANGED <<poolVars, arg, mine>>
       \/ Fatal(w)

\* Faulty variants: the adapter is stored under "<protocol>:<endpoint>", or
\* returned without being stored.
EndAssign_ByProtocol(w) ==
    /\ ~down /\ pc[w] = "assign"
    /\ LET key == <<arg[w].name, arg[w].endpoint>> IN
       clients' = [e \in DOMAIN clients \cup {key} |->
                      IF e = key THEN mine[w] ELSE clients[e]]
    /\ pc' = [pc EXCEPT ![w] = "got"]
    /\ UNCHANGED <<count, conn, arg, mine, down, sweepVars>>

EndAssign_Forgets(w) ==
    /\ ~down /\ pc[w] = "assign"
    /\ pc' = [pc EXCEPT ![w] = "got"]
    /\ UNCHANGED <<poolVars, arg, mine>>

\* ... and ends; the previous connection of the endpoint, if any, is dropped
\* without being disconnected.  Of two that overlap, the one that ends while
\* the other is still going on may lose its entry or its count.
EndAssign(w) ==
    /\ ~down /\ pc[w] = "assign"
    /\ \/ \E done \in Effects(Overlaps(w)) :
            LET e == arg[w].endpoint IN
            /\ clients' = IF done[1] THEN [clients EXCEPT ![e] = mine[w]] ELSE clients
            /\ count' = IF done[2] /\ clients[e] = NoConn THEN count + 1 ELSE count
            /\ pc' = [pc EXCEPT ![w] = "got"]
            /\ UNCHANGED <<conn, arg, mine, down, sweepVars>>
       \/ Fatal(w)

\* The caller has done its reads or writes through the handler.
Return(w) ==
    /\ ~down /\ pc[w] = "got"
    /\ Idle(w)
    /\ UNCHANGED poolVars

GetHandlerStep(w) ==
    \/ Lookup(w)
    \/ CheckLimit(w)
    \/ Connect(w)
    \/ StartAssign(w)
    \/ EndAssign(w)

Next == \E w \in Workers :
    \/ \E cfg \in Configs : Enter(w, cfg)
    \/ GetHandlerStep(w)
    \/ Return(w)

Spec == Init /\ [][Next]_vars

-----------------------------------------------------------------------------
(* DisconnectAll.  No caller exists in the program, so its steps belong to   *)
(* SpecAPI and not to Spec.                                                  *)

workerVars == <<pc, arg, mine>>
Sweeping == \E e \in Endpoints : sweep[e] # "off"

\* The entry whose client has been disconnected and that is not deleted yet.
Doomed(e) == sweep[e] \in {"closed", "deleting"}

\* It has locked p.mu and begins to range over the map.
StartSweep ==
    /\ ~down /\ ~Sweeping /\ sweeps < MaxSweeps
    /\ sweeps' = sweeps + 1
    /\ sweep' = [e \in Endpoints |-> IF e \in Pooled THEN "due" ELSE "new"]
    /\ UNCHANGED <<clients, count, conn, down, workerVars>>

\* The range produces an entry, one created since it began perhaps too, and its
\* client is disconnected; the error is dropped, with the client left open.
Disconnect(e) ==
    /\ ~down /\ sweep[e] \in {"due", "new"}
    /\ ~\E x \in Endpoints : Doomed(x)
    /\ \/ \E c \in Shown(e, Assigning # {}) \ {NoConn}, failed \in BOOLEAN :
            /\ conn' = IF failed THEN conn ELSE [conn EXCEPT ![c].state = "closed"]
            /\ sweep' = [sweep EXCEPT ![e] = "closed"]
            /\ UNCHANGED <<clients, count, down, sweeps, workerVars>>
       \/ Assigning # {} /\ Killed

\* Its entry is deleted, whatever the entry is by now: from the start ...
StartDelete(e) ==
    /\ ~down /\ sweep[e] = "closed"
    /\ \/ /\ sweep' = [sweep EXCEPT ![e] = "deleting"]
          /\ UNCHANGED <<clients, count, conn, down, sweeps, workerVars>>
       \/ Assigning # {} /\ Killed

\* Faulty variant: the client is disconnected and its entry stays.
EndDelete_Keeps(e) ==
    /\ ~down /\ sweep[e] = "deleting"
    /\ sweep' = [sweep EXCEPT ![e] = "done"]
    /\ UNCHANGED <<clients, count, conn, down, sweeps, workerVars>>

\* ... to the end of the deletion.
EndDelete(e) ==
    /\ ~down /\ sweep[e] = "deleting"
    /\ \/ \E done \in Effects(Assigning # {}) :
            /\ clients' = IF done[1] THEN [clients EXCEPT ![e] = NoConn] ELSE clients
            /\ count' = IF done[2] /\ clients[e] # NoConn THEN count - 1 ELSE count
            /\ sweep' = [sweep EXCEPT ![e] = "done"]
            /\ UNCHANGED <<conn, down, sweeps, workerVars>>
       \/ Assigning # {} /\ Killed

\* The range is over when it has produced the entries of its start that are
\* still there, or those that a racing assignment lets it see.
EndSweep ==
    /\ ~down /\ Sweeping
    /\ ~\E e \in Endpoints : Doomed(e)
    /\ \A e \in Endpoints : sweep[e] = "due" => NoConn \in Shown(e, Assigning # {})
    /\ sweep' = [e \in Endpoints |-> "off"]
    /\ UNCHANGED <<clients, count, conn, down, sweeps, workerVars>>

DisconnectAll ==
    \/ StartSweep
    \/ \E e \in Endpoints : Disconnect(e) \/ StartDelete(e) \/ EndDelete(e)
    \/ EndSweep

SpecAPI == Init /\ [][Next \/ DisconnectAll]_vars

-----------------------------------------------------------------------------
\* How far the unlocked check-then-act can overshoot the limit: every worker
\* but the first may have passed the check on a pool that was one short of
\* full.  Whatever the races do to the entries, len(p.clients) stays below.
CountBound == count <= MaxSize + Cardinality(Workers) - 1

\* As long as no race loses an update, len(p.clients) is the number of pooled
\* connections, so CountBound bounds the sessions the pool keeps.
CountExact == "lost" \notin RaceOutcomes => count = Cardinality(Pooled)

\* Every pooled connection leads to the endpoint it is stored under and is open,
\* also while DisconnectAll and callers that dial go on under each other's
\* feet, but for the one client that DisconnectAll has disconnected and is
\* about to delete; so long as no race loses or fakes an entry (SpecAPI).
OpenOrDoomed == \A e \in Pooled :
    clients[e] \in OpenTo(e) \/ (Doomed(e) /\ conn[clients[e]].state = "closed")
PooledOpen == RaceOutcomes \subseteq {"fatal"} => OpenOrDoomed

\* A caller is given a connection to the endpoint its config names, whichever
\* of hit, miss and race it went through, and an open one unless DisconnectAll
\* has been called: the client that it disconnects is pooled a little longer,
\* and is disconnected under the callers that hold it.
HandlerDials == \A w \in Workers : pc[w] = "got" =>
    /\ conn[mine[w]].endpoint = arg[w].endpoint
    /\ sweeps = 0 => conn[mine[w]].state = "open"

\* The leak of the check-then-act is bounded for good: as long as nobody calls
\* DisconnectAll, at most one connection per worker is ever dialed to one
\* endpoint, because every dial but the first must have begun before the first
\* one was stored.
LeakBound ==
    sweeps = 0 /\ RaceOutcomes \subseteq {"fatal"} =>
        \A e \in Endpoints : Cardinality(OpenTo(e)) <= Cardinality(Workers)

\* The inductive strengthenings that module PollsProofs uses for the bounds.
\* A call past the limit check has yet to add its entry ...
InFlight == {w \in Workers : pc[w] \in {"connect", "add", "assign"}}
OvershootInv == count + Cardinality(InFlight) <= MaxSize + Cardinality(Workers) - 1

\* ... what a call past Connect holds is open, its own, and not pooled yet ...
Holders == {w \in Workers : pc[w] \in {"add", "assign"}}
HeldInv == \A w \in Holders :
    /\ mine[w] \in OpenTo(arg[w].endpoint)
    /\ \A e \in Endpoints : clients[e] # mine[w]
    /\ \A v \in Holders \ {w} : mine[v] # mine[w]

\* ... a call past the look-up may still dial, and an endpoint without an entry
\* has no connections but those held by calls that are about to add theirs.
Dialing(e) == {w \in Workers : pc[w] \in {"limit", "connect"} /\ arg[w].endpoint = e}
Holding(e) == {w \in Holders : arg[w].endpoint = e}
LeakInv == \A e \in Endpoints :
    /\ IsFiniteSet(OpenTo(e))
    /\ clients[e] = NoConn => \A c \in OpenTo(e) : \E w \in Holding(e) : mine[w] = c
    /\ Cardinality(OpenTo(e)) + Cardinality(Dialing(e)) <= Cardinality(Workers)

=============================================================================

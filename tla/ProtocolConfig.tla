--------------------------- MODULE ProtocolConfig ---------------------------
(***************************************************************************)
(* pkg/model/protocol_config.go: the process-wide cache of protocol        *)
(* configurations, a sync.Map keyed by (device name, protocol name).       *)
(*                                                                         *)
(* The callers are the goroutines in which the SDK runs HandleRead/Write-  *)
(* Commands.  sync.Map makes each of Load, LoadOrStore, Store and Delete   *)
(* atomic; a goroutine may be preempted between two of them, so a          *)
(* resolution is a Load step and, after a miss, a LoadOrStore step.        *)
(* The driver only ever resolves: UpdateProtocolConfig and                 *)
(* RemoveProtocolConfig are exported and have no caller in the program.    *)
(***************************************************************************)
CONSTANTS
    Callers,   \* SDK goroutines
    Keys,      \* cacheKey: (device name, protocol name)
    Props,     \* property maps a device's metadata may hold
    NoProps    \* not one of Props

VARIABLES
    cache,     \* globalProtocolCache: NoProps where the map has no entry
    call       \* the resolution each caller is in

vars == <<cache, call>>

\* A caller outside ResolveProtocolConfig.
NoCall == [pc |-> "idle", key |-> NoProps, props |-> NoProps, ret |-> NoProps]

\* A call that is looking up (pc "load"), inserting ("store"), or back in its
\* caller with the configuration ret ("done").
Call ==
    [pc : {"load", "store"}, key : Keys, props : Props, ret : {NoProps}]
        \cup [pc : {"done"}, key : Keys, props : Props, ret : Props]

\* Every entry is a property map, every call one of the four stages.
TypeOK ==
    /\ cache \in [Keys -> Props \cup {NoProps}]
    /\ call \in [Callers -> Call \cup {NoCall}]

Init ==
    /\ cache = [k \in Keys |-> NoProps]
    /\ call = [c \in Callers |-> NoCall]

-----------------------------------------------------------------------------
\* ResolveProtocolConfig(deviceName, protocolName, props) is entered.
Resolve(c, k, p) ==
    /\ call[c] = NoCall
    /\ call' = [call EXCEPT ![c] = [pc |-> "load", key |-> k, props |-> p, ret |-> NoProps]]
    /\ UNCHANGED cache

\* Fast path: a hit returns the entry, a miss goes on to the slow path.
Load(c) ==
    /\ call[c].pc = "load"
    /\ LET found == cache[call[c].key] IN
       call' = IF found # NoProps
               THEN [call EXCEPT ![c].pc = "done", ![c].ret = found]
               ELSE [call EXCEPT ![c].pc = "store"]
    /\ UNCHANGED cache

\* Faulty variants: Store instead of LoadOrStore, and newConfig returned
\* instead of actual.
LoadOrStore_Store(c) ==
    /\ call[c].pc = "store"
    /\ cache' = [cache EXCEPT ![call[c].key] = call[c].props]
    /\ call' = [call EXCEPT ![c].pc = "done", ![c].ret = call[c].props]

LoadOrStore_OwnCopy(c) ==
    /\ call[c].pc = "store"
    /\ LET k == call[c].key IN
       /\ cache' = IF cache[k] = NoProps
                   THEN [cache EXCEPT ![k] = call[c].props] ELSE cache
       /\ call' = [call EXCEPT ![c].pc = "done", ![c].ret = call[c].props]

\* Slow path: insert the new configuration unless another caller was first,
\* and return what the map holds.
LoadOrStore(c) ==
    /\ call[c].pc = "store"
    /\ LET k == call[c].key IN
       /\ cache' = IF cache[k] = NoProps
                   THEN [cache EXCEPT ![k] = call[c].props] ELSE cache
       /\ call' = [call EXCEPT ![c].pc = "done", ![c].ret = cache'[k]]

\* The caller has used the configuration it was given.
Return(c) ==
    /\ call[c].pc = "done"
    /\ call' = [call EXCEPT ![c] = NoCall]
    /\ UNCHANGED cache

Next == \E c \in Callers :
    \/ \E k \in Keys, p \in Props : Resolve(c, k, p)
    \/ Load(c)
    \/ LoadOrStore(c)
    \/ Return(c)

Spec == Init /\ [][Next]_vars

-----------------------------------------------------------------------------
\* Agreement: while the driver only resolves, a configuration a caller holds
\* is the one the cache holds for its key, hence two callers that resolve one
\* key never work with different endpoints, whatever metadata each was handed
\* and however their Load and LoadOrStore interleave.
Agreement == \A c \in Callers :
    call[c].pc = "done" => call[c].ret = cache[call[c].key]

\* The cache implements one write-once cell per key.
Cell == INSTANCE WriteOnce WITH
    chosen <- cache,
    told <- [c \in Callers |->
               IF call[c].pc = "done"
               THEN [key |-> call[c].key, value |-> call[c].ret]
               ELSE [key |-> NoProps, value |-> NoProps]]

\* Every behaviour of the driver's resolutions is one of write-once cells: the
\* first configuration of a key is never replaced nor removed, since the device
\* callbacks call neither UpdateProtocolConfig nor RemoveProtocolConfig.
ImplementsWriteOnce == Cell!Spec

=============================================================================

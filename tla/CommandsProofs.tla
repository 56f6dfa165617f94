--------------------------- MODULE CommandsProofs ---------------------------
(***************************************************************************)
(* Theorems about the commands of the driver, for any devices, metadata,   *)
(* workers and limit: the cache gives each device and protocol one         *)
(* configuration; the commands use the cache and the pool (PollsProofs) as *)
(* those modules specify, so that those for one device and protocol meet   *)
(* at one endpoint; and they account for what failed.                      *)
(***************************************************************************)
EXTENDS Commands, TLAPS

PoolProofs == INSTANCE PollsProofs
                  WITH sweep <- [e \in Endpoints |-> "off"], sweeps <- 0, MaxSweeps <- 0

-----------------------------------------------------------------------------
(* The proofs about the pool speak of an instance of their own; it says the  *)
(* same as the one the commands are made of.                                 *)

LEMMA PoolAssumption == PoolProofs!PollsAssumption
BY CommandsAssumption
   DEF PoolProofs!PollsAssumption, Names, PoolProofs!Names, IsFiniteSet, PoolProofs!IsFiniteSet

LEMMA SamePoolInit == Pool!Init => PoolProofs!Init
BY DEF Pool!Init, PoolProofs!Init, Pool!Unused, PoolProofs!Unused, Pool!NoConfig,
       PoolProofs!NoConfig, Pool!Configs, PoolProofs!Configs, Pool!Names, PoolProofs!Names

LEMMA SamePoolIdle == \A w : Pool!Idle(w) <=> PoolProofs!Idle(w)
BY DEF Pool!Idle, PoolProofs!Idle, Pool!NoConfig, PoolProofs!NoConfig, Pool!Configs,
       PoolProofs!Configs, Pool!Names, PoolProofs!Names

LEMMA SamePoolFatal == \A w : Pool!Fatal(w) <=> PoolProofs!Fatal(w)
BY DEF Pool!Fatal, PoolProofs!Fatal, Pool!Killed, PoolProofs!Killed, Pool!Overlaps,
       PoolProofs!Overlaps, Pool!Assigning, PoolProofs!Assigning, Pool!Deleting,
       PoolProofs!Deleting, Pool!sweepVars, PoolProofs!sweepVars

LEMMA SamePoolStep == [Pool!Next]_(Pool!vars) => [PoolProofs!Next]_(PoolProofs!vars)
<1> USE SamePoolIdle, SamePoolFatal
    DEF Pool!poolVars, PoolProofs!poolVars, Pool!sweepVars, PoolProofs!sweepVars
<1>1. ASSUME NEW w \in Workers, NEW cfg \in Pool!Configs, Pool!Enter(w, cfg)
      PROVE PoolProofs!Enter(w, cfg) /\ cfg \in PoolProofs!Configs
  BY <1>1 DEF Pool!Enter, PoolProofs!Enter, Pool!Configs, PoolProofs!Configs, Pool!Names,
              PoolProofs!Names
<1>2. ASSUME NEW w \in Workers, Pool!Lookup(w) PROVE PoolProofs!Lookup(w)
  BY <1>2 DEF Pool!Lookup, PoolProofs!Lookup, Pool!Seen, PoolProofs!Seen, Pool!Shown,
              PoolProofs!Shown, Pool!Overlaps, PoolProofs!Overlaps, Pool!Assigning,
              PoolProofs!Assigning, Pool!Deleting, PoolProofs!Deleting
<1>3. ASSUME NEW w \in Workers, Pool!CheckLimit(w) PROVE PoolProofs!CheckLimit(w)
  BY <1>3 DEF Pool!CheckLimit, PoolProofs!CheckLimit
<1>4. ASSUME NEW w \in Workers, Pool!Connect(w) PROVE PoolProofs!Connect(w)
  BY <1>4 DEF Pool!Connect, PoolProofs!Connect
<1>5. ASSUME NEW w \in Workers, Pool!StartAssign(w) PROVE PoolProofs!StartAssign(w)
  BY <1>5 DEF Pool!StartAssign, PoolProofs!StartAssign
<1>6. ASSUME NEW w \in Workers, Pool!EndAssign(w) PROVE PoolProofs!EndAssign(w)
  BY <1>6 DEF Pool!EndAssign, PoolProofs!EndAssign, Pool!Effects, PoolProofs!Effects,
              Pool!Overlaps, PoolProofs!Overlaps, Pool!Assigning, PoolProofs!Assigning,
              Pool!Deleting, PoolProofs!Deleting
<1>7. ASSUME NEW w \in Workers, Pool!Return(w) PROVE PoolProofs!Return(w)
  BY <1>7 DEF Pool!Return, PoolProofs!Return
<1>8. ASSUME UNCHANGED Pool!vars PROVE UNCHANGED PoolProofs!vars
  BY <1>8 DEF Pool!vars, PoolProofs!vars
<1> QED
  BY <1>1, <1>2, <1>3, <1>4, <1>5, <1>6, <1>7, <1>8
     DEF Pool!Next, PoolProofs!Next, Pool!GetHandlerStep, PoolProofs!GetHandlerStep

LEMMA SamePoolType == Pool!TypeOK <=> PoolProofs!TypeOK
BY DEF Pool!TypeOK, PoolProofs!TypeOK, Pool!Stages, PoolProofs!Stages, Pool!ConnRec,
       PoolProofs!ConnRec, Pool!Configs, PoolProofs!Configs, Pool!Names, PoolProofs!Names,
       Pool!SweepStages, PoolProofs!SweepStages

-----------------------------------------------------------------------------
(* The cache, for any devices, protocol names and properties: its callers    *)
(* agree, and it implements module WriteOnce.                                *)

LEMMA CacheAssumption == NoProps \notin Props
BY CommandsAssumption

LEMMA CacheTypeInit == Config!Init => Config!TypeOK
BY DEF Config!Init, Config!TypeOK

LEMMA CacheTypeStep == Config!TypeOK /\ [Config!Next]_(Config!vars) => Config!TypeOK'
<1> SUFFICES ASSUME Config!TypeOK, [Config!Next]_(Config!vars) PROVE Config!TypeOK'
  OBVIOUS
<1> USE DEF Config!TypeOK
<1>1. ASSUME NEW c \in Workers, NEW k \in Keys, NEW p \in Props, Config!Resolve(c, k, p)
      PROVE Config!TypeOK'
  BY <1>1 DEF Config!Resolve, Config!Call
<1>2. ASSUME NEW c \in Workers, Config!Load(c) PROVE Config!TypeOK'
  <2>1. call[c] \in [pc : {"load", "store"}, key : Keys, props : Props, ret : {NoProps}]
    BY <1>2 DEF Config!Load, Config!Call, Config!NoCall
  <2>2. call'[c] \in Config!Call
    BY <1>2, <2>1 DEF Config!Load, Config!Call
  <2> QED
    BY <1>2, <2>2 DEF Config!Load
<1>3. ASSUME NEW c \in Workers, Config!LoadOrStore(c) PROVE Config!TypeOK'
  <2>1. call[c] \in [pc : {"load", "store"}, key : Keys, props : Props, ret : {NoProps}]
    BY <1>3 DEF Config!LoadOrStore, Config!Call, Config!NoCall
  <2>2. /\ cache' \in [Keys -> Props \cup {NoProps}]
        /\ cache'[call[c].key] \in Props
    BY <1>3, <2>1, CacheAssumption DEF Config!LoadOrStore
  <2>3. call'[c] \in Config!Call
    BY <1>3, <2>1, <2>2 DEF Config!LoadOrStore, Config!Call
  <2> QED
    BY <1>3, <2>2, <2>3 DEF Config!LoadOrStore
<1>4. ASSUME NEW c \in Workers, Config!Return(c) PROVE Config!TypeOK'
  BY <1>4 DEF Config!Return
<1>5. CASE UNCHANGED Config!vars
  BY <1>5 DEF Config!vars
<1> QED
  BY <1>1, <1>2, <1>3, <1>4, <1>5 DEF Config!Next

LEMMA AgreementStep ==
    Config!TypeOK /\ Config!Agreement /\ [Config!Next]_(Config!vars) => Config!Agreement'
<1> SUFFICES ASSUME Config!TypeOK, Config!Agreement, [Config!Next]_(Config!vars) PROVE Config!Agreement'
  OBVIOUS
<1> USE DEF Config!TypeOK, Config!Agreement
<1>1. ASSUME NEW c \in Workers, NEW k \in Keys, NEW p \in Props, Config!Resolve(c, k, p)
      PROVE Config!Agreement'
  BY <1>1 DEF Config!Resolve
<1>2. ASSUME NEW c \in Workers, Config!Load(c) PROVE Config!Agreement'
  <2>1. call[c] \in [pc : {"load", "store"}, key : Keys, props : Props, ret : {NoProps}]
    BY <1>2 DEF Config!Load, Config!Call, Config!NoCall
  <2> QED
    BY <1>2, <2>1 DEF Config!Load
<1>3. ASSUME NEW c \in Workers, Config!LoadOrStore(c) PROVE Config!Agreement'
  \* An entry another caller was answered with is not absent, so it stays.
  <2>1. \A d \in Workers : call[d].pc = "done" =>
            call[d].key \in Keys /\ cache[call[d].key] # NoProps
    BY CacheAssumption DEF Config!Call, Config!NoCall
  <2>2. call[c] \in [pc : {"load", "store"}, key : Keys, props : Props, ret : {NoProps}]
    BY <1>3 DEF Config!LoadOrStore, Config!Call, Config!NoCall
  <2>3. \A d \in Workers : call[d].pc = "done" => cache'[call[d].key] = cache[call[d].key]
    BY <1>3, <2>1, <2>2 DEF Config!LoadOrStore
  <2> QED
    BY <1>3, <2>2, <2>3 DEF Config!LoadOrStore
<1>4. ASSUME NEW c \in Workers, Config!Return(c) PROVE Config!Agreement'
  BY <1>4 DEF Config!Return, Config!NoCall
<1>5. CASE UNCHANGED Config!vars
  BY <1>5 DEF Config!vars
<1> QED
  BY <1>1, <1>2, <1>3, <1>4, <1>5 DEF Config!Next

\* Type correctness of the cache and of the calls that use it.
THEOREM CacheTypeCorrect == Config!Spec => []Config!TypeOK
<1> QED
  BY CacheTypeInit, CacheTypeStep, PTL DEF Config!Spec

\* Callers that hold a configuration of one device and protocol hold the same.
THEOREM CallersAgree == Config!Spec => []Config!Agreement
<1>1. Config!Init => Config!Agreement
  BY DEF Config!Init, Config!Agreement, Config!NoCall
<1> QED
  BY <1>1, CacheTypeInit, CacheTypeStep, AgreementStep, PTL DEF Config!Spec

-----------------------------------------------------------------------------
(* Refinement: the step that answers a call is the Answer of the cell, the   *)
(* one that returns is its Forget, and the others change neither the chosen  *)
(* values nor what a caller has been told.                                   *)

LEMMA CellInit == Config!Init => Config!Cell!Init
BY DEF Config!Init, Config!Cell!Init, Config!Cell!NoAnswer, Config!NoCall

LEMMA CellStep ==
    Config!TypeOK /\ [Config!Next]_(Config!vars) => [Config!Cell!Next]_(Config!Cell!vars)
<1> DEFINE told(d) == IF call[d].pc = "done"
                      THEN [key |-> call[d].key, value |-> call[d].ret]
                      ELSE [key |-> NoProps, value |-> NoProps]
           tld == [d \in Workers |-> told(d)]
<1> SUFFICES ASSUME Config!TypeOK, [Config!Next]_(Config!vars)
             PROVE  [Config!Cell!Next]_(Config!Cell!vars)
  OBVIOUS
<1> USE DEF Config!TypeOK
<1>1. ASSUME NEW c \in Workers, NEW k \in Keys, NEW p \in Props, Config!Resolve(c, k, p)
      PROVE UNCHANGED <<cache, tld>>
  BY <1>1 DEF Config!Resolve, Config!NoCall
<1>2. ASSUME NEW c \in Workers, Config!Load(c)
      PROVE \/ UNCHANGED <<cache, tld>>
            \/ Config!Cell!Answer(c, call[c].key, call[c].props)
  <2>1. call[c] \in [pc : {"load", "store"}, key : Keys, props : Props, ret : {NoProps}]
    BY <1>2 DEF Config!Load, Config!Call, Config!NoCall
  <2>2. CASE cache[call[c].key] = NoProps
    BY <1>2, <2>1, <2>2 DEF Config!Load
  <2>3. CASE cache[call[c].key] # NoProps
    BY <1>2, <2>1, <2>3 DEF Config!Load, Config!Cell!Answer, Config!Cell!NoAnswer
  <2> QED
    BY <2>2, <2>3
<1>3. ASSUME NEW c \in Workers, Config!LoadOrStore(c)
      PROVE Config!Cell!Answer(c, call[c].key, call[c].props)
  <2>1. call[c] \in [pc : {"load", "store"}, key : Keys, props : Props, ret : {NoProps}]
    BY <1>3 DEF Config!LoadOrStore, Config!Call, Config!NoCall
  <2> QED
    BY <1>3, <2>1 DEF Config!LoadOrStore, Config!Cell!Answer, Config!Cell!NoAnswer
<1>4. ASSUME NEW c \in Workers, Config!Return(c) PROVE Config!Cell!Forget(c)
  BY <1>4 DEF Config!Return, Config!NoCall, Config!Cell!Forget, Config!Cell!NoAnswer
<1>5. ASSUME NEW c \in Workers, Config!Load(c) \/ Config!LoadOrStore(c)
      PROVE call[c].key \in Keys /\ call[c].props \in Props
  BY <1>5 DEF Config!Load, Config!LoadOrStore, Config!Call, Config!NoCall
<1>6. ASSUME UNCHANGED <<cache, tld>> PROVE [Config!Cell!Next]_(Config!Cell!vars)
  BY <1>6 DEF Config!Cell!vars
<1>7. ASSUME NEW c \in Workers, Config!Load(c) PROVE [Config!Cell!Next]_(Config!Cell!vars)
  <2>1. CASE UNCHANGED <<cache, tld>>
    BY <2>1, <1>6
  <2>2. CASE Config!Cell!Answer(c, call[c].key, call[c].props)
    <3>1. \E k \in Keys, p \in Props : Config!Cell!Answer(c, k, p)
      BY <2>2, <1>5, <1>7 DEF Config!Cell!Answer
    <3> QED
      BY <3>1 DEF Config!Cell!Next
  <2> QED
    BY <1>2, <1>7, <2>1, <2>2
<1>8. ASSUME NEW c \in Workers, Config!LoadOrStore(c) PROVE [Config!Cell!Next]_(Config!Cell!vars)
  <2>1. Config!Cell!Answer(c, call[c].key, call[c].props)
    BY <1>3, <1>8
  <2>2. \E k \in Keys, p \in Props : Config!Cell!Answer(c, k, p)
    BY <2>1, <1>5, <1>8 DEF Config!Cell!Answer
  <2> QED
    BY <2>2 DEF Config!Cell!Next
<1>9. ASSUME NEW c \in Workers, Config!Return(c) PROVE [Config!Cell!Next]_(Config!Cell!vars)
  BY <1>4, <1>9 DEF Config!Cell!Next
<1>10. CASE UNCHANGED Config!vars
  BY <1>10 DEF Config!vars, Config!Cell!vars
<1> QED
  BY <1>1, <1>6, <1>7, <1>8, <1>9, <1>10 DEF Config!Next

\* The cache is a write-once cell per device and protocol: what the first
\* command resolved is what every later one gets.
THEOREM CacheIsWriteOnce == Config!Spec => Config!ImplementsWriteOnce
<1> QED
  BY CacheTypeInit, CacheTypeStep, CellInit, CellStep, PTL
     DEF Config!Spec, Config!ImplementsWriteOnce, Config!Cell!Spec

-----------------------------------------------------------------------------
(* The commands.                                                             *)

CmdType ==
    /\ meta \in [Devices -> Metadata \cup {NoDevice}]
    /\ cmd \in [Workers -> Cmd \cup {NoCmd}]

CmdInv == CmdType /\ LinkInv /\ FailureInv /\ Accounted

LEMMA MetadataType ==
  ASSUME NEW m \in Metadata
  PROVE  DOMAIN m \subseteq Names /\ \A p \in DOMAIN m : m[p] \in Props
BY CommandsAssumption

\* A worker with a command has one of its type.
LEMMA CmdIsCmd ==
  ASSUME CmdType, NEW w \in Workers, cmd[w].stage # "none"
  PROVE  cmd[w] \in Cmd
BY DEF CmdType, NoCmd

\* What a resolution that is over has resolved.
LEMMA DoneCall ==
  ASSUME Config!TypeOK, NEW w \in Workers, call[w].pc = "done"
  PROVE  /\ call[w].key \in Keys /\ Protocol(w) \in Names
         /\ call[w].ret \in Props /\ call[w].ret.endpoint \in Endpoints
<1>1. call[w] \in [pc : {"done"}, key : Keys, props : Props, ret : Props]
  BY DEF Config!TypeOK, Config!Call, Config!NoCall
<1> QED
  BY <1>1 DEF Protocol, Keys, Props

\* What one step of GetHandler does to the calls.
LEMMA PoolStepLocal ==
  ASSUME Pool!TypeOK, NEW w \in Workers, Pool!GetHandlerStep(w)
  PROVE  /\ pc[w] # "idle"
         /\ pc'[w] = "idle" \/ arg'[w] = arg[w]
         /\ \A v \in Workers \ {w} : pc'[v] = pc[v] /\ arg'[v] = arg[v]
<1> USE DEF Pool!TypeOK
<1>1. CASE Pool!Lookup(w)
  BY <1>1 DEF Pool!Lookup, Pool!Fatal, Pool!Killed
<1>2. CASE Pool!CheckLimit(w)
  BY <1>2 DEF Pool!CheckLimit, Pool!Idle
<1>3. CASE Pool!Connect(w)
  BY <1>3 DEF Pool!Connect, Pool!Idle
<1>4. CASE Pool!StartAssign(w)
  BY <1>4 DEF Pool!StartAssign, Pool!Fatal, Pool!Killed
<1>5. CASE Pool!EndAssign(w)
  BY <1>5 DEF Pool!EndAssign, Pool!Fatal, Pool!Killed
<1> QED
  BY <1>1, <1>2, <1>3, <1>4, <1>5 DEF Pool!GetHandlerStep

\* A step that only moves one worker on, to a place where its new command fits.
LEMMA CmdLocal ==
  ASSUME CmdInv, meta' = meta,
         NEW w \in Workers, NEW k \in Cmd, cmd' = [cmd EXCEPT ![w] = k],
         \A v \in Workers \ {w} : call'[v] = call[v] /\ pc'[v] = pc[v] /\ arg'[v] = arg[v],
         k.stage \notin {"resolve", "handler"} => call'[w] = Config!NoCall,
         k.stage # "handler" => pc'[w] = "idle",
         k.stage = "handler" => /\ call'[w].pc = "done"
                                /\ pc'[w] # "idle" => arg'[w].endpoint = call'[w].ret.endpoint,
         k.todo \subseteq DOMAIN k.given,
         k.stage # "failed" /\ k.kind = "write" => k.badly = {},
         k.stage = "done" => k.todo = {},
         k.stage = "failed" => \E p \in Names : k.badly = {p}
  PROVE  CmdInv'
<1> USE DEF CmdInv, CmdType
<1>1. cmd'[w] = k /\ \A v \in Workers \ {w} : cmd'[v] = cmd[v]
  OBVIOUS
<1>2. CmdType'
  OBVIOUS
<1>3. LinkInv'
  BY <1>1 DEF LinkInv
<1>4. FailureInv'
  BY <1>1 DEF FailureInv
<1>5. Accounted'
  BY <1>1 DEF Accounted
<1> QED
  BY <1>2, <1>3, <1>4, <1>5

\* Steps that leave the commands and the calls alone.
LEMMA CmdQuiet ==
  ASSUME CmdInv, meta' \in [Devices -> Metadata \cup {NoDevice}], UNCHANGED <<cmd, call, pc, arg>>
  PROVE  CmdInv'
BY DEF CmdInv, CmdType, LinkInv, FailureInv, Accounted

LEMMA CmdInit == Init => CmdInv
<1> SUFFICES ASSUME Init PROVE CmdInv
  OBVIOUS
<1>1. /\ meta \in [Devices -> Metadata \cup {NoDevice}]
      /\ \A w \in Workers : cmd[w] = NoCmd /\ call[w] = Config!NoCall /\ pc[w] = "idle"
      /\ cmd = [w \in Workers |-> NoCmd]
  BY DEF Init, Config!Init, Pool!Init
<1> QED
  BY <1>1 DEF CmdInv, CmdType, LinkInv, FailureInv, Accounted, NoCmd

Typed == Config!TypeOK /\ Pool!TypeOK

\* A step of the commands, seen by the commands, by the cache and by the pool.
Uses == [Config!Next]_(Config!vars) /\ [Pool!Next]_(Pool!vars)

LEMMA CmdStep == CmdInv /\ Typed /\ [Next]_vars => CmdInv' /\ Uses
<1> SUFFICES ASSUME CmdInv, Typed, [Next]_vars PROVE CmdInv' /\ Uses
  OBVIOUS
<1> USE DEF Typed, Uses, CmdInv
<1>q. ASSUME UNCHANGED <<configVars, poolVars>> PROVE Uses
  BY <1>q DEF Config!vars, Pool!vars, configVars, poolVars
<1>t. pc \in [Workers -> Pool!Stages] /\ arg \in [Workers -> Pool!Configs]
      /\ call \in [Workers -> Config!Call \cup {Config!NoCall}]
  BY DEF Pool!TypeOK, Config!TypeOK
<1>1. ASSUME NEW d \in Devices, NEW m \in Metadata, AddDevice(d, m) PROVE CmdInv' /\ Uses
  BY <1>1, <1>q, CmdQuiet DEF AddDevice, configVars, poolVars, CmdType
<1>2. ASSUME NEW d \in Devices, NEW m \in Metadata, UpdateDevice(d, m) PROVE CmdInv' /\ Uses
  BY <1>2, <1>q, CmdQuiet DEF UpdateDevice, configVars, poolVars, CmdType
<1>3. ASSUME NEW d \in Devices, RemoveDevice(d) PROVE CmdInv' /\ Uses
  BY <1>3, <1>q, CmdQuiet DEF RemoveDevice, configVars, poolVars, CmdType
<1>4. ASSUME NEW w \in Workers, NEW d \in Devices, NEW kind \in {"read", "write"},
             Begin(w, d, kind)
      PROVE  CmdInv' /\ Uses
  <2> DEFINE k == [stage |-> "next", kind |-> kind, dev |-> d, given |-> meta[d],
                   todo |-> DOMAIN meta[d], badly |-> {}]
  <2>1. meta[d] \in Metadata /\ cmd[w].stage = "none"
    BY <1>4 DEF Begin, CmdType, NoCmd
  <2>2. k \in Cmd
    BY <2>1, MetadataType DEF Cmd
  <2>3. call[w] = Config!NoCall /\ pc[w] = "idle"
    BY <2>1 DEF LinkInv
  <2>4. /\ meta' = meta /\ cmd' = [cmd EXCEPT ![w] = k]
        /\ UNCHANGED <<call, pc, arg>>
    BY <1>4 DEF Begin, configVars, poolVars
  <2>5. CmdInv'
    BY <2>2, <2>3, <2>4, CmdLocal
  <2> QED
    BY <1>4, <1>q, <2>5 DEF Begin
<1>5. ASSUME NEW w \in Workers, NextProtocol(w) PROVE CmdInv' /\ Uses
  <2>1. cmd[w].stage = "next" /\ cmd[w] \in Cmd /\ pc[w] = "idle"
        /\ cmd[w].todo \subseteq DOMAIN cmd[w].given
    BY <1>5, CmdIsCmd DEF NextProtocol, LinkInv
  <2>2. PICK p \in cmd[w].todo :
           /\ Config!Resolve(w, <<cmd[w].dev, p>>, cmd[w].given[p])
           /\ cmd' = [cmd EXCEPT ![w].stage = "resolve", ![w].todo = @ \ {p}]
    BY <1>5 DEF NextProtocol
  <2> DEFINE k == [cmd[w] EXCEPT !.stage = "resolve", !.todo = @ \ {p}]
  <2>3. k \in Cmd /\ k.stage = "resolve" /\ k.todo \subseteq DOMAIN k.given
        /\ k.kind = cmd[w].kind /\ k.badly = cmd[w].badly
    BY <2>1 DEF Cmd
  <2>4. cmd' = [cmd EXCEPT ![w] = k]
    BY <2>2 DEF CmdType
  <2>5. /\ meta' = meta /\ UNCHANGED <<pc, arg>>
        /\ \A v \in Workers \ {w} : call'[v] = call[v]
    BY <1>5, <1>t, <2>2 DEF NextProtocol, poolVars, Config!Resolve
  <2>6. k.kind = "write" => k.badly = {}
    BY <2>1, <2>3 DEF FailureInv
  <2>7. CmdInv'
    BY <2>1, <2>3, <2>4, <2>5, <2>6, CmdLocal
  <2>8. /\ cmd[w].given \in Metadata /\ cmd[w].dev \in Devices
        /\ <<cmd[w].dev, p>> \in Keys /\ cmd[w].given[p] \in Props
    BY <2>1, MetadataType DEF Cmd, Keys
  <2>9. Config!Next
    BY <2>2, <2>8 DEF Config!Next
  <2> QED
    BY <1>5, <2>7, <2>9 DEF NextProtocol, poolVars, Pool!vars
<1>6. ASSUME NEW w \in Workers, ResolveStep(w) PROVE CmdInv' /\ Uses
  <2>1. call[w].pc \in {"load", "store"} /\ \A v \in Workers \ {w} : call'[v] = call[v]
    BY <1>6, <1>t DEF ResolveStep, Config!Load, Config!LoadOrStore
  <2>2. cmd[w].stage = "resolve"
    BY <2>1 DEF LinkInv, Config!NoCall
  <2>3. UNCHANGED <<meta, cmd, pc, arg>>
    BY <1>6 DEF ResolveStep, poolVars
  <2>4. LinkInv'
    BY <2>1, <2>2, <2>3 DEF LinkInv
  <2>5. CmdType' /\ FailureInv' /\ Accounted'
    BY <2>3 DEF CmdType, FailureInv, Accounted
  <2>6. Config!Next
    BY <1>6 DEF ResolveStep, Config!Next
  <2> QED
    BY <1>6, <2>4, <2>5, <2>6 DEF ResolveStep, poolVars, Pool!vars
<1>c. ASSUME NEW w \in Workers, Continue(w), pc[w] = "idle",
             cmd[w].stage \in {"resolve", "handler"}
      PROVE  CmdInv' /\ Uses
  <2> DEFINE k == [cmd[w] EXCEPT !.stage = "next"]
  <2>1. cmd[w] \in Cmd /\ cmd[w].todo \subseteq DOMAIN cmd[w].given
    BY <1>c, CmdIsCmd DEF LinkInv
  <2>2. k \in Cmd /\ k.stage = "next" /\ k.todo \subseteq DOMAIN k.given
        /\ k.kind = cmd[w].kind /\ k.badly = cmd[w].badly
    BY <2>1 DEF Cmd
  <2>3. k.kind = "write" => k.badly = {}
    BY <1>c, <2>2 DEF FailureInv
  <2>4. /\ cmd' = [cmd EXCEPT ![w] = k] /\ meta' = meta /\ UNCHANGED <<pc, arg>>
        /\ call'[w] = Config!NoCall /\ \A v \in Workers \ {w} : call'[v] = call[v]
    BY <1>c, <1>t DEF Continue, CmdType, poolVars, Config!Return
  <2>5. CmdInv'
    BY <1>c, <2>2, <2>3, <2>4, CmdLocal
  <2>6. Config!Next
    BY <1>c DEF Continue, Config!Next
  <2> QED
    BY <1>c, <2>5, <2>6 DEF Continue, poolVars, Pool!vars
<1>7. ASSUME NEW w \in Workers, Skip(w) PROVE CmdInv' /\ Uses
  BY <1>7, <1>c DEF Skip, Resolved, LinkInv
<1>8. ASSUME NEW w \in Workers, GetHandler(w) PROVE CmdInv' /\ Uses
  <2> DEFINE k == [cmd[w] EXCEPT !.stage = "handler"]
             cfg == [name |-> Protocol(w), endpoint |-> call[w].ret.endpoint]
  <2>1. /\ cmd[w].stage = "resolve" /\ cmd[w] \in Cmd /\ call[w].pc = "done"
        /\ cmd[w].todo \subseteq DOMAIN cmd[w].given
    BY <1>8, CmdIsCmd DEF GetHandler, Resolved, LinkInv
  <2>2. k \in Cmd /\ k.stage = "handler" /\ k.todo \subseteq DOMAIN k.given
        /\ k.kind = cmd[w].kind /\ k.badly = cmd[w].badly
    BY <2>1 DEF Cmd
  <2>3. k.kind = "write" => k.badly = {}
    BY <2>1, <2>2 DEF FailureInv
  <2>4. cfg \in Pool!Configs
    BY <2>1, DoneCall DEF Pool!Configs, Names, Pool!Names
  <2>5. Pool!Enter(w, cfg) /\ UNCHANGED <<meta, configVars>>
    BY <1>8 DEF GetHandler
  <2>6. /\ cmd' = [cmd EXCEPT ![w] = k] /\ UNCHANGED <<meta, call>>
        /\ arg'[w].endpoint = call[w].ret.endpoint
        /\ \A v \in Workers \ {w} : pc'[v] = pc[v] /\ arg'[v] = arg[v]
    BY <1>8, <1>t, <2>5 DEF GetHandler, CmdType, configVars, Pool!Enter
  <2>7. CmdInv'
    BY <2>1, <2>2, <2>3, <2>6, CmdLocal
  <2>8. Pool!Next
    BY <2>4, <2>5 DEF Pool!Next
  <2> QED
    BY <2>5, <2>7, <2>8 DEF configVars, Config!vars
<1>9. ASSUME NEW w \in Workers, PoolStep(w) PROVE CmdInv' /\ Uses
  <2>1. Pool!GetHandlerStep(w) /\ UNCHANGED <<meta, cmd, configVars>>
    BY <1>9 DEF PoolStep
  <2>2. /\ pc[w] # "idle" /\ (pc'[w] = "idle" \/ arg'[w] = arg[w])
        /\ \A v \in Workers \ {w} : pc'[v] = pc[v] /\ arg'[v] = arg[v]
    BY <2>1, PoolStepLocal
  <2>3. cmd[w].stage = "handler"
    BY <2>2 DEF LinkInv
  <2>4. LinkInv'
    BY <2>1, <2>2, <2>3 DEF LinkInv, configVars
  <2>5. CmdType' /\ FailureInv' /\ Accounted'
    BY <2>1 DEF CmdType, FailureInv, Accounted
  <2>6. Pool!Next
    BY <2>1 DEF Pool!Next
  <2> QED
    BY <2>1, <2>4, <2>5, <2>6 DEF configVars, Config!vars
<1>10. ASSUME NEW w \in Workers, NoHandler(w) PROVE CmdInv' /\ Uses
  BY <1>10, <1>c DEF NoHandler
<1>e. ASSUME NEW w \in Workers, NEW stage \in {"next", "failed"}, NEW good \in BOOLEAN,
             cmd[w].stage = "handler", Exchanged(w, stage, good),
             stage = "failed" => cmd[w].kind = "write",
             cmd[w].kind = "write" => (stage = "failed" <=> ~good),
             Pool!Return(w), Config!Return(w), UNCHANGED meta
      PROVE  CmdInv' /\ Uses
  <2> DEFINE k == [cmd[w] EXCEPT !.stage = stage,
                                 !.badly = IF good THEN @ ELSE @ \cup {Protocol(w)}]
  <2>1. /\ cmd[w] \in Cmd /\ cmd[w].todo \subseteq DOMAIN cmd[w].given
        /\ call[w].pc = "done" /\ Protocol(w) \in Names
    BY <1>e, CmdIsCmd, DoneCall DEF LinkInv
  <2>2. /\ k \in Cmd /\ k.stage = stage /\ k.todo \subseteq DOMAIN k.given
        /\ k.kind = cmd[w].kind
        /\ k.badly = IF good THEN cmd[w].badly ELSE cmd[w].badly \cup {Protocol(w)}
    BY <2>1 DEF Cmd, Returned
  <2>3. cmd[w].kind = "write" => cmd[w].badly = {}
    BY <1>e DEF FailureInv
  <2>4. /\ k.stage # "failed" /\ k.kind = "write" => k.badly = {}
        /\ k.stage = "failed" => k.kind = "write" /\ \E p \in Names : k.badly = {p}
    BY <1>e, <2>1, <2>2, <2>3
  <2>5. cmd' = [cmd EXCEPT ![w] = k]
    BY <1>e DEF Exchanged, CmdType
  <2>6. /\ call'[w] = Config!NoCall /\ pc'[w] = "idle"
        /\ \A v \in Workers \ {w} : call'[v] = call[v] /\ pc'[v] = pc[v] /\ arg'[v] = arg[v]
    BY <1>e, <1>t DEF Config!Return, Pool!Return, Pool!Idle
  <2>7. CmdInv'
    BY <1>e, <2>2, <2>4, <2>5, <2>6, CmdLocal
  <2>8. Config!Next /\ Pool!Next
    BY <1>e DEF Config!Next, Pool!Next
  <2> QED
    BY <2>7, <2>8
<1>11. ASSUME NEW w \in Workers, Read(w) PROVE CmdInv' /\ Uses
  BY <1>11, <1>e DEF Read
<1>12. ASSUME NEW w \in Workers, Write(w) PROVE CmdInv' /\ Uses
  <2>1. PICK good \in BOOLEAN : Exchanged(w, IF good THEN "next" ELSE "failed", good)
    BY <1>12 DEF Write
  <2>2. CASE good
    BY <1>12, <1>e, <2>1, <2>2 DEF Write
  <2>3. CASE ~good
    BY <1>12, <1>e, <2>1, <2>3 DEF Write
  <2> QED
    BY <2>2, <2>3
<1>13. ASSUME NEW w \in Workers, Finish(w) PROVE CmdInv' /\ Uses
  <2> DEFINE k == [cmd[w] EXCEPT !.stage = "done"]
  <2>1. /\ cmd[w].stage = "next" /\ cmd[w].todo = {} /\ cmd[w] \in Cmd
        /\ call[w] = Config!NoCall /\ pc[w] = "idle"
    BY <1>13, CmdIsCmd DEF Finish, LinkInv
  <2>2. k \in Cmd /\ k.stage = "done" /\ k.todo = {}
        /\ k.kind = cmd[w].kind /\ k.badly = cmd[w].badly
    BY <2>1 DEF Cmd, Returned
  <2>3. k.kind = "write" => k.badly = {}
    BY <2>1, <2>2 DEF FailureInv
  <2>4. cmd' = [cmd EXCEPT ![w] = k] /\ UNCHANGED <<meta, call, pc, arg>>
    BY <1>13 DEF Finish, CmdType, configVars, poolVars
  <2>5. CmdInv'
    BY <2>1, <2>2, <2>3, <2>4, CmdLocal
  <2> QED
    BY <1>13, <1>q, <2>5 DEF Finish
<1>14. ASSUME NEW w \in Workers, End(w) PROVE CmdInv' /\ Uses
  <2>1. /\ cmd' = [cmd EXCEPT ![w] = NoCmd] /\ UNCHANGED <<meta, call, pc, arg>>
        /\ call[w] = Config!NoCall /\ pc[w] = "idle"
    BY <1>14 DEF End, LinkInv, Returned, configVars, poolVars
  <2>2. cmd'[w].stage = "none" /\ \A v \in Workers \ {w} : cmd'[v] = cmd[v]
    BY <2>1 DEF CmdType, NoCmd
  <2>3. CmdType'
    BY <2>1 DEF CmdType
  <2>4. LinkInv' /\ FailureInv' /\ Accounted'
    BY <2>1, <2>2 DEF LinkInv, FailureInv, Accounted
  <2> QED
    BY <1>14, <1>q, <2>3, <2>4 DEF End
<1>15. CASE UNCHANGED vars
  BY <1>15, <1>q, CmdQuiet DEF vars, configVars, poolVars, CmdType
<1> QED
  BY <1>1, <1>2, <1>3, <1>4, <1>5, <1>6, <1>7, <1>8, <1>9, <1>10, <1>11, <1>12, <1>13, <1>14,
     <1>15 DEF Next, CommandStep

-----------------------------------------------------------------------------
(* The theorems.                                                             *)

Inductive == CmdInv /\ Typed

LEMMA InductiveInit == Init => Inductive /\ Config!Init /\ Pool!Init
<1>1. Init => Config!Init /\ Pool!Init
  BY DEF Init
<1>2. Config!Init => Config!TypeOK
  BY CacheTypeInit
<1>3. Pool!Init => Pool!TypeOK
  BY SamePoolInit, PoolProofs!InitTypeOK, SamePoolType, PoolAssumption
<1> QED
  BY <1>1, <1>2, <1>3, CmdInit DEF Inductive, Typed

LEMMA InductiveStep == Inductive /\ [Next]_vars => Inductive' /\ Uses
<1> SUFFICES ASSUME Inductive, [Next]_vars PROVE Inductive' /\ Uses
  OBVIOUS
<1>1. CmdInv' /\ Uses
  BY CmdStep DEF Inductive
<1>2. (Pool!TypeOK <=> PoolProofs!TypeOK) /\ (Pool!TypeOK' <=> PoolProofs!TypeOK')
  BY SamePoolType, PTL
<1>3. Config!TypeOK'
  BY <1>1, CacheTypeStep DEF Inductive, Typed, Uses
<1>4. Pool!TypeOK'
  BY <1>1, <1>2, SamePoolStep, PoolProofs!NextTypeOK, PoolAssumption
     DEF Inductive, Typed, Uses
<1> QED
  BY <1>1, <1>3, <1>4 DEF Inductive, Typed

LEMMA InductiveInvariant == Spec => []Inductive
<1>1. Init => Inductive
  BY InductiveInit
<1>2. Inductive /\ [Next]_vars => Inductive'
  BY InductiveStep
<1> QED
  BY <1>1, <1>2, PTL DEF Spec

\* The commands, the cache and the pool keep their types.
THEOREM TypeCorrect == Spec => []TypeOK
<1>1. Inductive => TypeOK
  BY DEF Inductive, CmdInv, CmdType, Typed, TypeOK
<1> QED
  BY <1>1, InductiveInvariant, PTL

\* Every behaviour of the commands is one of the pool that Polls specifies.
THEOREM PoolUsed == Spec => UsesPool
<1>1. Init => Pool!Init
  BY InductiveInit
<1>2. Inductive /\ [Next]_vars => [Pool!Next]_(Pool!vars)
  BY InductiveStep DEF Uses
<1> QED
  BY <1>1, <1>2, InductiveInvariant, PTL DEF Spec, UsesPool, Pool!Spec

\* And one of the cache that ProtocolConfig specifies.
THEOREM CacheUsed == Spec => UsesConfig
<1>1. Init => Config!Init
  BY InductiveInit
<1>2. Inductive /\ [Next]_vars => [Config!Next]_(Config!vars)
  BY InductiveStep DEF Uses
<1> QED
  BY <1>1, <1>2, InductiveInvariant, PTL DEF Spec, UsesConfig, Config!Spec

\* Both at once: the driver composes them.
THEOREM PartsUsed == Spec => UsesParts
  BY PoolUsed, CacheUsed DEF UsesParts

\* The cache of the driver is a write-once cell per device and protocol, while
\* devices are added, updated and removed: nothing replaces an entry.
THEOREM DriverResolvesOnce == Spec => ImplementsWriteOnce
  BY CacheUsed, CacheIsWriteOnce DEF UsesConfig, ImplementsWriteOnce

\* Two commands that hold a configuration of one device and protocol hold the
\* same, although the metadata they were called with may differ.
THEOREM CommandsAgree == Spec => []Agreement
  BY CacheUsed, CallersAgree, PTL DEF UsesConfig, Agreement

\* What the proofs about the pool and the cache say of the commands, for OneTarget.
LEMMA FromPool == UsesPool => []PoolProofs!HandlerDials
<1>1. PoolProofs!Spec => []PoolProofs!HandlerDials
  BY PoolProofs!HandlersDial, PoolAssumption
<1> QED
  BY <1>1, SamePoolInit, SamePoolStep, PTL DEF UsesPool, Pool!Spec, PoolProofs!Spec

LEMMA FromCache == UsesConfig => []Config!Agreement
  BY CallersAgree DEF UsesConfig

\* The endpoint of a connection in use is the one the cache holds.
LEMMA TargetFromCache ==
  ASSUME Inductive, PoolProofs!HandlerDials, Config!Agreement,
         NEW w \in Workers, Using(w)
  PROVE  conn[mine[w]].endpoint = cache[call[w].key].endpoint
<1>1. cmd[w].stage = "handler" /\ pc[w] = "got"
  BY DEF Using
<1>2. call[w].pc = "done" /\ arg[w].endpoint = call[w].ret.endpoint
  BY <1>1 DEF Inductive, CmdInv, LinkInv
<1>3. conn[mine[w]].endpoint = arg[w].endpoint
  BY <1>1 DEF PoolProofs!HandlerDials, PoolProofs!OpenTo
<1>4. call[w].ret = cache[call[w].key]
  BY <1>2 DEF Config!Agreement
<1> QED
  BY <1>2, <1>3, <1>4

\* Commands for one device and protocol go to one endpoint: the handler a
\* command has leads where its configuration says, whatever the races do, and
\* the configurations of one key agree.
THEOREM OneTargetHolds == Spec => []OneTarget
<1>1. Inductive /\ PoolProofs!HandlerDials /\ Config!Agreement => OneTarget
  BY TargetFromCache DEF OneTarget
<1> QED
  BY <1>1, InductiveInvariant, PoolUsed, CacheUsed, FromPool, FromCache, PTL

\* A write that returns no error has had none, with any number of protocols.
THEOREM FailuresAccounted == Spec => []Accounted
<1>1. Inductive => Accounted
  BY DEF Inductive, CmdInv
<1> QED
  BY <1>1, InductiveInvariant, PTL

=============================================================================

---------------------------- MODULE PollsProofs ----------------------------
(***************************************************************************)
(* Theorems about the connection pool for any number of workers, endpoints *)
(* and connections, any limit, and whatever outcomes the races may have.   *)
(***************************************************************************)
EXTENDS Polls, FiniteSetTheorems, TLAPS

-----------------------------------------------------------------------------
(* Type correctness.                                                         *)

LEMMA NoConfigType == NoConfig \in Configs
<1>1. Configs # {}
  <2>1. PICK n \in Names, e \in Endpoints : TRUE
    BY PollsAssumption
  <2>2. [name |-> n, endpoint |-> e] \in Configs
    BY DEF Configs
  <2> QED
    BY <2>2
<1> QED
  BY <1>1 DEF NoConfig

LEMMA InitTypeOK == Init => TypeOK
<1> SUFFICES ASSUME Init PROVE TypeOK
  OBVIOUS
<1>1. NoConfig.name \in Names /\ NoConfig.endpoint \in Endpoints
  BY NoConfigType DEF Configs
<1>2. Unused \in ConnRec
  BY <1>1 DEF Unused, ConnRec
<1>3. 0 \in 0..MaxSweeps
  BY PollsAssumption
<1>4. clients \in [Endpoints -> Conns \cup {NoConn}] /\ count \in Int
  BY DEF Init
<1>5. down \in BOOLEAN
  BY DEF Init
<1>6. sweep \in [Endpoints -> SweepStages]
  BY DEF Init, SweepStages
<1>7. sweeps \in 0..MaxSweeps
  BY <1>3 DEF Init
<1>8. /\ conn \in [Conns -> ConnRec] /\ pc \in [Workers -> Stages]
      /\ arg \in [Workers -> Configs] /\ mine \in [Workers -> Conns \cup {NoConn}]
  BY NoConfigType, <1>2 DEF Init, Stages
<1> QED
  BY <1>4, <1>5, <1>6, <1>7, <1>8 DEF TypeOK

\* A change of the map that no race spoils does all it should.
LEMMA SureEffects ==
  ASSUME "lost" \notin RaceOutcomes, NEW overlapped, NEW done \in Effects(overlapped)
  PROVE  done[1] /\ done[2]
<1>1. done = <<TRUE, TRUE>>
  BY DEF Effects
<1> QED
  BY <1>1

\* A step of the pool keeps the types, DisconnectAll included.
LEMMA NextTypeOK == TypeOK /\ [Next \/ DisconnectAll]_vars => TypeOK'
<1> SUFFICES ASSUME TypeOK, [Next \/ DisconnectAll]_vars PROVE TypeOK'
  OBVIOUS
<1> USE DEF TypeOK, Stages, SweepStages, sweepVars
<1>1. ASSUME NEW w \in Workers, NEW cfg \in Configs, Enter(w, cfg) PROVE TypeOK'
  BY <1>1 DEF Enter, poolVars
<1>2. ASSUME NEW w \in Workers, Lookup(w) PROVE TypeOK'
  <2>1. CASE Fatal(w)
    BY <2>1 DEF Fatal, Killed
  <2>2. ASSUME NEW found \in Seen(w),
               pc' = [pc EXCEPT ![w] = IF found # NoConn THEN "got" ELSE "limit"],
               mine' = [mine EXCEPT ![w] = found],
               UNCHANGED <<poolVars, arg>>
        PROVE TypeOK'
    <3>1. found \in Conns \cup {NoConn}
      BY <2>2 DEF Seen, Shown, Assigning, Configs
    <3> QED
      BY <2>2, <3>1 DEF poolVars
  <2> QED
    BY <1>2, <2>1, <2>2 DEF Lookup
<1>3. ASSUME NEW w \in Workers, CheckLimit(w) PROVE TypeOK'
  BY <1>3, NoConfigType DEF CheckLimit, Idle, poolVars
<1>4. ASSUME NEW w \in Workers, Connect(w) PROVE TypeOK'
  <2>1. CASE Idle(w) /\ UNCHANGED poolVars
    BY <2>1, NoConfigType DEF Idle, poolVars
  <2>2. ASSUME NEW c \in Conns,
               conn' = [conn EXCEPT ![c] = [state |-> "open", name |-> arg[w].name,
                                            endpoint |-> arg[w].endpoint]],
               mine' = [mine EXCEPT ![w] = c],
               pc' = [pc EXCEPT ![w] = "add"],
               UNCHANGED <<clients, count, arg, down, sweepVars>>
        PROVE TypeOK'
    <3>1. arg[w].name \in Names /\ arg[w].endpoint \in Endpoints
      BY DEF Configs
    <3>2. [state |-> "open", name |-> arg[w].name, endpoint |-> arg[w].endpoint] \in ConnRec
      BY <3>1 DEF ConnRec
    <3> QED
      BY <2>2, <3>2
  <2> QED
    BY <1>4, <2>1, <2>2 DEF Connect
<1>5. ASSUME NEW w \in Workers, StartAssign(w) PROVE TypeOK'
  BY <1>5 DEF StartAssign, Fatal, Killed, poolVars
<1>6. ASSUME NEW w \in Workers, EndAssign(w) PROVE TypeOK'
  <2>1. CASE Fatal(w)
    BY <2>1 DEF Fatal, Killed
  <2>2. ASSUME NEW done,
               clients' = IF done[1] THEN [clients EXCEPT ![arg[w].endpoint] = mine[w]]
                                     ELSE clients,
               count' = IF done[2] /\ clients[arg[w].endpoint] = NoConn
                        THEN count + 1 ELSE count,
               pc' = [pc EXCEPT ![w] = "got"],
               UNCHANGED <<conn, arg, mine, down, sweepVars>>
        PROVE TypeOK'
    <3>1. clients' \in [Endpoints -> Conns \cup {NoConn}]
      BY <2>2
    <3>2. count' \in Int
      BY <2>2
    <3> QED
      BY <2>2, <3>1, <3>2
  <2> QED
    BY <1>6, <2>1, <2>2 DEF EndAssign
<1>7. ASSUME NEW w \in Workers, Return(w) PROVE TypeOK'
  BY <1>7, NoConfigType DEF Return, Idle, poolVars
<1>8. ASSUME DisconnectAll PROVE TypeOK'
  <2> USE DEF workerVars
  <2>1. CASE StartSweep
    <3>1. sweeps' \in 0..MaxSweeps
      BY <2>1, PollsAssumption DEF StartSweep
    <3> QED
      BY <2>1, <3>1 DEF StartSweep
  <2>2. CASE Killed
    BY <2>2 DEF Killed
  <2>3. ASSUME NEW e \in Endpoints, Disconnect(e), ~Killed PROVE TypeOK'
    <3>1. PICK c \in Shown(e, Assigning # {}) \ {NoConn} :
              conn' \in {conn, [conn EXCEPT ![c].state = "closed"]}
      BY <2>3 DEF Disconnect
    <3>2. conn' \in [Conns -> ConnRec]
      BY <3>1 DEF ConnRec
    <3>3. /\ sweep' = [sweep EXCEPT ![e] = "closed"]
          /\ UNCHANGED <<clients, count, down, sweeps, pc, arg, mine>>
      BY <2>3 DEF Disconnect
    <3> QED
      BY <3>2, <3>3
  <2>4. ASSUME NEW e \in Endpoints, StartDelete(e), ~Killed PROVE TypeOK'
    BY <2>4 DEF StartDelete
  <2>5. ASSUME NEW e \in Endpoints, EndDelete(e), ~Killed PROVE TypeOK'
    <3>1. /\ clients' \in {clients, [clients EXCEPT ![e] = NoConn]}
          /\ count' \in {count, count - 1}
          /\ sweep' = [sweep EXCEPT ![e] = "done"]
          /\ UNCHANGED <<conn, down, sweeps, pc, arg, mine>>
      BY <2>5 DEF EndDelete
    <3> QED
      BY <3>1
  <2>6. CASE EndSweep
    BY <2>6 DEF EndSweep
  <2> QED
    BY <1>8, <2>1, <2>2, <2>3, <2>4, <2>5, <2>6 DEF DisconnectAll
<1>9. CASE UNCHANGED vars
  BY <1>9 DEF vars
<1> QED
  BY <1>1, <1>2, <1>3, <1>4, <1>5, <1>6, <1>7, <1>8, <1>9 DEF Next, GetHandlerStep

\* Type correctness of the pool, with DisconnectAll and every race outcome.
THEOREM TypeCorrect == SpecAPI => []TypeOK
<1>1. Init => TypeOK
  BY InitTypeOK
<1>2. TypeOK /\ [Next \/ DisconnectAll]_vars => TypeOK'
  BY NextTypeOK
<1> QED
  BY <1>1, <1>2, PTL DEF SpecAPI

-----------------------------------------------------------------------------
(* The overshoot of the limit.  The pool may hold more than MaxSize entries  *)
(* because a call that passed the check adds its entry later; the sum of     *)
(* entries and such calls grows only in CheckLimit, when the pool is short   *)
(* of MaxSize and the caller is not yet among them.                          *)

LEMMA WorkersCard == /\ IsFiniteSet(Workers)
                     /\ Cardinality(Workers) \in Nat /\ Cardinality(Workers) >= 1
<1>1. IsFiniteSet(Workers) /\ Workers # {}
  BY PollsAssumption
<1>2. Cardinality(Workers) \in Nat
  BY <1>1, FS_CardinalityType
<1>3. Cardinality(Workers) # 0
  BY <1>1, FS_EmptySet
<1> QED
  BY <1>1, <1>2, <1>3

\* Sets of workers are finite and no larger than Workers.
LEMMA SubCard ==
  ASSUME NEW S, S \subseteq Workers
  PROVE  /\ IsFiniteSet(S)
         /\ Cardinality(S) \in Nat
         /\ Cardinality(S) <= Cardinality(Workers)
<1>1. S \in SUBSET Workers
  OBVIOUS
<1>2. IsFiniteSet(S) /\ Cardinality(S) <= Cardinality(Workers)
  BY <1>1, WorkersCard, FS_Subset
<1> QED
  BY <1>2, FS_CardinalityType

LEMMA OvershootInit == Init => OvershootInv
<1> SUFFICES ASSUME Init PROVE OvershootInv
  OBVIOUS
<1>1. InFlight = {}
  BY DEF Init, InFlight
<1>2. Cardinality(InFlight) = 0
  BY <1>1, FS_EmptySet
<1>3. MaxSize \in Nat \ {0}
  BY PollsAssumption
<1> QED
  BY <1>2, <1>3, WorkersCard DEF Init, OvershootInv

LEMMA OvershootStep ==
    TypeOK /\ OvershootInv /\ [Next \/ DisconnectAll]_vars => OvershootInv'
<1> SUFFICES ASSUME TypeOK, OvershootInv, [Next \/ DisconnectAll]_vars
             PROVE OvershootInv'
  OBVIOUS
<1>c. /\ count \in Int /\ MaxSize \in Nat \ {0}
      /\ Cardinality(Workers) \in Nat /\ Cardinality(Workers) >= 1
  BY PollsAssumption, WorkersCard DEF TypeOK
<1>f. /\ IsFiniteSet(InFlight) /\ Cardinality(InFlight) \in Nat
      /\ Cardinality(InFlight) <= Cardinality(Workers)
  BY SubCard DEF InFlight
<1>g. /\ IsFiniteSet(InFlight') /\ Cardinality(InFlight') \in Nat
      /\ Cardinality(InFlight') <= Cardinality(Workers)
  BY SubCard DEF InFlight
\* Most steps neither lengthen the pool nor let a call past the check.
<1>s. ASSUME count' \in Int, count' <= count, InFlight' \subseteq InFlight PROVE OvershootInv'
  <2>1. Cardinality(InFlight') <= Cardinality(InFlight)
    BY <1>s, <1>f, FS_Subset
  <2> QED
    BY <1>s, <2>1, <1>c, <1>f, <1>g DEF OvershootInv
<1>1. ASSUME NEW w \in Workers, NEW cfg \in Configs, Enter(w, cfg) PROVE OvershootInv'
  BY <1>1, <1>s, <1>c DEF Enter, poolVars, InFlight, TypeOK
<1>2. ASSUME NEW w \in Workers, Lookup(w) PROVE OvershootInv'
  BY <1>2, <1>s, <1>c DEF Lookup, Fatal, Killed, poolVars, InFlight, TypeOK
<1>3. ASSUME NEW w \in Workers, CheckLimit(w) PROVE OvershootInv'
  <2>1. CASE count >= MaxSize
    BY <1>3, <2>1, <1>s, <1>c DEF CheckLimit, Idle, poolVars, InFlight, TypeOK
  <2>2. CASE ~(count >= MaxSize)
    <3>1. count' = count
      BY <1>3 DEF CheckLimit, poolVars
    <3> QED
      BY <3>1, <2>2, <1>c, <1>g DEF OvershootInv
  <2> QED
    BY <2>1, <2>2
<1>4. ASSUME NEW w \in Workers, Connect(w) PROVE OvershootInv'
  BY <1>4, <1>s, <1>c DEF Connect, Idle, poolVars, InFlight, TypeOK
<1>5. ASSUME NEW w \in Workers, StartAssign(w) PROVE OvershootInv'
  BY <1>5, <1>s, <1>c DEF StartAssign, Fatal, Killed, poolVars, InFlight, TypeOK
<1>6. ASSUME NEW w \in Workers, EndAssign(w) PROVE OvershootInv'
  <2>1. CASE Fatal(w)
    BY <2>1, <1>s, <1>c DEF Fatal, Killed, InFlight, TypeOK
  <2>2. CASE ~Fatal(w)
    <3>1. count' \in {count, count + 1}
      BY <1>6, <2>2 DEF EndAssign
    <3>2. w \in InFlight /\ InFlight' = InFlight \ {w}
      BY <1>6, <2>2 DEF EndAssign, InFlight, TypeOK
    <3>3. Cardinality(InFlight') = Cardinality(InFlight) - 1
      BY <3>2, <1>f, FS_RemoveElement
    <3> QED
      BY <3>1, <3>3, <1>c, <1>f DEF OvershootInv
  <2> QED
    BY <2>1, <2>2
<1>7. ASSUME NEW w \in Workers, Return(w) PROVE OvershootInv'
  BY <1>7, <1>s, <1>c DEF Return, Idle, poolVars, InFlight, TypeOK
<1>8. ASSUME DisconnectAll PROVE OvershootInv'
  <2>1. count' \in {count, count - 1} /\ UNCHANGED pc
    BY <1>8 DEF DisconnectAll, StartSweep, Disconnect, StartDelete, EndDelete, EndSweep,
                Killed, workerVars
  <2> QED
    BY <2>1, <1>s, <1>c DEF InFlight
<1>9. CASE UNCHANGED vars
  BY <1>9, <1>s, <1>c DEF vars, InFlight
<1> QED
  BY <1>1, <1>2, <1>3, <1>4, <1>5, <1>6, <1>7, <1>8, <1>9 DEF Next, GetHandlerStep

\* len(p.clients) never exceeds the configured maximum by more than the number
\* of concurrent commands less one, whatever the races and DisconnectAll do.
THEOREM OvershootBounded == SpecAPI => []CountBound
<1>1. Init => TypeOK /\ OvershootInv
  BY InitTypeOK, OvershootInit
<1>2. (TypeOK /\ OvershootInv) /\ [Next \/ DisconnectAll]_vars
         => (TypeOK /\ OvershootInv)'
  BY NextTypeOK, OvershootStep
<1>3. TypeOK /\ OvershootInv => CountBound
  <2> SUFFICES ASSUME TypeOK, OvershootInv PROVE CountBound
    OBVIOUS
  <2>1. Cardinality(InFlight) \in Nat
    BY SubCard DEF InFlight
  <2> QED
    BY <2>1, PollsAssumption, WorkersCard DEF TypeOK, OvershootInv, CountBound
<1> QED
  BY <1>1, <1>2, <1>3, PTL DEF SpecAPI

-----------------------------------------------------------------------------
(* What is held and what is pooled is open.                                  *)

\* Steps that change neither the pool nor the connections, and in which no
\* call comes to hold one, keep both facts.
LEMMA HeldQuiet ==
  ASSUME HeldInv, OpenOrDoomed, UNCHANGED <<clients, conn, sweep>>,
         Holders' \subseteq Holders,
         \A w \in Holders' : mine'[w] = mine[w] /\ arg'[w] = arg[w]
  PROVE  HeldInv' /\ OpenOrDoomed'
BY DEF HeldInv, OpenOrDoomed, Doomed, Pooled, OpenTo

LEMMA HeldInit == Init => HeldInv /\ OpenOrDoomed
BY DEF Init, HeldInv, OpenOrDoomed, Pooled, Holders

LEMMA HeldStep ==
    TypeOK /\ HeldInv /\ OpenOrDoomed /\ [Next]_vars => HeldInv' /\ OpenOrDoomed'
<1> SUFFICES ASSUME TypeOK, HeldInv, OpenOrDoomed, [Next]_vars
             PROVE HeldInv' /\ OpenOrDoomed'
  OBVIOUS
<1> USE DEF sweepVars
<1>1. ASSUME NEW w \in Workers, NEW cfg \in Configs, Enter(w, cfg)
      PROVE HeldInv' /\ OpenOrDoomed'
  BY <1>1, HeldQuiet DEF Enter, poolVars, Holders, TypeOK
<1>2. ASSUME NEW w \in Workers, Lookup(w) PROVE HeldInv' /\ OpenOrDoomed'
  BY <1>2, HeldQuiet DEF Lookup, Fatal, Killed, poolVars, Holders, TypeOK
<1>3. ASSUME NEW w \in Workers, CheckLimit(w) PROVE HeldInv' /\ OpenOrDoomed'
  BY <1>3, HeldQuiet DEF CheckLimit, Idle, poolVars, Holders, TypeOK
<1>4. ASSUME NEW w \in Workers, Connect(w) PROVE HeldInv' /\ OpenOrDoomed'
  <2>1. CASE Idle(w) /\ UNCHANGED poolVars
    BY <1>4, <2>1, HeldQuiet DEF Connect, Idle, poolVars, Holders, TypeOK
  <2>2. ASSUME NEW c \in Conns, conn[c].state = "unused",
               conn' = [conn EXCEPT ![c] = [state |-> "open", name |-> arg[w].name,
                                            endpoint |-> arg[w].endpoint]],
               mine' = [mine EXCEPT ![w] = c],
               pc' = [pc EXCEPT ![w] = "add"],
               UNCHANGED <<clients, count, arg, down, sweepVars>>
        PROVE HeldInv' /\ OpenOrDoomed'
    <3>1. /\ w \notin Holders /\ Holders' = Holders \cup {w}
          /\ \A v \in Holders : mine'[v] = mine[v]
          /\ mine'[w] = c
      BY <1>4, <2>2 DEF Connect, Holders, TypeOK
    <3>2. /\ c \in OpenTo(arg[w].endpoint)'
          /\ \A e \in Endpoints : OpenTo(e) \subseteq OpenTo(e)' /\ c \notin OpenTo(e)
      BY <2>2 DEF OpenTo, TypeOK
    <3>3. \A e \in Endpoints : clients[e] # c
      BY <2>2, <3>2, PollsAssumption DEF OpenOrDoomed, Pooled, OpenTo
    <3>4. \A v \in Holders : mine[v] # c /\ arg[v].endpoint \in Endpoints
      BY <3>2 DEF HeldInv, Holders, TypeOK, Configs
    <3>5. OpenOrDoomed'
      BY <2>2, <3>2 DEF OpenOrDoomed, Doomed, Pooled
    <3>6. HeldInv'
      BY <2>2, <3>1, <3>2, <3>3, <3>4 DEF HeldInv
    <3> QED
      BY <3>5, <3>6
  <2> QED
    BY <1>4, <2>1, <2>2 DEF Connect
<1>5. ASSUME NEW w \in Workers, StartAssign(w) PROVE HeldInv' /\ OpenOrDoomed'
  BY <1>5, HeldQuiet DEF StartAssign, Fatal, Killed, poolVars, Holders, TypeOK
<1>6. ASSUME NEW w \in Workers, EndAssign(w) PROVE HeldInv' /\ OpenOrDoomed'
  <2>1. CASE Fatal(w)
    BY <2>1, HeldQuiet DEF Fatal, Killed, Holders
  <2>2. CASE ~Fatal(w)
    <3>1. /\ clients' \in {clients, [clients EXCEPT ![arg[w].endpoint] = mine[w]]}
          /\ UNCHANGED <<conn, arg, mine, sweep>>
          /\ w \in Holders /\ Holders' = Holders \ {w}
      BY <1>6, <2>2 DEF EndAssign, Holders, TypeOK
    <3>2. mine[w] \in OpenTo(arg[w].endpoint)
      BY <3>1 DEF HeldInv
    <3>3. OpenOrDoomed'
      BY <3>1, <3>2 DEF OpenOrDoomed, Doomed, Pooled, OpenTo, TypeOK
    <3>4. \A v \in Holders' : \A e \in Endpoints : clients'[e] # mine[v]
      BY <3>1 DEF HeldInv, TypeOK
    <3>5. HeldInv'
      BY <3>1, <3>4 DEF HeldInv, OpenTo
    <3> QED
      BY <3>3, <3>5
  <2> QED
    BY <2>1, <2>2
<1>7. ASSUME NEW w \in Workers, Return(w) PROVE HeldInv' /\ OpenOrDoomed'
  BY <1>7, HeldQuiet DEF Return, Idle, poolVars, Holders, TypeOK
<1>8. CASE UNCHANGED vars
  BY <1>8, HeldQuiet DEF vars, Holders
<1> QED
  BY <1>1, <1>2, <1>3, <1>4, <1>5, <1>6, <1>7, <1>8 DEF Next, GetHandlerStep

\* DisconnectAll closes what is pooled and not what is held; the one client it
\* has closed is the one whose entry it deletes.
LEMMA HeldSweep ==
    RaceOutcomes \subseteq {"fatal"} /\ TypeOK /\ HeldInv /\ OpenOrDoomed /\ DisconnectAll
        => HeldInv' /\ OpenOrDoomed'
<1> SUFFICES ASSUME RaceOutcomes \subseteq {"fatal"}, TypeOK, HeldInv, OpenOrDoomed,
                    DisconnectAll
             PROVE HeldInv' /\ OpenOrDoomed'
  OBVIOUS
<1> USE DEF workerVars
<1>h. \A w \in Holders : mine[w] \in Conns
  BY DEF HeldInv, OpenTo
<1>n. NoConn \notin Conns
  BY PollsAssumption
<1>1. CASE StartSweep
  <2>1. UNCHANGED <<clients, conn, pc, arg, mine>>
    BY <1>1 DEF StartSweep
  <2>2. \A e \in Endpoints : ~Doomed(e)
    BY <1>1 DEF StartSweep, Sweeping, Doomed
  <2> QED
    BY <2>1, <2>2 DEF HeldInv, OpenOrDoomed, Pooled, OpenTo, Holders
<1>2. CASE Killed
  BY <1>2, HeldQuiet DEF Killed, Holders, sweepVars
<1>3. ASSUME NEW e \in Endpoints, Disconnect(e), ~Killed PROVE HeldInv' /\ OpenOrDoomed'
  <2>1. \A x \in Endpoints : ~Doomed(x)
    BY <1>3 DEF Disconnect
  <2>2. PICK c \in Shown(e, Assigning # {}) \ {NoConn} :
            conn' \in {conn, [conn EXCEPT ![c].state = "closed"]}
    BY <1>3 DEF Disconnect
  <2>3. c = clients[e] /\ e \in Pooled
    BY <2>2 DEF Shown, Pooled
  <2>4. /\ sweep' = [sweep EXCEPT ![e] = "closed"]
        /\ UNCHANGED <<clients, pc, arg, mine>>
    BY <1>3 DEF Disconnect
  <2>5. \A x \in Pooled : clients[x] \in OpenTo(x)
    BY <2>1 DEF OpenOrDoomed, Pooled
  <2>6. \A x \in Pooled : x # e => clients[x] # c
    BY <2>3, <2>5 DEF OpenTo
  <2>7. \A d \in Conns : d # c => conn'[d] = conn[d]
    BY <2>2 DEF TypeOK
  <2>8. HeldInv'
    BY <2>3, <2>4, <2>7, <1>h DEF HeldInv, Holders, OpenTo, Pooled
  <2>9. Doomed(e)' /\ (clients'[e] \in OpenTo(e)' \/ conn'[clients'[e]].state = "closed")
    <3>1. clients[e] \in Conns /\ clients[e] \in OpenTo(e) /\ clients'[e] = clients[e]
      BY <2>3, <2>4, <2>5 DEF OpenTo
    <3>2. conn' = conn \/ conn'[clients[e]].state = "closed"
      BY <2>2, <2>3, <3>1 DEF TypeOK, ConnRec
    <3>3. Doomed(e)'
      BY <2>4 DEF Doomed, TypeOK
    <3> QED
      BY <3>1, <3>2, <3>3 DEF OpenTo
  <2>10. \A x \in Pooled : x # e => clients'[x] \in OpenTo(x)'
    BY <2>4, <2>5, <2>6, <2>7 DEF OpenTo
  <2>11. OpenOrDoomed'
    BY <2>4, <2>9, <2>10 DEF OpenOrDoomed, Pooled
  <2> QED
    BY <2>8, <2>11
<1>4. ASSUME NEW e \in Endpoints, StartDelete(e), ~Killed PROVE HeldInv' /\ OpenOrDoomed'
  <2>1. /\ sweep[e] = "closed" /\ sweep' = [sweep EXCEPT ![e] = "deleting"]
        /\ UNCHANGED <<clients, conn, pc, arg, mine>>
    BY <1>4 DEF StartDelete
  <2>2. \A x \in Endpoints : Doomed(x) => Doomed(x)'
    BY <2>1 DEF Doomed, TypeOK
  <2> QED
    BY <2>1, <2>2 DEF HeldInv, OpenOrDoomed, Pooled, OpenTo, Holders
<1>5. ASSUME NEW e \in Endpoints, EndDelete(e), ~Killed PROVE HeldInv' /\ OpenOrDoomed'
  <2>1. /\ clients' = [clients EXCEPT ![e] = NoConn]
        /\ sweep' = [sweep EXCEPT ![e] = "done"]
        /\ UNCHANGED <<conn, pc, arg, mine>>
    BY <1>5, SureEffects DEF EndDelete
  <2>2. \A x \in Pooled' : x \in Pooled /\ x # e /\ clients'[x] = clients[x]
    BY <2>1 DEF Pooled, TypeOK
  <2>3. \A x \in Endpoints : x # e /\ Doomed(x) => Doomed(x)'
    BY <2>1 DEF Doomed, TypeOK
  <2>4. OpenOrDoomed'
    BY <2>1, <2>2, <2>3 DEF OpenOrDoomed, OpenTo, Pooled
  <2>5. HeldInv'
    BY <2>1, <1>h, <1>n DEF HeldInv, OpenTo, Holders, TypeOK
  <2> QED
    BY <2>4, <2>5
<1>6. CASE EndSweep
  <2>1. UNCHANGED <<clients, conn, pc, arg, mine>>
    BY <1>6 DEF EndSweep
  <2>2. \A e \in Endpoints : ~Doomed(e)
    BY <1>6 DEF EndSweep
  <2> QED
    BY <2>1, <2>2 DEF HeldInv, OpenOrDoomed, Pooled, OpenTo, Holders
<1> QED
  BY <1>1, <1>2, <1>3, <1>4, <1>5, <1>6 DEF DisconnectAll

\* No pooled connection is closed or leads to another endpoint, except the one
\* DisconnectAll has closed and not deleted yet; unless a race loses or fakes
\* an entry.
THEOREM PooledStayOpen == SpecAPI => []PooledOpen
<1>1. Init => TypeOK /\ HeldInv /\ OpenOrDoomed
  BY InitTypeOK, HeldInit
<1>2. RaceOutcomes \subseteq {"fatal"} =>
        ((TypeOK /\ HeldInv /\ OpenOrDoomed) /\ [Next \/ DisconnectAll]_vars
            => (TypeOK /\ HeldInv /\ OpenOrDoomed)')
  BY NextTypeOK, HeldStep, HeldSweep
<1>3. OpenOrDoomed => PooledOpen
  BY DEF PooledOpen
<1>4. CASE RaceOutcomes \subseteq {"fatal"}
  BY <1>1, <1>2, <1>3, <1>4, PTL DEF SpecAPI
<1>5. CASE ~(RaceOutcomes \subseteq {"fatal"})
  <2>1. PooledOpen
    BY <1>5 DEF PooledOpen
  <2> QED
    BY <2>1, PTL
<1> QED
  BY <1>4, <1>5

-----------------------------------------------------------------------------
(* The count is exact unless a race loses an update.                         *)

LEMMA ExactInit == Init => CountExact
<1> SUFFICES ASSUME Init PROVE CountExact
  OBVIOUS
<1>1. Pooled = {}
  BY DEF Init, Pooled
<1> QED
  BY <1>1, FS_EmptySet DEF Init, CountExact

\* A call that is about to store a connection has one.
HoldsConn == \A w \in Holders : mine[w] \in Conns

LEMMA HoldsConnStep ==
    TypeOK /\ HoldsConn /\ [Next \/ DisconnectAll]_vars => HoldsConn'
<1> SUFFICES ASSUME TypeOK, HoldsConn, [Next \/ DisconnectAll]_vars PROVE HoldsConn'
  OBVIOUS
<1> USE DEF HoldsConn, Holders, TypeOK
<1>1. ASSUME NEW w \in Workers, NEW cfg \in Configs, Enter(w, cfg) PROVE HoldsConn'
  BY <1>1 DEF Enter
<1>2. ASSUME NEW w \in Workers, Lookup(w) PROVE HoldsConn'
  BY <1>2 DEF Lookup, Fatal, Killed
<1>3. ASSUME NEW w \in Workers, CheckLimit(w) PROVE HoldsConn'
  BY <1>3 DEF CheckLimit, Idle
<1>4. ASSUME NEW w \in Workers, Connect(w) PROVE HoldsConn'
  BY <1>4 DEF Connect, Idle
<1>5. ASSUME NEW w \in Workers, StartAssign(w) PROVE HoldsConn'
  BY <1>5 DEF StartAssign, Fatal, Killed
<1>6. ASSUME NEW w \in Workers, EndAssign(w) PROVE HoldsConn'
  BY <1>6 DEF EndAssign, Fatal, Killed
<1>7. ASSUME NEW w \in Workers, Return(w) PROVE HoldsConn'
  BY <1>7 DEF Return, Idle
<1>8. ASSUME UNCHANGED <<pc, mine>> PROVE HoldsConn'
  BY <1>8
<1>9. DisconnectAll => UNCHANGED <<pc, mine>>
  BY DEF DisconnectAll, StartSweep, Disconnect, StartDelete, EndDelete, EndSweep, Killed,
         workerVars
<1> QED
  BY <1>1, <1>2, <1>3, <1>4, <1>5, <1>6, <1>7, <1>8, <1>9 DEF Next, GetHandlerStep, vars

LEMMA ExactStep ==
    TypeOK /\ HoldsConn /\ CountExact /\ [Next \/ DisconnectAll]_vars => CountExact'
<1> SUFFICES ASSUME TypeOK, HoldsConn, CountExact, [Next \/ DisconnectAll]_vars,
                    "lost" \notin RaceOutcomes
             PROVE (count = Cardinality(Pooled))'
  BY DEF CountExact
<1>c. count = Cardinality(Pooled)
  BY DEF CountExact
<1>q. ASSUME UNCHANGED <<clients, count>> PROVE (count = Cardinality(Pooled))'
  BY <1>c, <1>q DEF Pooled
<1>1. ASSUME NEW w \in Workers, EndAssign(w), ~Fatal(w)
      PROVE (count = Cardinality(Pooled))'
  <2> DEFINE e == arg[w].endpoint
  <2>1. /\ clients' = [clients EXCEPT ![e] = mine[w]]
        /\ count' = IF clients[e] = NoConn THEN count + 1 ELSE count
    BY <1>1, SureEffects DEF EndAssign
  <2>2. mine[w] # NoConn /\ e \in Endpoints
    BY <1>1, PollsAssumption DEF EndAssign, HoldsConn, Holders, TypeOK, Configs
  <2>3. Pooled' = Pooled \cup {e} /\ (e \in Pooled <=> clients[e] # NoConn)
    BY <2>1, <2>2 DEF Pooled, TypeOK
  <2>4. Pooled \in SUBSET Endpoints
    BY DEF Pooled
  <2>5. IsFiniteSet(Pooled)
    BY <2>4, PollsAssumption, FS_Subset
  <2>6. Cardinality(Pooled \cup {e}) = IF e \in Pooled THEN Cardinality(Pooled)
                                                       ELSE Cardinality(Pooled) + 1
    BY <2>5, FS_AddElement
  <2> QED
    BY <1>c, <2>1, <2>3, <2>6
<1>2. ASSUME DisconnectAll PROVE (count = Cardinality(Pooled))'
  <2>1. CASE UNCHANGED <<clients, count>>
    BY <2>1, <1>q
  <2>2. ASSUME NEW e \in Endpoints, EndDelete(e), ~Killed
        PROVE (count = Cardinality(Pooled))'
    <3>1. /\ clients' = [clients EXCEPT ![e] = NoConn]
          /\ count' = IF clients[e] # NoConn THEN count - 1 ELSE count
      BY <2>2, SureEffects DEF EndDelete
    <3>2. Pooled' = Pooled \ {e} /\ (e \in Pooled <=> clients[e] # NoConn)
      BY <3>1 DEF Pooled, TypeOK
    <3>3. Pooled \in SUBSET Endpoints
      BY DEF Pooled
    <3>4. IsFiniteSet(Pooled)
      BY <3>3, PollsAssumption, FS_Subset
    <3>5. Cardinality(Pooled \ {e}) = IF e \in Pooled THEN Cardinality(Pooled) - 1
                                                      ELSE Cardinality(Pooled)
      BY <3>4, FS_RemoveElement
    <3> QED
      BY <1>c, <3>1, <3>2, <3>5
  <2>3. UNCHANGED <<clients, count>> \/ \E e \in Endpoints : EndDelete(e) /\ ~Killed
    BY <1>2 DEF DisconnectAll, StartSweep, Disconnect, StartDelete, EndDelete, EndSweep,
                Killed
  <2> QED
    BY <2>1, <2>2, <2>3
<1>3. ASSUME NEW w \in Workers, GetHandlerStep(w) PROVE (count = Cardinality(Pooled))'
  <2>1. CASE EndAssign(w)
    <3>1. CASE Fatal(w)
      BY <3>1, <1>q DEF Fatal, Killed
    <3> QED
      BY <2>1, <3>1, <1>1
  <2>2. CASE ~EndAssign(w)
    BY <1>3, <2>2, <1>q DEF GetHandlerStep, Lookup, CheckLimit, Connect, StartAssign,
                            Fatal, Killed, poolVars
  <2> QED
    BY <2>1, <2>2
<1>4. ASSUME NEW w \in Workers, (\E cfg \in Configs : Enter(w, cfg)) \/ Return(w)
      PROVE (count = Cardinality(Pooled))'
  BY <1>4, <1>q DEF Enter, Return, poolVars
<1>5. CASE UNCHANGED vars
  BY <1>5, <1>q DEF vars
<1> QED
  BY <1>2, <1>3, <1>4, <1>5 DEF Next

\* len(p.clients) counts the pooled connections; with OvershootBounded, their
\* number exceeds MaxSize by at most the number of workers less one.
THEOREM CountIsExact == SpecAPI => []CountExact
<1>1. Init => TypeOK /\ HoldsConn /\ CountExact
  BY InitTypeOK, ExactInit DEF Init, HoldsConn, Holders
<1>2. (TypeOK /\ HoldsConn /\ CountExact) /\ [Next \/ DisconnectAll]_vars
         => (TypeOK /\ HoldsConn /\ CountExact)'
  BY NextTypeOK, HoldsConnStep, ExactStep
<1> QED
  BY <1>1, <1>2, PTL DEF SpecAPI

-----------------------------------------------------------------------------
(* The leak.  While an endpoint has no entry, its connections are held by    *)
(* distinct calls; once it has one, no call dials it any more but those that *)
(* were already past the look-up.                                            *)

\* Connections each held by a worker of S are no more than S.
LEMMA HeldCard ==
  ASSUME NEW S, S \subseteq Workers, NEW T, \A c \in T : \E w \in S : mine[w] = c
  PROVE  /\ IsFiniteSet(T)
         /\ Cardinality(T) <= Cardinality(S)
<1> DEFINE f == [c \in T |-> CHOOSE w \in S : mine[w] = c]
<1>1. \A c \in T : f[c] \in S /\ mine[f[c]] = c
  OBVIOUS
<1>2. f \in Injection(T, S)
  BY <1>1, Zenon DEF Injection, IsInjective
<1>3. IsFiniteSet(S)
  BY SubCard
<1> HIDE DEF f
<1> QED
  BY <1>2, <1>3, FS_Injection

LEMMA LeakInit == Init => LeakInv
<1> SUFFICES ASSUME Init, NEW e \in Endpoints
             PROVE /\ IsFiniteSet(OpenTo(e))
                   /\ clients[e] = NoConn =>
                         \A c \in OpenTo(e) : \E w \in Holding(e) : mine[w] = c
                   /\ Cardinality(OpenTo(e)) + Cardinality(Dialing(e))
                         <= Cardinality(Workers)
  BY DEF LeakInv
<1>1. OpenTo(e) = {} /\ Dialing(e) = {}
  BY DEF Init, OpenTo, Unused, Dialing
<1> QED
  BY <1>1, FS_EmptySet, WorkersCard

\* A step that dials nothing, drops no entry and no held connection, and lets
\* no call past the look-up keeps the bound.
LEMMA LeakQuiet ==
  ASSUME LeakInv, UNCHANGED conn, NEW e \in Endpoints,
         clients'[e] = NoConn =>
            /\ clients[e] = NoConn
            /\ \A w \in Holding(e) : w \in Holding(e)' /\ mine'[w] = mine[w],
         Dialing(e)' \subseteq Dialing(e)
  PROVE  /\ IsFiniteSet(OpenTo(e)')
         /\ clients'[e] = NoConn =>
                \A c \in OpenTo(e)' : \E w \in Holding(e)' : mine'[w] = c
         /\ Cardinality(OpenTo(e)') + Cardinality(Dialing(e)') <= Cardinality(Workers)
<1>1. OpenTo(e)' = OpenTo(e)
  BY DEF OpenTo
<1>2. IsFiniteSet(OpenTo(e)) /\ Cardinality(OpenTo(e)) \in Nat
  BY FS_CardinalityType DEF LeakInv
<1>3. /\ Cardinality(Dialing(e)) \in Nat /\ Cardinality(Dialing(e)') \in Nat
      /\ IsFiniteSet(Dialing(e))
  BY SubCard DEF Dialing
<1>4. Cardinality(Dialing(e)') <= Cardinality(Dialing(e))
  BY <1>3, FS_Subset
<1>5. Cardinality(OpenTo(e)) + Cardinality(Dialing(e)) <= Cardinality(Workers)
  BY DEF LeakInv
<1>6. clients'[e] = NoConn =>
          \A c \in OpenTo(e)' : \E w \in Holding(e)' : mine'[w] = c
  BY <1>1 DEF LeakInv
<1> QED
  BY <1>1, <1>2, <1>3, <1>4, <1>5, <1>6, WorkersCard

LEMMA LeakStep ==
    RaceOutcomes \subseteq {"fatal"} /\ TypeOK /\ HeldInv /\ LeakInv /\ [Next]_vars
        => LeakInv'
<1> SUFFICES ASSUME RaceOutcomes \subseteq {"fatal"}, TypeOK, HeldInv, LeakInv,
                    [Next]_vars, NEW e \in Endpoints
             PROVE /\ IsFiniteSet(OpenTo(e)')
                   /\ clients'[e] = NoConn =>
                          \A c \in OpenTo(e)' : \E w \in Holding(e)' : mine'[w] = c
                   /\ Cardinality(OpenTo(e)') + Cardinality(Dialing(e)')
                          <= Cardinality(Workers)
  BY DEF LeakInv
<1> DEFINE Goal == /\ IsFiniteSet(OpenTo(e)')
                   /\ clients'[e] = NoConn =>
                          \A c \in OpenTo(e)' : \E w \in Holding(e)' : mine'[w] = c
                   /\ Cardinality(OpenTo(e)') + Cardinality(Dialing(e)')
                          <= Cardinality(Workers)
<1>r. "stale" \notin RaceOutcomes /\ "lost" \notin RaceOutcomes
  OBVIOUS
<1>o. /\ IsFiniteSet(OpenTo(e)) /\ Cardinality(OpenTo(e)) \in Nat
      /\ Cardinality(OpenTo(e)) + Cardinality(Dialing(e)) <= Cardinality(Workers)
  BY FS_CardinalityType DEF LeakInv
<1>d. /\ IsFiniteSet(Dialing(e)) /\ Cardinality(Dialing(e)) \in Nat
      /\ Cardinality(Dialing(e)') \in Nat
  BY SubCard DEF Dialing
<1>1. ASSUME NEW w \in Workers, NEW cfg \in Configs, Enter(w, cfg) PROVE Goal
  <2>1. /\ pc[w] = "idle" /\ pc' = [pc EXCEPT ![w] = "lookup"]
        /\ arg' = [arg EXCEPT ![w] = cfg]
        /\ UNCHANGED <<clients, conn, mine>>
    BY <1>1 DEF Enter, poolVars
  <2>2. Dialing(e)' \subseteq Dialing(e)
    BY <2>1 DEF Dialing, TypeOK
  <2>3. Holding(e) \subseteq Holding(e)'
    BY <2>1 DEF Holding, Holders, TypeOK
  <2> QED
    BY <2>1, <2>2, <2>3, LeakQuiet
<1>2. ASSUME NEW w \in Workers, Lookup(w) PROVE Goal
  <2>1. CASE Fatal(w)
    BY <2>1, LeakQuiet DEF Fatal, Killed, Holding, Holders, Dialing
  <2>2. CASE ~Fatal(w)
    <3>1. /\ pc[w] = "lookup"
          /\ pc' = [pc EXCEPT ![w] = IF clients[arg[w].endpoint] # NoConn
                                     THEN "got" ELSE "limit"]
          /\ mine' = [mine EXCEPT ![w] = clients[arg[w].endpoint]]
          /\ UNCHANGED <<clients, conn, arg>>
      BY <1>2, <2>2, <1>r DEF Lookup, Seen, Shown, poolVars
    <3>2. Holding(e)' = Holding(e) /\ \A v \in Holding(e) : mine'[v] = mine[v]
      BY <3>1 DEF Holding, Holders, TypeOK
    <3>3. CASE arg[w].endpoint # e \/ clients[e] # NoConn
      <4>1. Dialing(e)' = Dialing(e)
        BY <3>1, <3>3 DEF Dialing, TypeOK
      <4> QED
        BY <3>1, <3>2, <4>1, LeakQuiet
    \* A miss: the new candidate is not among the holders of the connections.
    <3>4. CASE arg[w].endpoint = e /\ clients[e] = NoConn
      <4>1. Dialing(e)' = Dialing(e) \cup {w}
        BY <3>1, <3>4 DEF Dialing, TypeOK
      <4>2. /\ IsFiniteSet(Holding(e)) /\ Cardinality(Holding(e)) \in Nat
            /\ Cardinality(OpenTo(e)) <= Cardinality(Holding(e))
        <5>1. \A c \in OpenTo(e) : \E v \in Holding(e) : mine[v] = c
          BY <3>4 DEF LeakInv
        <5>2. Holding(e) \subseteq Workers
          BY DEF Holding, Holders
        <5> QED
          BY <5>1, <5>2, HeldCard, SubCard
      <4>3. Holding(e) \cap Dialing(e)' = {}
        BY <3>1, <4>1 DEF Holding, Holders, Dialing
      <4>4. /\ IsFiniteSet(Dialing(e)')
            /\ Cardinality(Holding(e) \cup Dialing(e)')
                 = Cardinality(Holding(e)) + Cardinality(Dialing(e)')
        <5>1. IsFiniteSet(Dialing(e)')
          BY SubCard DEF Dialing
        <5>2. Cardinality(Holding(e) \cap Dialing(e)') = 0
          BY <4>3, FS_EmptySet
        <5>3. Cardinality(Holding(e) \cup Dialing(e)')
                = Cardinality(Holding(e)) + Cardinality(Dialing(e)')
                    - Cardinality(Holding(e) \cap Dialing(e)')
          BY <5>1, <4>2, FS_Union
        <5> QED
          BY <5>1, <5>2, <5>3, <4>2, <1>d
      <4>5. Cardinality(Holding(e) \cup Dialing(e)') <= Cardinality(Workers)
        BY SubCard DEF Holding, Holders, Dialing
      <4>6. OpenTo(e)' = OpenTo(e)
        BY <3>1 DEF OpenTo
      <4>7. \A c \in OpenTo(e)' : \E v \in Holding(e)' : mine'[v] = c
        BY <3>2, <3>4, <4>6 DEF LeakInv
      <4> QED
        BY <4>2, <4>4, <4>5, <4>6, <4>7, <1>o, <1>d, WorkersCard
    <3> QED
      BY <3>3, <3>4
  <2> QED
    BY <2>1, <2>2
<1>3. ASSUME NEW w \in Workers, CheckLimit(w) PROVE Goal
  <2>1. /\ pc[w] = "limit" /\ UNCHANGED <<clients, conn>>
        /\ \/ Idle(w)
           \/ pc' = [pc EXCEPT ![w] = "connect"] /\ UNCHANGED <<arg, mine>>
    BY <1>3 DEF CheckLimit, poolVars
  <2>2. Dialing(e)' \subseteq Dialing(e)
    BY <2>1 DEF Idle, Dialing, TypeOK
  <2>3. \A v \in Holding(e) : v \in Holding(e)' /\ mine'[v] = mine[v]
    BY <2>1 DEF Idle, Holding, Holders, TypeOK
  <2> QED
    BY <2>1, <2>2, <2>3, LeakQuiet
<1>4. ASSUME NEW w \in Workers, Connect(w) PROVE Goal
  <2>1. CASE Idle(w) /\ UNCHANGED poolVars
    <3>1. pc[w] = "connect"
      BY <1>4 DEF Connect
    <3>2. Dialing(e)' \subseteq Dialing(e)
      BY <2>1 DEF Idle, Dialing, TypeOK
    <3>3. \A v \in Holding(e) : v \in Holding(e)' /\ mine'[v] = mine[v]
      BY <2>1, <3>1 DEF Idle, Holding, Holders, TypeOK
    <3> QED
      BY <2>1, <3>2, <3>3, LeakQuiet DEF poolVars
  <2>2. ASSUME NEW c \in Conns, conn[c].state = "unused",
               conn' = [conn EXCEPT ![c] = [state |-> "open", name |-> arg[w].name,
                                            endpoint |-> arg[w].endpoint]],
               mine' = [mine EXCEPT ![w] = c],
               pc' = [pc EXCEPT ![w] = "add"],
               UNCHANGED <<clients, count, arg, down, sweepVars>>
        PROVE Goal
    <3>0. pc[w] = "connect"
      BY <1>4 DEF Connect
    <3>1. CASE arg[w].endpoint = e
      <4>1. OpenTo(e)' = OpenTo(e) \cup {c} /\ c \notin OpenTo(e)
        BY <2>2, <3>1 DEF OpenTo, TypeOK
      <4>2. w \in Dialing(e) /\ Dialing(e)' = Dialing(e) \ {w}
        BY <2>2, <3>0, <3>1 DEF Dialing, TypeOK
      <4>3. /\ IsFiniteSet(OpenTo(e)')
            /\ Cardinality(OpenTo(e)') = Cardinality(OpenTo(e)) + 1
        BY <4>1, <1>o, FS_AddElement
      <4>4. Cardinality(Dialing(e)') = Cardinality(Dialing(e)) - 1
        BY <4>2, <1>d, FS_RemoveElement
      <4>5. /\ Holding(e)' = Holding(e) \cup {w}
            /\ mine'[w] = c /\ \A v \in Holding(e) : mine'[v] = mine[v]
        BY <2>2, <3>0, <3>1 DEF Holding, Holders, TypeOK
      <4>6. clients'[e] = NoConn =>
                \A d \in OpenTo(e)' : \E v \in Holding(e)' : mine'[v] = d
        BY <2>2, <4>1, <4>5 DEF LeakInv
      <4> QED
        BY <4>3, <4>4, <4>6, <1>o, <1>d, WorkersCard
    <3>2. CASE arg[w].endpoint # e
      <4>1. OpenTo(e)' = OpenTo(e)
        BY <2>2, <3>2 DEF OpenTo, TypeOK
      <4>2. Dialing(e)' = Dialing(e)
        BY <2>2, <3>2 DEF Dialing, TypeOK
      <4>3. \A v \in Holding(e) : v \in Holding(e)' /\ mine'[v] = mine[v]
        BY <2>2, <3>2 DEF Holding, Holders, TypeOK
      <4>4. clients'[e] = clients[e] /\ Cardinality(OpenTo(e)') = Cardinality(OpenTo(e))
            /\ Cardinality(Dialing(e)') = Cardinality(Dialing(e)) /\ IsFiniteSet(OpenTo(e)')
        BY <2>2, <4>1, <4>2, <1>o
      <4>5. \A d \in OpenTo(e) : clients[e] = NoConn => \E v \in Holding(e) : mine[v] = d
        BY DEF LeakInv
      <4>6. clients'[e] = NoConn => \A d \in OpenTo(e)' : \E v \in Holding(e)' : mine'[v] = d
        BY <4>1, <4>3, <4>4, <4>5
      <4>7. Cardinality(OpenTo(e)') + Cardinality(Dialing(e)') <= Cardinality(Workers)
        BY <1>o, <4>4
      <4> QED
        BY <4>4, <4>6, <4>7
    <3> QED
      BY <3>1, <3>2
  <2> QED
    BY <1>4, <2>1, <2>2 DEF Connect
<1>5. ASSUME NEW w \in Workers, StartAssign(w) PROVE Goal
  <2>1. /\ pc[w] = "add" /\ pc' \in {pc, [pc EXCEPT ![w] = "assign"]}
        /\ UNCHANGED <<clients, conn, arg, mine>>
    BY <1>5 DEF StartAssign, Fatal, Killed, poolVars
  <2>2. Dialing(e)' \subseteq Dialing(e)
    BY <2>1 DEF Dialing, TypeOK
  <2>3. Holding(e) \subseteq Holding(e)'
    BY <2>1 DEF Holding, Holders, TypeOK
  <2> QED
    BY <2>1, <2>2, <2>3, LeakQuiet
<1>6. ASSUME NEW w \in Workers, EndAssign(w) PROVE Goal
  <2>1. CASE Fatal(w)
    BY <2>1, LeakQuiet DEF Fatal, Killed, Holding, Holders, Dialing
  <2>2. CASE ~Fatal(w)
    <3>1. /\ clients' = [clients EXCEPT ![arg[w].endpoint] = mine[w]]
          /\ pc[w] = "assign" /\ pc' = [pc EXCEPT ![w] = "got"]
          /\ UNCHANGED <<conn, arg, mine>>
      BY <1>6, <2>2, <1>r, SureEffects DEF EndAssign
    <3>2. mine[w] # NoConn
      BY <3>1, PollsAssumption DEF HeldInv, Holders, OpenTo
    <3>3. Dialing(e)' = Dialing(e)
      BY <3>1 DEF Dialing, TypeOK
    <3>4. clients'[e] = NoConn => clients[e] = NoConn /\ arg[w].endpoint # e
      BY <3>1, <3>2 DEF TypeOK
    <3>5. arg[w].endpoint # e => \A v \in Holding(e) : v \in Holding(e)'
      BY <3>1 DEF Holding, Holders, TypeOK
    <3> QED
      BY <3>1, <3>3, <3>4, <3>5, LeakQuiet
  <2> QED
    BY <2>1, <2>2
<1>7. ASSUME NEW w \in Workers, Return(w) PROVE Goal
  <2>1. pc[w] = "got" /\ Idle(w) /\ UNCHANGED <<clients, conn>>
    BY <1>7 DEF Return, poolVars
  <2>2. Dialing(e)' \subseteq Dialing(e)
    BY <2>1 DEF Idle, Dialing, TypeOK
  <2>3. \A v \in Holding(e) : v \in Holding(e)' /\ mine'[v] = mine[v]
    BY <2>1 DEF Idle, Holding, Holders, TypeOK
  <2> QED
    BY <2>1, <2>2, <2>3, LeakQuiet
<1>8. CASE UNCHANGED vars
  BY <1>8, LeakQuiet DEF vars, Holding, Holders, Dialing
<1> QED
  BY <1>1, <1>2, <1>3, <1>4, <1>5, <1>6, <1>7, <1>8 DEF Next, GetHandlerStep

\* The number of connections ever dialed to one endpoint, leaked ones included,
\* is bounded by the number of concurrent commands, not by how long the process
\* runs: the duplicates of the unlocked look-up do not accumulate.
THEOREM LeakBounded == Spec => []LeakBound
<1>1. Init => TypeOK /\ HeldInv /\ OpenOrDoomed /\ LeakInv
  BY InitTypeOK, HeldInit, LeakInit
<1>2. RaceOutcomes \subseteq {"fatal"} =>
        ((TypeOK /\ HeldInv /\ OpenOrDoomed /\ LeakInv) /\ [Next]_vars
            => (TypeOK /\ HeldInv /\ OpenOrDoomed /\ LeakInv)')
  BY NextTypeOK, HeldStep, LeakStep
<1>3. TypeOK /\ LeakInv => LeakBound
  <2> SUFFICES ASSUME LeakInv, NEW e \in Endpoints
               PROVE Cardinality(OpenTo(e)) <= Cardinality(Workers)
    BY DEF LeakBound
  <2>1. Cardinality(Dialing(e)) \in Nat
    BY SubCard DEF Dialing
  <2>2. /\ Cardinality(OpenTo(e)) \in Nat
        /\ Cardinality(OpenTo(e)) + Cardinality(Dialing(e)) <= Cardinality(Workers)
    BY FS_CardinalityType DEF LeakInv
  <2> QED
    BY <2>1, <2>2, WorkersCard
<1>4. CASE RaceOutcomes \subseteq {"fatal"}
  BY <1>1, <1>2, <1>3, <1>4, PTL DEF Spec
<1>5. CASE ~(RaceOutcomes \subseteq {"fatal"})
  <2>1. LeakBound
    BY <1>5 DEF LeakBound
  <2> QED
    BY <2>1, PTL
<1> QED
  BY <1>4, <1>5

-----------------------------------------------------------------------------
(* What a caller is given.                                                   *)

\* In the program nothing calls DisconnectAll.
NoSweep == \A e \in Endpoints : sweep[e] = "off"

\* So what a caller holds is open to its endpoint.
GotOpen == \A w \in Workers : pc[w] = "got" => mine[w] \in OpenTo(arg[w].endpoint)

LEMMA NoSweepStep == NoSweep /\ [Next]_vars => NoSweep'
BY DEF NoSweep, Next, GetHandlerStep, Enter, Lookup, CheckLimit, Connect, StartAssign,
       EndAssign, Return, Fatal, Killed, poolVars, sweepVars, vars

\* Steps that close no connection, and after which no call has a handler but
\* those that had it before.
LEMMA DialsQuiet ==
  ASSUME GotOpen,
         \A e \in Endpoints : OpenTo(e) \subseteq OpenTo(e)',
         \A v \in Workers : pc'[v] = "got" =>
             /\ pc[v] = "got" /\ mine'[v] = mine[v] /\ arg'[v] = arg[v]
             /\ arg[v].endpoint \in Endpoints
  PROVE  GotOpen'
BY DEF GotOpen

\* Whatever a racing look-up may see of the pool, it is open to the endpoint.
LEMMA SeenDials ==
  ASSUME TypeOK, HeldInv, NoSweep, OpenOrDoomed, NEW w \in Workers, NEW found \in Seen(w),
         found # NoConn
  PROVE  found \in OpenTo(arg[w].endpoint)
<1>1. arg[w].endpoint \in Endpoints
  BY DEF TypeOK, Configs
<1>2. CASE found = clients[arg[w].endpoint]
  BY <1>1, <1>2 DEF NoSweep, OpenOrDoomed, Doomed, Pooled
<1>3. CASE \E v \in Assigning : arg[v].endpoint = arg[w].endpoint /\ found = mine[v]
  BY <1>3 DEF HeldInv, Holders, Assigning
<1> QED
  BY <1>2, <1>3 DEF Seen, Shown

LEMMA DialsStep ==
    TypeOK /\ HeldInv /\ NoSweep /\ OpenOrDoomed /\ GotOpen /\ [Next]_vars
        => GotOpen'
<1> SUFFICES ASSUME TypeOK, HeldInv, NoSweep, OpenOrDoomed, GotOpen, [Next]_vars
             PROVE GotOpen'
  OBVIOUS
<1>e. \A v \in Workers : arg[v].endpoint \in Endpoints
  BY DEF TypeOK, Configs
<1>q. ASSUME UNCHANGED conn PROVE \A e \in Endpoints : OpenTo(e) \subseteq OpenTo(e)'
  BY <1>q DEF OpenTo
<1>1. ASSUME NEW w \in Workers, NEW cfg \in Configs, Enter(w, cfg) PROVE GotOpen'
  BY <1>1, <1>e, <1>q, DialsQuiet DEF Enter, poolVars, TypeOK
<1>2. ASSUME NEW w \in Workers, Lookup(w) PROVE GotOpen'
  <2>1. CASE Fatal(w)
    BY <2>1, <1>e, <1>q, DialsQuiet DEF Fatal, Killed
  <2>2. ASSUME NEW found \in Seen(w),
               pc' = [pc EXCEPT ![w] = IF found # NoConn THEN "got" ELSE "limit"],
               mine' = [mine EXCEPT ![w] = found],
               UNCHANGED <<poolVars, arg>>
        PROVE GotOpen'
    <3>1. CASE found = NoConn
      BY <1>2, <2>2, <3>1, <1>e, <1>q, DialsQuiet DEF Lookup, poolVars, TypeOK
    <3>2. CASE found # NoConn
      <4>1. found \in OpenTo(arg[w].endpoint)
        BY <2>2, <3>2, SeenDials
      <4> QED
        BY <2>2, <4>1 DEF GotOpen, OpenTo, poolVars, TypeOK
    <3> QED
      BY <3>1, <3>2
  <2> QED
    BY <1>2, <2>1, <2>2 DEF Lookup
<1>3. ASSUME NEW w \in Workers, CheckLimit(w) PROVE GotOpen'
  BY <1>3, <1>e, <1>q, DialsQuiet DEF CheckLimit, Idle, poolVars, TypeOK
<1>4. ASSUME NEW w \in Workers, Connect(w) PROVE GotOpen'
  <2>1. CASE Idle(w) /\ UNCHANGED poolVars
    BY <2>1, <1>e, <1>q, DialsQuiet DEF Idle, poolVars, TypeOK
  <2>2. ASSUME NEW c \in Conns, conn[c].state = "unused",
               conn' = [conn EXCEPT ![c] = [state |-> "open", name |-> arg[w].name,
                                            endpoint |-> arg[w].endpoint]],
               mine' = [mine EXCEPT ![w] = c],
               pc' = [pc EXCEPT ![w] = "add"],
               UNCHANGED <<clients, count, arg, down, sweepVars>>
        PROVE GotOpen'
    <3>1. \A e \in Endpoints : OpenTo(e) \subseteq OpenTo(e)'
      BY <2>2 DEF OpenTo, TypeOK
    <3> QED
      BY <2>2, <3>1, <1>e, DialsQuiet DEF TypeOK
  <2> QED
    BY <1>4, <2>1, <2>2 DEF Connect
<1>5. ASSUME NEW w \in Workers, StartAssign(w) PROVE GotOpen'
  BY <1>5, <1>e, <1>q, DialsQuiet DEF StartAssign, Fatal, Killed, poolVars, TypeOK
<1>6. ASSUME NEW w \in Workers, EndAssign(w) PROVE GotOpen'
  <2>1. CASE Fatal(w)
    BY <2>1, <1>e, <1>q, DialsQuiet DEF Fatal, Killed
  <2>2. CASE ~Fatal(w)
    <3>1. /\ pc[w] = "assign" /\ pc' = [pc EXCEPT ![w] = "got"]
          /\ UNCHANGED <<conn, arg, mine>>
      BY <1>6, <2>2 DEF EndAssign
    <3>2. mine[w] \in OpenTo(arg[w].endpoint)
      BY <3>1 DEF HeldInv, Holders
    <3> QED
      BY <3>1, <3>2 DEF GotOpen, OpenTo, TypeOK
  <2> QED
    BY <2>1, <2>2
<1>7. ASSUME NEW w \in Workers, Return(w) PROVE GotOpen'
  BY <1>7, <1>e, <1>q, DialsQuiet DEF Return, Idle, poolVars, TypeOK
<1>8. CASE UNCHANGED vars
  BY <1>8, <1>e, <1>q, DialsQuiet DEF vars
<1> QED
  BY <1>1, <1>2, <1>3, <1>4, <1>5, <1>6, <1>7, <1>8 DEF Next, GetHandlerStep

\* A command is given an open connection to the endpoint of its configuration,
\* under every outcome of the races on the map: an entry being stored may be
\* seen early or lost, but never under another key.
THEOREM HandlersDial == Spec => []HandlerDials
<1>1. Init => TypeOK /\ HeldInv /\ NoSweep /\ OpenOrDoomed /\ GotOpen
  BY InitTypeOK, HeldInit DEF Init, NoSweep, GotOpen
<1>2. (TypeOK /\ HeldInv /\ NoSweep /\ OpenOrDoomed /\ GotOpen) /\ [Next]_vars
         => (TypeOK /\ HeldInv /\ NoSweep /\ OpenOrDoomed /\ GotOpen)'
  BY NextTypeOK, HeldStep, NoSweepStep, DialsStep
<1>3. GotOpen => HandlerDials
  BY DEF GotOpen, HandlerDials, OpenTo
<1> QED
  BY <1>1, <1>2, <1>3, PTL DEF Spec

=============================================================================

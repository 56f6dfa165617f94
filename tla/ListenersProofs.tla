-------------------------- MODULE ListenersProofs --------------------------
(***************************************************************************)
(* Proofs about Listeners: its types, that an HTTP server does not outlive *)
(* Stop, and that a Stop which finds every listener serving or over stops  *)
(* them all, for any number of listeners of each kind and any ports.       *)
(***************************************************************************)
EXTENDS Listeners, SequenceTheorems, FiniteSetTheorems, TLAPS

Inv == TypeOK /\ OrderInv /\ MarkedInv /\ FieldInv /\ SettledInv

THEOREM InitInv == Init => Inv
<1> SUFFICES ASSUME Init
             PROVE  Inv
  OBVIOUS
<1>1. servers \in Seq(Listeners) /\ IsInjective(servers)
  BY DEF Init, IsInjective
<1>2. TypeOK
  BY <1>1 DEF Init, TypeOK, Stages
<1>3. IsInjective(toStop)
  BY DEF Init, IsInjective
<1>4. OrderInv
  BY <1>3 DEF Init, OrderInv
<1>5. MarkedInv
  BY DEF Init, MarkedInv, Listeners
<1>6. FieldInv
  BY DEF Init, FieldInv
<1>7. SettledInv
  BY DEF Init, SettledInv
<1> QED
  BY <1>2, <1>4, <1>5, <1>6, <1>7 DEF Inv

-----------------------------------------------------------------------------
\* Any order of the enabled listeners lists each of them, once.
LEMMA Orders ==
    ASSUME NEW enabled \in SUBSET Listeners, NEW s \in SetToSeqs(enabled)
    PROVE  s \in Seq(Listeners) /\ IsInjective(s) /\ Range(s) = enabled
<1> DEFINE n == Cardinality(enabled)
<1>1. IsFiniteSet(enabled) /\ n \in Nat
  BY ListenersAssumption, FS_Subset, FS_CardinalityType
<1>2. s \in [1 .. n -> enabled] /\ \A i, j \in 1 .. n : i # j => s[i] # s[j]
  BY DEF SetToSeqs
<1>3. s \in Injection(1 .. n, enabled)
  BY <1>2 DEF Injection, IsInjective
<1>4. Cardinality(1 .. n) = n
  BY <1>1, FS_Interval
<1>5. s \in Surjection(1 .. n, enabled)
  BY <1>1, <1>3, <1>4, FS_Injection
<1>6. Range(s) = enabled
  BY <1>2, <1>5 DEF Surjection, Range
<1>7. s \in Seq(Listeners)
  BY <1>1, <1>2, SeqDef
<1> QED
  BY <1>3, <1>6, <1>7 DEF Injection

\* Once its first member is gone, a sequence without repetitions has the others.
LEMMA TailOfInjective ==
    ASSUME NEW S, NEW s \in Seq(S), s # <<>>, IsInjective(s)
    PROVE  IsInjective(Tail(s)) /\ Range(Tail(s)) = Range(s) \ {Head(s)}
<1>1. /\ Tail(s) \in Seq(S) /\ Len(Tail(s)) = Len(s) - 1
      /\ \A i \in 1 .. Len(Tail(s)) : Tail(s)[i] = s[i + 1]
      /\ Len(s) \in Nat \ {0} /\ Head(s) = s[1]
  BY HeadTailProperties, EmptySeq
<1>2. DOMAIN s = 1 .. Len(s) /\ DOMAIN Tail(s) = 1 .. Len(Tail(s))
  BY <1>1, LenProperties
<1>3. IsInjective(Tail(s))
  <2> SUFFICES ASSUME NEW i \in 1 .. Len(Tail(s)), NEW j \in 1 .. Len(Tail(s)),
                      Tail(s)[i] = Tail(s)[j]
               PROVE  i = j
    BY <1>2 DEF IsInjective
  <2>1. i + 1 \in DOMAIN s /\ j + 1 \in DOMAIN s /\ s[i + 1] = s[j + 1]
    BY <1>1, <1>2
  <2>2. i + 1 = j + 1
    BY <2>1 DEF IsInjective
  <2> QED
    BY <2>2
<1>4. ASSUME NEW x \in Range(Tail(s))
      PROVE  x \in Range(s) \ {Head(s)}
  <2>1. PICK i \in 1 .. Len(Tail(s)) : x = Tail(s)[i]
    BY <1>2 DEF Range
  <2>2. i + 1 \in DOMAIN s /\ x = s[i + 1] /\ 1 \in DOMAIN s /\ i + 1 # 1
    BY <1>1, <1>2, <2>1
  <2> QED
    BY <1>1, <2>2 DEF Range, IsInjective
<1>5. ASSUME NEW x \in Range(s), x # Head(s)
      PROVE  x \in Range(Tail(s))
  <2>1. PICK i \in 1 .. Len(s) : x = s[i]
    BY <1>2 DEF Range
  <2>2. i - 1 \in 1 .. Len(Tail(s)) /\ (i - 1) + 1 = i
    BY <1>1, <1>5, <2>1
  <2>3. x = Tail(s)[i - 1]
    BY <1>1, <2>1, <2>2
  <2> QED
    BY <1>2, <2>2, <2>3 DEF Range
<1> QED
  BY <1>3, <1>4, <1>5

-----------------------------------------------------------------------------
\* What one step of a listener's Start can do.
UnderWay == {"spawned", "made", "hooked", "bound", "listening"}

\* The stage it gets to, if it gets on.
Gets(l, stage) ==
    /\ pc' = [pc EXCEPT ![l] = stage]
    /\ stage # "ended" => field'[l] = "set" \/ l \in Https \/ pc[l] = "listening"
    /\ stage = "serving" => l \notin closing

LEMMA StartEffect ==
    ASSUME TypeOK, NEW l \in Listeners, StartStep(l)
    PROVE  /\ UNCHANGED <<servers, closing, driver, toStop, settled>>
           /\ pc[l] \in UnderWay
           /\ UNCHANGED pc \/ \E stage \in Stages \ {"off", "spawned"} : Gets(l, stage)
           /\ \/ UNCHANGED field
              \/ l \notin Https /\ field' = [field EXCEPT ![l] = "set"]
           /\ panicked' => field[l] = "nil" /\ pc[l] # "spawned"
<1>1. closing \subseteq Https /\ field[l] \in {"nil", "set"} /\ ~panicked
      /\ l \in DOMAIN pc /\ l \in DOMAIN field
      /\ (l \in Mqtts \cup Snmps => l \notin Https)
  BY ListenersAssumption DEF TypeOK, StartStep
<1>2. CASE ListenAndServe(l)
  BY <1>1, <1>2 DEF ListenAndServe, Bind, Goto, Gets, UnderWay, Stages
<1>3. CASE Make(l)
  BY <1>1, <1>3 DEF Make, Goto, Gets, UnderWay, Stages
<1>4. CASE AddHooks(l)
  BY <1>1, <1>4 DEF AddHooks, Through, Goto, Gets, UnderWay, Stages
<1>5. CASE AddListener(l)
  BY <1>1, <1>5 DEF AddListener, Through, Bind, Goto, Gets, UnderWay, Stages
<1>6. CASE Serve(l)
  BY <1>1, <1>6 DEF Serve, Through, Goto, Gets, UnderWay, Stages
<1>7. CASE CallListen(l)
  BY <1>1, <1>7 DEF CallListen, Through, Goto, Gets, UnderWay, Stages
<1>8. CASE Listen(l)
  BY <1>1, <1>8 DEF Listen, Bind, Goto, Gets, UnderWay, Stages
<1> QED
  BY <1>2, <1>3, <1>4, <1>5, <1>6, <1>7, <1>8 DEF StartStep

\* A Start that goes on.
LEMMA StartInv ==
    ASSUME Inv, NEW l \in Listeners, StartStep(l)
    PROVE  Inv'
<1>1. TypeOK /\ OrderInv /\ MarkedInv /\ FieldInv /\ SettledInv
  BY DEF Inv
<1>2. UNCHANGED <<servers, closing, driver, toStop, settled>> /\ pc[l] \in UnderWay
  BY <1>1, StartEffect
<1>3. UNCHANGED pc \/ \E stage \in Stages \ {"off", "spawned"} : Gets(l, stage)
  BY <1>1, StartEffect
<1>4. UNCHANGED field \/ (l \notin Https /\ field' = [field EXCEPT ![l] = "set"])
  BY <1>1, StartEffect
<1>5. panicked' => field[l] = "nil" /\ pc[l] # "spawned"
  BY <1>1, StartEffect
<1>6. panicked' \in BOOLEAN
  BY <1>1, <1>2 DEF TypeOK, StartStep, ListenAndServe, Make, AddHooks, AddListener, Serve,
     CallListen, Listen, Through, Bind, Goto
<1>7. TypeOK'
  BY <1>1, <1>2, <1>3, <1>4, <1>6 DEF TypeOK, Gets
<1>8. OrderInv'
  BY <1>1, <1>2, <1>3 DEF OrderInv, TypeOK, Gets, UnderWay
<1>9. \A k \in Listeners : Awaits(k)' <=> Awaits(k)
  BY <1>2 DEF Awaits
<1>10. MarkedInv'
  <2>1. ASSUME NEW k \in Https
        PROVE  field'[k] = "set"
    BY <1>1, <1>4 DEF MarkedInv, TypeOK, Listeners
  <2>2. ASSUME NEW k \in Https, ~Awaits(k)', pc'[k] # "off"
        PROVE  k \in closing'
    <3>1. pc[k] # "off"
      BY <1>1, <1>2, <1>3, <2>2 DEF Gets, UnderWay, TypeOK, Listeners
    <3> QED
      BY <1>1, <1>2, <1>9, <2>2, <3>1 DEF MarkedInv, Listeners
  <2>3. ASSUME NEW k \in Https, k \in closing'
        PROVE  pc'[k] # "serving"
    BY <1>1, <1>2, <1>3, <2>3 DEF Gets, MarkedInv, TypeOK, Listeners
  <2> QED
    BY <2>1, <2>2, <2>3 DEF MarkedInv
<1>11. FieldInv'
  <2> SUFFICES ASSUME NEW k \in Listeners, Awaits(k)', pc'[k] \notin {"off", "spawned", "ended"}
               PROVE  field'[k] = "set"
    BY DEF FieldInv
  <2>1. CASE k # l \/ UNCHANGED pc
    <3>1. pc'[k] = pc[k]
      BY <1>1, <1>3, <2>1 DEF Gets, TypeOK
    <3> QED
      BY <1>1, <1>4, <1>9, <3>1 DEF FieldInv, TypeOK
  <2>2. CASE k = l /\ pc' # pc
    <3>1. field'[l] = "set" \/ l \in Https \/ pc[l] = "listening"
      BY <1>1, <1>3, <2>2 DEF Gets, TypeOK
    <3>2. field[l] = "set" => field'[l] = "set"
      BY <1>1, <1>4 DEF TypeOK
    <3> QED
      BY <1>1, <1>9, <2>2, <3>1, <3>2 DEF FieldInv, MarkedInv
  <2> QED
    BY <2>1, <2>2
<1>12. SettledInv'
  BY <1>1, <1>2 DEF SettledInv, UnderWay
<1> QED
  BY <1>7, <1>8, <1>10, <1>11, <1>12 DEF Inv

\* The driver's Start.
LEMMA SpawnInv ==
    ASSUME Inv, Start
    PROVE  Inv'
<1>1. PICK enabled \in SUBSET Listeners :
        /\ servers' \in SetToSeqs(enabled)
        /\ pc' = [l \in Listeners |-> IF l \in enabled THEN "spawned" ELSE "off"]
  BY DEF Start
<1>2. servers' \in Seq(Listeners) /\ IsInjective(servers)' /\ Range(servers)' = enabled
  BY <1>1, Orders
<1>3. driver = "new" /\ driver' = "started"
      /\ UNCHANGED <<field, closing, toStop, settled, panicked>>
  BY DEF Start
<1>4. TypeOK'
  BY <1>1, <1>2, <1>3 DEF Inv, TypeOK, Stages
<1>5. OrderInv'
  BY <1>1, <1>2, <1>3 DEF Inv, OrderInv
<1>6. MarkedInv'
  BY <1>1, <1>3 DEF Inv, MarkedInv, Awaits, Listeners
<1>7. FieldInv'
  BY <1>1, <1>3 DEF Inv, FieldInv
<1>8. SettledInv'
  BY <1>3 DEF Inv, SettledInv
<1> QED
  BY <1>4, <1>5, <1>6, <1>7, <1>8 DEF Inv

LEMMA StopInv ==
    ASSUME Inv, Stop
    PROVE  Inv'
<1>1. /\ ~panicked /\ driver = "started" /\ driver' = "stopping" /\ toStop' = servers
      /\ settled' = \A l \in Listeners : pc[l] \in {"off", "serving", "ended"}
      /\ UNCHANGED <<servers, pc, field, closing, panicked>>
  BY DEF Stop
<1>2. TypeOK'
  BY <1>1 DEF Inv, TypeOK
<1>3. OrderInv'
  BY <1>1 DEF Inv, OrderInv, TypeOK
<1>4. ASSUME NEW l \in Listeners, pc[l] # "off"
      PROVE  Awaits(l) /\ Awaits(l)'
  BY <1>1, <1>4 DEF Inv, OrderInv, Awaits
<1>5. MarkedInv'
  BY <1>1, <1>4 DEF Inv, MarkedInv, Listeners
<1>6. FieldInv'
  BY <1>1, <1>4 DEF Inv, FieldInv
<1>7. SettledInv'
  BY <1>1, <1>4 DEF Inv, SettledInv
<1> QED
  BY <1>2, <1>3, <1>5, <1>6, <1>7 DEF Inv

\* The listener StopAll has got to.
LEMMA NextToStop ==
    ASSUME TypeOK, OrderInv, toStop # <<>>
    PROVE  /\ Head(toStop) \in Listeners /\ Head(toStop) \in Range(toStop)
           /\ Tail(toStop) \in Seq(Listeners)
           /\ IsInjective(Tail(toStop)) /\ Range(Tail(toStop)) = Range(toStop) \ {Head(toStop)}
<1>1. toStop \in Seq(Listeners) /\ IsInjective(toStop)
  BY DEF TypeOK, OrderInv
<1>2. Head(toStop) \in Listeners /\ Tail(toStop) \in Seq(Listeners)
  BY <1>1, HeadTailProperties
<1>3. Head(toStop) \in Range(toStop)
  BY <1>1, EmptySeq, LenProperties DEF Range
<1> QED
  BY <1>1, <1>2, <1>3, TailOfInjective

LEMMA ShutdownInv ==
    ASSUME Inv, Shutdown
    PROVE  Inv'
<1> DEFINE l == Head(toStop)
<1>1. /\ ~panicked /\ driver = "stopping" /\ toStop # <<>> /\ l \in Https \ closing
      /\ closing' = closing \cup {l}
      /\ pc' = IF pc[l] = "serving" THEN [pc EXCEPT ![l] = "ended"] ELSE pc
      /\ UNCHANGED <<servers, field, driver, toStop, settled, panicked>>
  BY DEF Shutdown
<1>2. TypeOK /\ OrderInv /\ MarkedInv /\ FieldInv /\ SettledInv
  BY DEF Inv
<1> HIDE DEF l
<1>3. \A k \in Listeners : Awaits(k)' <=> Awaits(k)
  BY <1>1 DEF Awaits
<1>4. \A k \in Listeners : pc'[k] = IF k = l /\ pc[l] = "serving" THEN "ended" ELSE pc[k]
  BY <1>1, <1>2 DEF TypeOK
<1>5. TypeOK'
  BY <1>1, <1>2 DEF TypeOK, Stages
<1>6. OrderInv'
  BY <1>1, <1>2, <1>4 DEF OrderInv
<1>7. MarkedInv'
  BY <1>1, <1>2, <1>3, <1>4 DEF MarkedInv, Listeners
<1>8. FieldInv'
  BY <1>1, <1>2, <1>3, <1>4 DEF FieldInv
<1>9. SettledInv'
  BY <1>1, <1>2, <1>3, <1>4 DEF SettledInv
<1> QED
  BY <1>5, <1>6, <1>7, <1>8, <1>9 DEF Inv

LEMMA StopNextInv ==
    ASSUME Inv, StopNext
    PROVE  Inv'
<1> DEFINE l == Head(toStop)
<1>1. /\ ~panicked /\ driver = "stopping" /\ toStop # <<>> /\ toStop' = Tail(toStop)
      /\ UNCHANGED <<servers, closing, driver, settled, panicked>>
  BY DEF StopNext
<1>2. \/ l \in closing /\ UNCHANGED <<pc, field>>
      \/ /\ l \notin Https
         /\ pc' = IF pc[l] = "serving" /\ field[l] = "set" THEN [pc EXCEPT ![l] = "ended"] ELSE pc
         /\ field' = [field EXCEPT ![l] = "nil"]
  BY DEF StopNext
<1>3. TypeOK /\ OrderInv /\ MarkedInv /\ FieldInv /\ SettledInv
  BY DEF Inv
<1>4. l \in Listeners /\ l \in Range(toStop) /\ toStop' \in Seq(Listeners)
      /\ IsInjective(toStop') /\ Range(toStop') = Range(toStop) \ {l}
  BY <1>1, <1>3, NextToStop
<1> HIDE DEF l
<1>5. \A k \in Listeners : Awaits(k)' <=> Awaits(k) /\ k # l
  BY <1>1, <1>4 DEF Awaits
<1>6. Awaits(l)
  BY <1>4 DEF Awaits
<1>7. \A k \in Listeners : pc'[k] = IF k = l /\ pc[l] = "serving" THEN "ended" ELSE pc[k]
  BY <1>2, <1>3, <1>4, <1>6 DEF FieldInv, MarkedInv, TypeOK
<1>8. \A k \in Listeners : k # l \/ k \in Https => field'[k] = field[k]
  BY <1>2, <1>3 DEF TypeOK
<1>9. TypeOK'
  BY <1>1, <1>2, <1>3, <1>4 DEF TypeOK, Stages
<1>10. OrderInv'
  BY <1>1, <1>3, <1>4, <1>7 DEF OrderInv
<1>11. MarkedInv'
  BY <1>1, <1>2, <1>3, <1>4, <1>5, <1>7, <1>8 DEF MarkedInv, Listeners, TypeOK
<1>12. FieldInv'
  BY <1>1, <1>3, <1>4, <1>5, <1>7, <1>8 DEF FieldInv
<1>13. SettledInv'
  BY <1>1, <1>3, <1>5, <1>7 DEF SettledInv
<1> QED
  BY <1>9, <1>10, <1>11, <1>12, <1>13 DEF Inv

LEMMA StoppedInv ==
    ASSUME Inv, Stopped
    PROVE  Inv'
<1>1. driver = "stopping" /\ driver' = "stopped" /\ toStop = <<>>
      /\ UNCHANGED <<servers, pc, field, closing, toStop, settled, panicked>>
  BY DEF Stopped
<1>2. \A l \in Listeners : Awaits(l)' <=> Awaits(l)
  BY <1>1 DEF Awaits
<1>3. TypeOK' /\ OrderInv'
  BY <1>1 DEF Inv, TypeOK, OrderInv
<1>4. MarkedInv' /\ FieldInv' /\ SettledInv'
  BY <1>1, <1>2 DEF Inv, MarkedInv, FieldInv, SettledInv, Listeners
<1> QED
  BY <1>3, <1>4 DEF Inv

LEMMA StepInv == Inv /\ [Next]_vars => Inv'
<1> SUFFICES ASSUME Inv, [Next]_vars
             PROVE  Inv'
  OBVIOUS
<1>1. CASE UNCHANGED vars
  BY <1>1 DEF vars, Inv, TypeOK, OrderInv, MarkedInv, FieldInv, SettledInv, Awaits
<1> QED
  BY <1>1, StartInv, SpawnInv, StopInv, ShutdownInv, StopNextInv, StoppedInv DEF Next

THEOREM Inductive == Spec => []Inv
BY InitInv, StepInv, PTL DEF Spec

-----------------------------------------------------------------------------
\* Every listener is at a stage of its own Start, and rc.Servers repeats none.
THEOREM TypeCorrect == Spec => []TypeOK
<1>1. Inv => TypeOK
  BY DEF Inv
<1> QED
  BY <1>1, Inductive, PTL

\* Whatever the order of the Starts and the Stop, no HTTP server serves once
\* Stop has returned.
THEOREM HttpServersStop == Spec => []HttpStops
<1>1. Inv => HttpStops
  <2> SUFFICES ASSUME Inv, driver = "stopped", NEW l \in Https
               PROVE  pc[l] # "serving"
    BY DEF HttpStops
  <2>1. toStop = <<>>
    BY DEF Inv, OrderInv
  <2>2. ~Awaits(l)
    BY <2>1 DEF Awaits, Range
  <2> QED
    BY <2>2 DEF Inv, MarkedInv
<1> QED
  BY <1>1, Inductive, PTL

\* A Stop that finds every Start serving or over stops all the listeners, and
\* nothing panics.
THEOREM SettledStops == Spec => []SettledStop
<1>1. Inv => SettledStop
  <2> SUFFICES ASSUME Inv, settled
               PROVE  /\ ~panicked
                      /\ driver = "stopped" => \A l \in Listeners : pc[l] # "serving"
    BY DEF SettledStop
  <2>1. driver = "stopped" => \A l \in Listeners : ~Awaits(l)
    BY DEF Inv, OrderInv, Awaits, Range
  <2> QED
    BY <2>1 DEF Inv, SettledInv
<1> QED
  BY <1>1, Inductive, PTL

\* A call through a cleared field is the race of a Start with StopAll and nothing
\* else: until Stop is called no listener's goroutine takes the process down.
THEOREM OnlyStopPanics ==
    Spec => [][panicked' # panicked => driver \in {"stopping", "stopped"}]_vars
<1>1. Inv /\ [Next]_vars
        => (panicked' # panicked => driver \in {"stopping", "stopped"})
  <2> SUFFICES ASSUME Inv, [Next]_vars, panicked' # panicked
               PROVE  driver \in {"stopping", "stopped"}
    OBVIOUS
  <2>1. PICK l \in Listeners : StartStep(l)
    BY DEF vars, Next, Start, Stop, Shutdown, StopNext, Stopped
  <2>2. panicked'
    <3>1. ~panicked /\ panicked' \in BOOLEAN
      BY <2>1, StepInv DEF StartStep, Inv, TypeOK
    <3>2. panicked \in BOOLEAN
      BY DEF Inv, TypeOK
    <3> QED
      BY <3>1, <3>2
  <2>3. field[l] = "nil" /\ pc[l] # "spawned" /\ pc[l] \in UnderWay
    BY <2>1, <2>2, StartEffect DEF Inv
  <2>4. ~Awaits(l)
    BY <2>3 DEF Inv, FieldInv, UnderWay
  <2> QED
    BY <2>4 DEF Inv, TypeOK, Awaits
<1> QED
  BY <1>1, Inductive, PTL DEF Spec

=============================================================================

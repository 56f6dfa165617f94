---------------------------- MODULE IngestProofs ----------------------------
(***************************************************************************)
(* Proofs about Ingest: its types, and that the two channels with the      *)
(* goroutine between them implement the bounded queue of Bridge, for       *)
(* channels of any capacity, any devices and any number of events.         *)
(***************************************************************************)
EXTENDS Ingest, SequencesExt, SequenceTheorems, TLAPS

-----------------------------------------------------------------------------
\* The types are inductive.

LEMMA InitTyped == Init => TypeOK
BY IngestAssumption DEF Init, TypeOK, Stages, Registrable, DeviceNames

\* The event the consumer holds.
LEMMA Held ==
    ASSUME TypeOK, stage \notin {"select", "exited"}
    PROVE  /\ hand[1] \in Events
           /\ hand = <<hand[1]>>
BY DEF TypeOK

\* What a listener pushes is an event.
LEMMA PushTyped ==
    ASSUME TypeOK, NEW from \in Origins, NEW payload \in Payloads,
           Push(from, payload)
    PROVE  TypeOK'
<1> DEFINE e == [id |-> accepted + 1, from |-> from, payload |-> payload]
<1>1. e \in Events
  BY IngestAssumption, SMTT(30) DEF Push, TypeOK, Events
<1>2. received' \in Seq(Events) /\ Len(received') <= QueueCap
  BY <1>1, IngestAssumption DEF Push, TypeOK
<1>3. accepted' \in 0 .. MaxEvents
  BY IngestAssumption DEF Push, TypeOK
<1> QED
  BY <1>2, <1>3 DEF Push, TypeOK

\* A name that is looked up is that of a device that may be registered.
LEMMA FoundNamed ==
    ASSUME TypeOK, NEW e \in Events, ~Undecodable(e), NEW found \in LookUps(e)
    PROVE  found[1] \in DeviceNames
<1>1. e.from[2] \in MqttDevices \cup SourceAddrs
  BY DEF Events, Origins, Http, Undecodable
<1>2. Matches(e) \subseteq Registrable
  BY DEF Matches, TypeOK
<1>3. \A d \in Matches(e) : d.name \in DeviceNames
  BY <1>2 DEF Registrable
<1>4. CASE Matches(e) # {}
  <2>1. PICK d \in Matches(e) : found[1] = d.name
    BY <1>4 DEF LookUps
  <2> QED
    BY <1>3, <2>1
<1>5. CASE Matches(e) = {}
  BY <1>1, <1>5 DEF LookUps, DeviceNames
<1> QED
  BY <1>4, <1>5

LEMMA ConsumerTyped ==
    ASSUME TypeOK, Consumer
    PROVE  TypeOK'
<1>1. CASE ExitOnDone
  BY <1>1 DEF ExitOnDone, TypeOK, Stages
<1>2. CASE Receive
  <2>1. Head(received) \in Events /\ Tail(received) \in Seq(Events)
        /\ Len(Tail(received)) = Len(received) - 1
    BY <1>2, HeadTailProperties DEF Receive, TypeOK
  <2>2. Len(received') <= QueueCap
    BY <2>1, <1>2, IngestAssumption DEF Receive, TypeOK
  <2> QED
    BY <1>2, <2>1, <2>2 DEF Receive, TypeOK, Stages
<1>3. CASE Decode
  <2>1. hand[1] \in Events
    BY <1>3, Held DEF Decode
  <2>2. CASE GiveUp
    BY <1>3, <2>2 DEF Decode, GiveUp, TypeOK, Stages
  <2>3. CASE stage' = "send" /\ UNCHANGED <<hand, target>>
    BY <1>3, <2>3 DEF Decode, TypeOK, Stages
  <2>4. ASSUME ~Undecodable(hand[1]), NEW found \in LookUps(hand[1]),
               stage' = "announce", target' = <<found[1]>>, UNCHANGED hand
        PROVE  TypeOK'
    <3>1. found[1] \in DeviceNames
      BY <2>1, <2>4, FoundNamed
    <3> QED
      BY <1>3, <2>4, <3>1 DEF Decode, TypeOK, Stages
  <2> QED
    BY <1>3, <2>2, <2>3, <2>4 DEF Decode
<1>4. CASE EnsureDevice
  <2>1. target[1] \in DeviceNames
    BY <1>4 DEF EnsureDevice, TypeOK
  <2>2. {NewDevice(target[1])} \in SUBSET Registrable
    BY <2>1 DEF NewDevice, Registrable
  <2>3. announced' \in Seq(SUBSET Registrable) /\ Len(announced') <= DeviceCap
    BY <1>4, <2>2, IngestAssumption DEF EnsureDevice, TypeOK
  <2> QED
    BY <1>4, <2>3 DEF EnsureDevice, TypeOK, Stages
<1>5. CASE Send
  <2>1. hand[1] \in Events
    BY <1>5, Held DEF Send
  <2>2. async' \in Seq(Events) /\ Len(async') <= AsyncCap
    BY <1>5, <2>1, IngestAssumption DEF Send, TypeOK
  <2> QED
    BY <1>5, <2>2 DEF Send, TypeOK, Stages
<1> QED
  BY <1>1, <1>2, <1>3, <1>4, <1>5 DEF Consumer

\* Discovery and the SDK.
LEMMA OutsideTyped ==
    ASSUME TypeOK,
           StartDiscovery \/ Discover \/ TakeAsync \/ TakeDevice \/ SdkShutdown \/ Stop
    PROVE  TypeOK'
<1>1. CASE StartDiscovery
  BY <1>1 DEF StartDiscovery, TypeOK
<1>2. CASE Discover
  <2>1. Found \in SUBSET Registrable
    BY IngestAssumption DEF Registrable, DeviceNames
  <2>2. announced' \in Seq(SUBSET Registrable) /\ Len(announced') <= DeviceCap
    BY <1>2, <2>1, IngestAssumption DEF Discover, TypeOK
  <2> QED
    BY <1>2, <2>2 DEF Discover, TypeOK
<1>3. CASE TakeAsync
  <2>1. Head(async) \in Events /\ Tail(async) \in Seq(Events)
        /\ Len(Tail(async)) = Len(async) - 1
    BY <1>3, HeadTailProperties DEF TakeAsync, TypeOK
  <2>2. Len(async') <= AsyncCap /\ delivered' \in Seq(Events)
    BY <2>1, <1>3, IngestAssumption DEF TakeAsync, TypeOK
  <2> QED
    BY <1>3, <2>1, <2>2 DEF TakeAsync, TypeOK
<1>4. CASE TakeDevice
  <2>1. Head(announced) \in SUBSET Registrable /\ Tail(announced) \in Seq(SUBSET Registrable)
        /\ Len(Tail(announced)) = Len(announced) - 1
    BY <1>4, HeadTailProperties DEF TakeDevice, TypeOK
  <2>2. Len(announced') <= DeviceCap
    BY <2>1, <1>4, IngestAssumption DEF TakeDevice, TypeOK
  <2>3. registry' \subseteq Registrable
    BY <2>1, <1>4 DEF TakeDevice, TypeOK
  <2> QED
    BY <1>4, <2>1, <2>2, <2>3 DEF TakeDevice, TypeOK
<1>5. CASE SdkShutdown
  BY <1>5 DEF SdkShutdown, TypeOK
<1>6. CASE Stop
  BY <1>6 DEF Stop, TypeOK
<1> QED
  BY <1>1, <1>2, <1>3, <1>4, <1>5, <1>6

LEMMA ListenerPushes ==
    ASSUME HandlePush \/ OnPublish \/ OnTrap
    PROVE  \E from \in Origins, payload \in Payloads : Push(from, payload)
BY DEF HandlePush, OnPublish, OnTrap, Origins, Http

LEMMA StepTyped == TypeOK /\ [Next]_vars => TypeOK'
<1> SUFFICES ASSUME TypeOK, [Next]_vars
             PROVE  TypeOK'
  OBVIOUS
<1>1. CASE HandlePush \/ OnPublish \/ OnTrap
  BY <1>1, ListenerPushes, PushTyped
<1>2. CASE Consumer
  BY <1>2, ConsumerTyped
<1>3. CASE StartDiscovery \/ Discover \/ TakeAsync \/ TakeDevice \/ SdkShutdown \/ Stop
  BY <1>3, OutsideTyped
<1>4. CASE UNCHANGED vars
  BY <1>4 DEF vars, TypeOK
<1> QED
  BY <1>1, <1>2, <1>3, <1>4 DEF Next

\* No channel holds more than its capacity and everything that moves through
\* them is an event, or a set of devices that have names.
THEOREM TypeCorrect == Spec => []TypeOK
<1>1. Spec => [](TypeOK)
  BY InitTyped, StepTyped, PTL DEF Spec
<1> QED
  BY <1>1, PTL

-----------------------------------------------------------------------------
\* The refinement of Bridge.

\* The head of a concatenation is that of its first part.
LEMMA HeadOfConcat ==
    ASSUME NEW S, NEW s \in Seq(S), NEW t \in Seq(S), s # <<>>
    PROVE  /\ s \o t # <<>>
           /\ Head(s \o t) = Head(s)
           /\ Tail(s \o t) = Tail(s) \o t
OBVIOUS

LEMMA HeadAndTail ==
    ASSUME NEW S, NEW s \in Seq(S), s # <<>>
    PROVE  s = <<Head(s)>> \o Tail(s)
OBVIOUS

\* Removing what stands between two sequences.
LEMMA RemoveBetween ==
    ASSUME NEW S, NEW s \in Seq(S), NEW e \in S, NEW t \in Seq(S)
    PROVE  /\ Len(s) + 1 \in DOMAIN (s \o <<e>> \o t)
           /\ (s \o <<e>> \o t)[Len(s) + 1] = e
           /\ RemoveAt(s \o <<e>> \o t, Len(s) + 1) = s \o t
<1> DEFINE whole == s \o <<e>> \o t
           i == Len(s) + 1
<1>1. <<e>> \in Seq(S) /\ s \o <<e>> \in Seq(S) /\ <<e>> \o t \in Seq(S) /\ Len(<<e>>) = 1
  OBVIOUS
<1>2. whole \in Seq(S) /\ Len(whole) = Len(s) + 1 + Len(t) /\ Len(s) \in Nat /\ Len(t) \in Nat
  BY <1>1, ConcatProperties, LenProperties
<1>3. \A k \in 1 .. Len(whole) :
        whole[k] = IF k <= Len(s) THEN s[k] ELSE IF k = i THEN e ELSE t[k - i]
  BY <1>1, <1>2, ConcatProperties
<1>4. i \in DOMAIN whole /\ whole[i] = e
  BY <1>2, <1>3, LenProperties
<1> HIDE DEF whole
<1>5. SubSeq(whole, 1, i - 1) = s
  <2>1. \A k \in 1 .. Len(s) : whole[k] = s[k] /\ whole[k] \in S
    BY <1>2, <1>3, ElementOfSeq
  <2> DEFINE left == SubSeq(whole, 1, Len(s))
  <2>2. left \in Seq(S) /\ Len(left) = Len(s) /\ \A k \in 1 .. Len(s) : left[k] = whole[k]
    BY <2>1, <1>2
  <2> QED
    BY <2>1, <2>2, <1>2, SeqEqual
<1>6. SubSeq(whole, i + 1, Len(whole)) = t
  <2>1. ASSUME NEW k \in 1 .. Len(t)
        PROVE  whole[i + k] = t[k] /\ t[k] \in S
    <3>1. i + k \in 1 .. Len(whole) /\ ~(i + k <= Len(s)) /\ i + k # i /\ (i + k) - i = k
      BY <1>2
    <3> QED
      BY <3>1, <1>3, ElementOfSeq
  <2> DEFINE right == SubSeq(whole, i + 1, Len(whole))
  <2>2. right \in Seq(S) /\ Len(right) = Len(t)
        /\ \A k \in 1 .. Len(t) : right[k] = whole[i + k]
    BY <2>1, <1>2
  <2> QED
    BY <2>1, <2>2, <1>2, SeqEqual
<1> QED
  BY <1>4, <1>5, <1>6 DEF RemoveAt, whole

LEMMA InitImplements == Init => AbstractBridge!Init
BY DEF Init, AbstractBridge!Init, InTransit

\* What the three places hold, in one order or the other.
LEMMA Path ==
    ASSUME TypeOK
    PROVE  /\ async \in Seq(Events) /\ hand \in Seq(Events) /\ received \in Seq(Events)
           /\ InTransit \in Seq(Events)
           /\ InTransit = async \o (hand \o received)
           /\ InTransit = async \o hand \o received
           /\ Len(InTransit) = Len(async) + Len(hand) + Len(received)
           /\ Len(hand) <= 1
<1>1. async \in Seq(Events) /\ received \in Seq(Events)
  BY DEF TypeOK
<1>2. hand \in Seq(Events) /\ Len(hand) <= 1
  <2>1. CASE hand = <<>>
    BY <2>1
  <2>2. CASE hand # <<>>
    <3>1. PICK e \in Events : hand = <<e>>
      BY <2>2 DEF TypeOK
    <3> QED
      BY <3>1
  <2> QED
    BY <2>1, <2>2
<1>3. /\ async \o hand \o received = async \o (hand \o received)
      /\ Len(async \o hand \o received) = Len(async) + Len(hand) + Len(received)
      /\ async \o hand \o received \in Seq(Events)
  <2>1. async \o hand \in Seq(Events) /\ Len(async \o hand) = Len(async) + Len(hand)
    BY <1>1, <1>2, ConcatProperties
  <2>2. /\ (async \o hand) \o received \in Seq(Events)
        /\ Len((async \o hand) \o received) = Len(async \o hand) + Len(received)
    BY <1>1, <2>1, ConcatProperties
  <2>3. (async \o hand) \o received = async \o (hand \o received)
    BY <1>1, <1>2, ConcatAssociative, SMTT(30)
  <2> QED
    BY <2>1, <2>2, <2>3
<1> QED
  BY <1>1, <1>2, <1>3 DEF InTransit

\* A listener's send accepts: there is room for the event in the whole path.
LEMMA PushAccepts ==
    ASSUME TypeOK, NEW from \in Origins, NEW payload \in Payloads, Push(from, payload)
    PROVE  \E e \in Events : AbstractBridge!Accept(e)
<1> DEFINE e == [id |-> accepted + 1, from |-> from, payload |-> payload]
<1>1. e \in Events
  BY IngestAssumption, SMTT(30) DEF Push, TypeOK, Events
<1>2. Len(InTransit) < QueueCap + 1 + AsyncCap
  <2>1. Len(received) < QueueCap /\ Len(async) <= AsyncCap /\ Len(hand) <= 1
    <3>1. Len(received) < QueueCap
      BY DEF Push
    <3>2. Len(async) <= AsyncCap
      BY DEF TypeOK
    <3>3. Len(hand) <= 1
      BY Path
    <3> QED
      BY <3>1, <3>2, <3>3
  <2>2. Len(received) \in Nat /\ Len(async) \in Nat /\ Len(hand) \in Nat
    BY Path, LenProperties
  <2>3. Len(InTransit) = Len(async) + Len(hand) + Len(received)
    BY Path
  <2>4. QueueCap \in Nat /\ AsyncCap \in Nat
    BY IngestAssumption
  <2> QED
    BY <2>1, <2>2, <2>3, <2>4
<1>3. received' = received \o <<e>> /\ <<e>> \in Seq(Events) /\ async' = async /\ hand' = hand
      /\ delivered' = delivered
  BY <1>1, AppendIsConcat DEF Push, TypeOK
<1>4. InTransit' = InTransit \o <<e>>
  <2>1. async \o hand \in Seq(Events)
    BY Path, ConcatProperties
  <2>2. received \in Seq(Events)
    BY Path
  <2>3. (async \o hand \o received) \o <<e>> = async \o hand \o (received \o <<e>>)
    <3> HIDE DEF e
    <3> QED
      BY <1>3, <2>1, <2>2, ConcatAssociative, SMTT(30)
  <2>4. InTransit' = async \o hand \o (received \o <<e>>)
    BY <1>3 DEF InTransit
  <2> HIDE DEF e
  <2> QED
    BY <2>3, <2>4 DEF InTransit
<1>5. InTransit' = Append(InTransit, e)
  BY <1>1, <1>4, Path, AppendIsConcat
<1> QED
  BY <1>1, <1>2, <1>3, <1>5 DEF AbstractBridge!Accept

\* An event the consumer gives up is one that cannot be forwarded.
LEMMA DecodeLeavesOut ==
    ASSUME TypeOK, Decode
    PROVE  \/ \E i \in DOMAIN InTransit : AbstractBridge!LeaveOut(i)
           \/ UNCHANGED <<InTransit, delivered>>
<1> DEFINE e == hand[1]
<1>1. e \in Events /\ hand = <<e>>
  BY Held DEF Decode
<1>2. CASE GiveUp
  <2>1. hand' = <<>> /\ async' = async /\ received' = received /\ delivered' = delivered
    BY <1>2 DEF Decode, GiveUp
  <2>2. ~CanForward(e)
    <3>1. stage' = "select"
      BY <1>2 DEF GiveUp
    <3> QED
      BY <3>1 DEF Decode, CanForward
  <2>3. InTransit = async \o <<e>> \o received
    BY <1>1, Path
  <2>4. InTransit' = async \o received
    BY <2>1, Path, ConcatEmptySeq DEF InTransit
  <2> DEFINE i == Len(async) + 1
  <2>5. i \in DOMAIN InTransit /\ InTransit[i] = e /\ InTransit' = RemoveAt(InTransit, i)
    <3>1. async \in Seq(Events) /\ received \in Seq(Events)
      BY Path
    <3>2. /\ i \in DOMAIN (async \o <<e>> \o received)
          /\ (async \o <<e>> \o received)[i] = e
          /\ RemoveAt(async \o <<e>> \o received, i) = async \o received
      <4>1. e \in Events
        BY <1>1
      <4> HIDE DEF e
      <4> QED
        BY <3>1, <4>1, RemoveBetween, Zenon
    <3>3. InTransit' = RemoveAt(async \o <<e>> \o received, i)
      BY <2>4, <3>2
    <3> HIDE DEF i
    <3> QED
      BY <2>3, <3>2, <3>3
  <2>6. InTransit' = AbstractBridge!RemoveAt(InTransit, i)
    BY <2>5 DEF AbstractBridge!RemoveAt, RemoveAt
  <2>7. AbstractBridge!LeaveOut(i)
    BY <2>1, <2>2, <2>5, <2>6 DEF AbstractBridge!LeaveOut
  <2> QED
    BY <2>5, <2>7
<1>3. CASE ~GiveUp
  BY <1>3 DEF Decode, InTransit
<1> QED
  BY <1>2, <1>3

\* Taking an event from receivedData and handing it to asyncCh move it along.
LEMMA MovesAlong ==
    ASSUME TypeOK, Receive \/ Send
    PROVE  UNCHANGED <<InTransit, delivered>>
<1>1. CASE Receive
  <2>1. hand = <<>> /\ hand' = <<Head(received)>> /\ received' = Tail(received) /\ async' = async
        /\ received # <<>> /\ delivered' = delivered
    BY <1>1 DEF Receive, TypeOK
  <2>2. hand' \o received' = received
    BY <2>1, HeadAndTail, Path
  <2>3. hand' \in Seq(Events) /\ received' \in Seq(Events)
    BY <2>1, Path, HeadTailProperties
  <2>4. async \in Seq(Events)
    BY Path
  <2>5. async \o hand' \o received' = async \o (hand' \o received')
    BY <2>3, <2>4, ConcatAssociative, SMTT(30)
  <2>6. InTransit' = async \o hand' \o received'
    BY <2>1 DEF InTransit
  <2>7. InTransit' = async \o received
    BY <2>2, <2>5, <2>6
  <2> QED
    BY <2>1, <2>7, Path, ConcatEmptySeq
<1>2. CASE Send
  <2>1. hand[1] \in Events /\ hand = <<hand[1]>>
    BY <1>2, Held DEF Send
  <2>2. async' = async \o hand /\ hand' = <<>> /\ received' = received
        /\ delivered' = delivered
    BY <1>2, <2>1, Path, AppendIsConcat DEF Send
  <2>3. async \o hand \in Seq(Events)
    BY Path, ConcatProperties
  <2> QED
    BY <2>2, <2>3, ConcatEmptySeq DEF InTransit
<1> QED
  BY <1>1, <1>2

\* The SDK takes the oldest.
LEMMA TakeDelivers ==
    ASSUME TypeOK, TakeAsync
    PROVE  AbstractBridge!Deliver
<1>1. async # <<>> /\ async' = Tail(async) /\ hand' = hand /\ received' = received
      /\ delivered' = Append(delivered, Head(async))
  BY DEF TakeAsync
<1>2. hand \o received \in Seq(Events)
  BY Path, ConcatProperties
<1>3. InTransit # <<>> /\ Head(InTransit) = Head(async)
      /\ Tail(InTransit) = Tail(async) \o (hand \o received)
  <2>1. async \in Seq(Events) /\ InTransit = async \o (hand \o received)
    BY Path
  <2> QED
    BY <1>1, <1>2, <2>1, HeadOfConcat
<1>4. InTransit' = Tail(InTransit)
  <2>1. Tail(async) \in Seq(Events) /\ hand \in Seq(Events) /\ received \in Seq(Events)
    BY <1>1, Path, HeadTailProperties
  <2>2. Tail(async) \o hand \o received = Tail(async) \o (hand \o received)
    BY <2>1, ConcatAssociative, SMTT(30)
  <2> QED
    BY <1>1, <1>3, <2>2 DEF InTransit
<1> QED
  BY <1>1, <1>3, <1>4 DEF AbstractBridge!Deliver

LEMMA StepImplements == TypeOK /\ [Next]_vars => [AbstractBridge!Next]_(AbstractBridge!vars)
<1> SUFFICES ASSUME TypeOK, [Next]_vars
             PROVE  AbstractBridge!Next \/ UNCHANGED <<InTransit, delivered>>
  BY DEF AbstractBridge!vars
<1>1. CASE HandlePush \/ OnPublish \/ OnTrap
  BY <1>1, ListenerPushes, PushAccepts DEF AbstractBridge!Next
<1>2. CASE Decode
  BY <1>2, DecodeLeavesOut DEF AbstractBridge!Next
<1>3. CASE Receive \/ Send
  BY <1>3, MovesAlong
<1>4. CASE TakeAsync
  BY <1>4, TakeDelivers DEF AbstractBridge!Next
<1>5. CASE ExitOnDone \/ EnsureDevice \/ StartDiscovery \/ Discover \/ TakeDevice
           \/ SdkShutdown \/ Stop
  BY <1>5 DEF ExitOnDone, EnsureDevice, StartDiscovery, Discover, TakeDevice, SdkShutdown, Stop,
              InTransit
<1>6. CASE UNCHANGED vars
  BY <1>6 DEF vars, InTransit
<1> QED
  BY <1>1, <1>2, <1>3, <1>4, <1>5, <1>6 DEF Next, Consumer

\* Accepted events come out in the order of acceptance, once, and none that can
\* be forwarded is left out, whatever the capacities of the two channels.
THEOREM RefinesBridge == Spec => ImplementsBridge
BY TypeCorrect, InitImplements, StepImplements, PTL
   DEF Spec, ImplementsBridge, AbstractBridge!Spec

=============================================================================

--------------------------- MODULE ExchangeProofs ---------------------------
(***************************************************************************)
(* Theorems about the requests of commands for any number of commands,     *)
(* addresses and points, and of times SNMP sends.                          *)
(***************************************************************************)
EXTENDS Exchange, WellFoundedInduction, TLAPS

-----------------------------------------------------------------------------
(* Points and parts.                                                         *)

\* A nonempty set of positions has a last one.
LEMMA LastPosition ==
  ASSUME NEW n \in Nat, NEW S \in SUBSET (1 .. n), S # {}
  PROVE  \E x \in S : \A y \in S : y <= x
<1> DEFINE R == {ss \in Nat \X Nat : ss[1] < ss[2]}
           T == {n - x : x \in S}
<1>1. IsWellFoundedOn(R, Nat)
  BY NatLessThanWellFounded DEF OpToRel
<1>2. T \subseteq Nat /\ T # {}
  <2>1. \A x \in S : n - x \in Nat
    OBVIOUS
  <2> QED
    BY <2>1
<1>3. PICK m \in T : \A k \in T : <<k, m>> \notin R
  <2> HIDE DEF R, T
  <2> QED
    BY <1>1, <1>2, WFMin
<1>4. PICK x \in S : m = n - x
  BY <1>3
<1>5. ASSUME NEW y \in S PROVE y <= x
  <2>1. <<n - y, m>> \notin R
    BY <1>3
  <2>2. ~ (n - y < m)
    BY <2>1, <1>2, <1>3
  <2> QED
    BY <2>2, <1>4
<1> QED
  BY <1>5

LEMMA BatchOf ==
  ASSUME NEW s \in Batches
  PROVE  /\ s \in Seq(Points) /\ Len(s) \in Nat \ {0}
         /\ DOMAIN s = 1 .. Len(s)
         /\ \A i \in DOMAIN s : s[i] \in Points
<1>1. s \in Seq(Points) /\ s # <<>>
  BY ExchangeAssumption
<1> QED
  BY <1>1

LEMMA PointsOf ==
  ASSUME TypeOK, NEW c \in Commands
  PROVE  /\ points[c] \in Seq(Points) /\ Len(points[c]) \in Nat \ {0}
         /\ DOMAIN points[c] = 1 .. Len(points[c])
         /\ \A i \in DOMAIN points[c] : points[c][i] \in Points
<1>1. points[c] \in Batches
  BY DEF TypeOK
<1> QED
  BY <1>1, BatchOf

\* What is found of the points a request is for, and that every point whose OID
\* is written with the dot has one with its address among them.
LEMMA AssignedPart ==
  ASSUME TypeOK, NEW c \in Commands, NEW k \in DOMAIN points[c]
  PROVE  /\ Part(c, k) \subseteq DOMAIN points[c]
         /\ Assigned(c, k) \subseteq Part(c, k)
         /\ ~ (adapter = "snmp" /\ Len(points[c]) > 1) => Assigned(c, k) = Part(c, k)
BY DEF Part, Assigned

LEMMA AssignedFinds ==
  ASSUME TypeOK, NEW c \in Commands, NEW k \in DOMAIN points[c], NEW i \in Part(c, k),
         adapter = "snmp" /\ Len(points[c]) > 1 => points[c][i].dotted
  PROVE  \E j \in Assigned(c, k) : points[c][j].address = points[c][i].address
<1>1. CASE ~ (adapter = "snmp" /\ Len(points[c]) > 1)
  BY <1>1, AssignedPart
<1>2. CASE adapter = "snmp" /\ Len(points[c]) > 1
  <2> DEFINE S == {j \in Part(c, k) : points[c][j].dotted /\ points[c][j].address = points[c][i].address}
  <2>1. S \in SUBSET (1 .. Len(points[c])) /\ Len(points[c]) \in Nat /\ i \in S
    BY <1>2, PointsOf, AssignedPart
  <2>2. PICK j \in S : \A y \in S : y <= j
    <3> HIDE DEF S
    <3> QED
      BY <2>1, LastPosition
  <2>3. \A y \in S : ~ (y > j)
    BY <2>1, <2>2
  <2>4. j \in Assigned(c, k)
    BY <1>2, <2>2, <2>3 DEF Assigned
  <2> QED
    BY <2>2, <2>4
<1> QED
  BY <1>1, <1>2

-----------------------------------------------------------------------------
(* Type correctness.                                                         *)

LEMMA InitTypeOK == Init => TypeOK /\ PlaceInv
<1> SUFFICES ASSUME Init PROVE TypeOK /\ PlaceInv
  OBVIOUS
<1>1. ASSUME NEW c \in Commands
      PROVE  Len(points[c]) \in Nat \ {0} /\ DOMAIN points[c] = 1 .. Len(points[c])
  <2>1. points[c] \in Batches
    BY DEF Init
  <2> QED
    BY <2>1, BatchOf
<1>2. PlaceInv
  <2> SUFFICES ASSUME NEW c \in Commands
               PROVE  next[c] \in DOMAIN points[c] /\ stage[c] # "waiting"
    BY DEF PlaceInv
  <2>1. stage[c] = "new" /\ next[c] = 1
    BY DEF Init
  <2> QED
    BY <1>1, <2>1
<1>3. TypeOK
  BY <1>1, ExchangeAssumption DEF Init, TypeOK, Stored, Nothing
<1> QED
  BY <1>2, <1>3

\* What every step leaves alone.
LEMMA Fixed == [Next]_vars => UNCHANGED <<adapter, op, points>>
BY DEF Next, Step, Begin, Refuse, Send, Resend, TimeOut, Receive, Carry, Reject, vars

LEMMA EndAsType ==
  ASSUME TypeOK, NEW c \in Commands, NEW result \in {"ready"} \cup Over, EndAs(c, result)
  PROVE  /\ stage' = [stage EXCEPT ![c] = result]
         /\ stage' \in [Commands -> {"new", "ready", "waiting"} \cup Over]
         /\ lock' \in Commands \cup {NoCommand}
         /\ answers' \subseteq answers
BY DEF EndAs, TypeOK

\* What an answer may bring.
Brought == [Addresses -> Readings] \cup {Nothing}

\* It has values of addresses, or nothing.
LEMMA BroughtValues ==
  ASSUME NEW v \in Brought
  PROVE  /\ DOMAIN v \subseteq Addresses
         /\ \A x \in DOMAIN v : v[x] \in Readings
<1>1. CASE v = Nothing
  <2>1. DOMAIN v = {}
    BY <1>1 DEF Nothing
  <2> QED
    BY <2>1
<1>2. CASE v \in [Addresses -> Readings]
  BY <1>2
<1> QED
  BY <1>1, <1>2 DEF Brought

LEMMA AnswerBrings ==
  ASSUME TypeOK, NEW a \in answers
  PROVE  /\ DOMAIN a.values \subseteq Addresses
         /\ a.values # Nothing => DOMAIN a.values = Addresses
<1>1. a.values \in Brought
  BY DEF TypeOK, Brought
<1> QED
  BY <1>1, BroughtValues DEF Brought

LEMMA ReplyType ==
  ASSUME TypeOK, NEW r \in wire, NEW good \in BOOLEAN, NEW read \in Brought, Reply(r, good, read)
  PROVE  answers' \subseteq [of : Commands, at : Nat, good : BOOLEAN, values : Brought]
<1> DEFINE new == [of |-> r.of, at |-> r.at, good |-> good, values |-> read]
<1>1. r.of \in Commands /\ r.at \in Nat
  BY DEF TypeOK
<1>2. new \in [of : Commands, at : Nat, good : BOOLEAN, values : Brought]
  BY <1>1
<1>3. answers' \in {answers, answers \cup {new}}
  BY DEF Reply
<1> QED
  BY <1>2, <1>3 DEF TypeOK, Brought

LEMMA RefusalType ==
  ASSUME TypeOK, NEW r \in wire, NEW read \in Refusals(r)
  PROVE  read \in Brought
<1>1. memory \in [Addresses -> Stored]
  BY DEF TypeOK
<1>2. ASSUME NEW refusing
      PROVE  [a \in Addresses |-> IF a \in refusing THEN Null ELSE memory[a]] \in [Addresses -> Readings]
  BY <1>1 DEF Readings
<1> QED
  BY <1>2 DEF Refusals, Brought

LEMMA TypeStep == TypeOK /\ PlaceInv /\ [Next]_vars => TypeOK' /\ PlaceInv'
<1> SUFFICES ASSUME TypeOK, PlaceInv, [Next]_vars PROVE TypeOK' /\ PlaceInv'
  OBVIOUS
<1> USE ExchangeAssumption
<1>0. UNCHANGED <<adapter, op, points>>
  BY Fixed
<1>p. \A c \in Commands : Len(points[c]) \in Nat \ {0} /\ DOMAIN points[c] = 1 .. Len(points[c])
  BY PointsOf
<1>1. ASSUME NEW c \in Commands, Begin(c) PROVE TypeOK' /\ PlaceInv'
  <2>1. /\ stage[c] = "new" /\ stage' = [stage EXCEPT ![c] = "ready"]
        /\ held' = IF op[c] = "read" THEN [held EXCEPT ![c] = [a \in Addresses |-> {memory[a]}]]
                                    ELSE held
        /\ UNCHANGED <<adapter, op, points, next, sends, values, lock, wire, answers, memory,
                       written, refused>>
    BY <1>1 DEF Begin
  <2>2. [a \in Addresses |-> {memory[a]}] \in [Addresses -> SUBSET Stored]
    BY DEF TypeOK
  <2>3. /\ stage' \in [Commands -> {"new", "ready", "waiting"} \cup Over]
        /\ held' \in [Commands -> [Addresses -> SUBSET Stored]]
    BY <2>1, <2>2 DEF TypeOK
  <2>4. TypeOK'
    BY <2>1, <2>3 DEF TypeOK
  <2>5. PlaceInv'
    BY <2>1 DEF TypeOK, PlaceInv, Over, AllConvert, Part, PointByPoint
  <2> QED
    BY <2>4, <2>5
<1>2. ASSUME NEW c \in Commands, Refuse(c) PROVE TypeOK' /\ PlaceInv'
  <2>1. /\ stage' = [stage EXCEPT ![c] = "error"] /\ answers' \subseteq answers
        /\ stage' \in [Commands -> {"new", "ready", "waiting"} \cup Over]
        /\ lock' \in Commands \cup {NoCommand}
        /\ UNCHANGED <<adapter, op, points, next, sends, values, wire, memory, written, refused, held>>
    BY <1>2, EndAsType DEF Refuse, Over
  <2>2. TypeOK'
    BY <2>1 DEF TypeOK
  <2>3. PlaceInv'
    BY <2>1 DEF TypeOK, PlaceInv, Over, AllConvert, Part, PointByPoint
  <2> QED
    BY <2>2, <2>3
<1>3. ASSUME NEW c \in Commands, Send(c) PROVE TypeOK' /\ PlaceInv'
  <2>1. /\ stage' = [stage EXCEPT ![c] = "waiting"] /\ sends' = [sends EXCEPT ![c] = 1]
        /\ lock' \in {lock, c} /\ wire' = wire \cup {[of |-> c, at |-> next[c], copy |-> 1]}
        /\ UNCHANGED <<adapter, op, points, next, values, answers, memory, written, refused, held>>
    BY <1>3 DEF Send
  <2>6. next[c] \in DOMAIN points[c] /\ next[c] \in Nat /\ 1 \in 1 .. MaxSends
    <3>1. stage[c] \notin Over /\ next \in [Commands -> Nat]
      BY <1>3 DEF Send, Over, TypeOK
    <3> QED
      BY <3>1 DEF PlaceInv
  <2>3. /\ wire' \subseteq [of : Commands, at : Nat, copy : 1 .. MaxSends]
        /\ \A r \in wire' : r.at \in DOMAIN points'[r.of]
    BY <2>1, <2>6 DEF TypeOK
  <2>4. sends' \in [Commands -> 0 .. MaxSends]
    BY <2>1, <2>6 DEF TypeOK
  <2>5. TypeOK'
    BY <2>1, <2>3, <2>4 DEF TypeOK
  <2>2. PlaceInv'
    BY <1>3 DEF Send, TypeOK, PlaceInv, Over, AllConvert, Part, PointByPoint
  <2> QED
    BY <2>5, <2>2
<1>4. ASSUME NEW c \in Commands, Resend(c) PROVE TypeOK' /\ PlaceInv'
  <2>1. /\ sends' = [sends EXCEPT ![c] = @ + 1] /\ sends[c] < MaxSends
        /\ wire' = wire \cup {[of |-> c, at |-> next[c], copy |-> sends[c] + 1]}
        /\ UNCHANGED <<adapter, op, points, stage, next, lock, values, answers, memory, written,
                       refused, held>>
    BY <1>4 DEF Resend
  <2>6. next[c] \in DOMAIN points[c] /\ next[c] \in Nat /\ sends[c] + 1 \in 1 .. MaxSends
    <3>1. /\ stage[c] \notin Over /\ next \in [Commands -> Nat]
          /\ sends \in [Commands -> 0 .. MaxSends]
      BY <1>4 DEF Resend, Over, TypeOK
    <3> QED
      BY <2>1, <3>1 DEF PlaceInv
  <2>3. /\ wire' \subseteq [of : Commands, at : Nat, copy : 1 .. MaxSends]
        /\ \A r \in wire' : r.at \in DOMAIN points'[r.of]
    BY <2>1, <2>6 DEF TypeOK
  <2>4. sends' \in [Commands -> 0 .. MaxSends]
    BY <2>1, <2>6 DEF TypeOK
  <2>5. TypeOK'
    BY <2>1, <2>3, <2>4 DEF TypeOK
  <2>2. PlaceInv'
    BY <1>4 DEF Resend, TypeOK, PlaceInv, Over, AllConvert, Part, PointByPoint
  <2> QED
    BY <2>5, <2>2
<1>5. ASSUME NEW c \in Commands, TimeOut(c) PROVE TypeOK' /\ PlaceInv'
  <2>1. /\ stage' = [stage EXCEPT ![c] = "error"] /\ answers' \subseteq answers
        /\ stage' \in [Commands -> {"new", "ready", "waiting"} \cup Over]
        /\ lock' \in Commands \cup {NoCommand}
        /\ UNCHANGED <<adapter, op, points, next, sends, values, wire, memory, written, refused, held>>
    BY <1>5, EndAsType DEF TimeOut, Over
  <2>2. TypeOK'
    BY <2>1 DEF TypeOK
  <2>3. PlaceInv'
    BY <2>1 DEF TypeOK, PlaceInv, Over, AllConvert, Part, PointByPoint
  <2> QED
    BY <2>2, <2>3
<1>6. ASSUME NEW c \in Commands, Receive(c) PROVE TypeOK' /\ PlaceInv'
  <2>1. PICK a \in answers :
          /\ a.of = c /\ a.at = next[c]
          /\ \/ EndAs(c, "error") /\ UNCHANGED <<next, values>>
             \/ /\ EndAs(c, IF More(c) THEN "ready" ELSE "ok")
                /\ next' = [next EXCEPT ![c] = IF More(c) THEN @ + 1 ELSE Len(points[c]) + 1]
                /\ values' = IF op[c] = "read" THEN [values EXCEPT ![c] = Merge(c, a)] ELSE values
    BY <1>6 DEF Receive
  <2>2. PICK result \in {"ready", "ok", "error"} :
          /\ stage' = [stage EXCEPT ![c] = result]
          /\ stage' \in [Commands -> {"new", "ready", "waiting"} \cup Over]
          /\ lock' \in Commands \cup {NoCommand}
          /\ answers' \subseteq answers
          /\ result = "ready" => More(c) /\ next' = [next EXCEPT ![c] = @ + 1]
    BY <2>1, EndAsType DEF Over
  <2>3. /\ next[c] \in DOMAIN points[c] /\ stage[c] = "waiting"
        /\ sends' = [sends EXCEPT ![c] = 0]
        /\ UNCHANGED <<adapter, op, points, wire, memory, written, refused, held>>
    BY <1>6 DEF Receive, PlaceInv, Over
  <2>4. next' \in [Commands -> Nat] /\ \A d \in Commands : next'[d] \in 1 .. Len(points[d]) + 1
    <3>1. /\ next[c] + 1 \in 1 .. Len(points[c]) + 1 /\ Len(points[c]) + 1 \in 1 .. Len(points[c]) + 1
          /\ next \in [Commands -> Nat]
          /\ \A d \in Commands : next[d] \in 1 .. Len(points[d]) + 1
      BY <2>3, <1>p, SMTT(30) DEF TypeOK
    <3>2. next' \in {next, [next EXCEPT ![c] = next[c] + 1], [next EXCEPT ![c] = Len(points[c]) + 1]}
      BY <2>1
    <3> QED
      BY <3>1, <3>2
  <2>5. /\ DOMAIN values' = Commands
        /\ \A d \in Commands : /\ DOMAIN values'[d] \subseteq DOMAIN points[d]
                               /\ \A i \in DOMAIN values'[d] : values'[d][i] \in Readings
    <3>1. CASE UNCHANGED values
      BY <3>1 DEF TypeOK
    <3>2. CASE op[c] = "read" /\ values' = [values EXCEPT ![c] = Merge(c, a)]
      <4>1. a.values \in Brought /\ Answered(c, a) \subseteq DOMAIN points[c]
        BY <2>1, <2>3, AssignedPart DEF Answered, Brought, TypeOK
      <4>2. \A i \in Answered(c, a) : a.values[points[c][i].address] \in Readings
        BY <4>1, BroughtValues DEF Answered
      <4>3. /\ DOMAIN Merge(c, a) \subseteq DOMAIN points[c]
            /\ \A i \in DOMAIN Merge(c, a) : Merge(c, a)[i] \in Readings
        BY <4>1, <4>2 DEF Merge, TypeOK
      <4> QED
        BY <3>2, <4>3 DEF TypeOK
    <3> QED
      BY <2>1, <3>1, <3>2
  <2>6. TypeOK'
    <3>1. sends' \in [Commands -> 0 .. MaxSends]
      BY <2>3 DEF TypeOK
    <3> QED
      BY <2>2, <2>3, <2>4, <2>5, <3>1 DEF TypeOK
  <2>7. PlaceInv'
    <3> SUFFICES ASSUME NEW d \in Commands
                 PROVE  /\ stage'[d] \notin Over => next'[d] \in DOMAIN points[d]
                        /\ stage'[d] = "waiting" /\ op[d] = "write" => AllConvert(d)'
      BY <2>3 DEF PlaceInv
    <3>1. CASE d = c
      BY <2>2, <2>3, <1>p, <3>1 DEF More, Over, TypeOK
    <3>2. CASE d # c
      <4>1. next'[d] = next[d] /\ stage'[d] = stage[d]
        BY <2>1, <2>2, <3>2 DEF TypeOK
      <4> QED
        BY <2>3, <4>1 DEF PlaceInv, AllConvert, Part, PointByPoint
    <3> QED
      BY <3>1, <3>2
  <2> QED
    BY <2>6, <2>7
<1>7. ASSUME NEW r \in wire, Carry(r) PROVE TypeOK' /\ PlaceInv'
  <2>1. r.of \in Commands /\ r.at \in DOMAIN points[r.of] /\ r.at \in Nat /\ Part(r.of, r.at) \subseteq DOMAIN points[r.of]
    BY <1>p DEF TypeOK, Part
  <2>2. /\ UNCHANGED <<adapter, op, points, stage, next, sends, values, lock, refused>>
        /\ wire' \subseteq wire
    BY <1>7 DEF Carry
  <2>3. memory' \in [Addresses -> Stored]
    <3>1. CASE UNCHANGED memory
      BY <3>1 DEF TypeOK
    <3>2. CASE memory' = [d \in Addresses |->
                   IF \E i \in Part(r.of, r.at) : points[r.of][i].address = d THEN r.of ELSE memory[d]]
      <4>1. r.of \in Stored /\ \A d \in Addresses : memory[d] \in Stored
        BY <2>1 DEF Stored, TypeOK
      <4> QED
        BY <3>2, <4>1
    <3> QED
      BY <1>7, <3>1, <3>2 DEF Carry
  <2>4. /\ written' \in [Commands -> SUBSET Nat]
        /\ \A d \in Commands : written'[d] \subseteq DOMAIN points[d]
    <3>1. written' \in {written, [written EXCEPT ![r.of] = @ \cup Part(r.of, r.at)]}
      BY <1>7 DEF Carry
    <3>2. Part(r.of, r.at) \subseteq Nat
      BY <2>1, <1>p
    <3>3. \A d \in Commands : written'[d] = written[d] \/ (d = r.of /\ written'[d] = written[d] \cup Part(r.of, r.at))
      BY <2>1, <3>1 DEF TypeOK
    <3>4. \A d \in Commands : written[d] \subseteq Nat /\ written[d] \subseteq DOMAIN points[d]
      BY DEF TypeOK
    <3>5. DOMAIN written' = Commands /\ written' = [d \in Commands |-> written'[d]]
      BY <3>1 DEF TypeOK
    <3> QED
      BY <2>1, <3>2, <3>3, <3>4, <3>5
  <2>5. held' \in [Commands -> [Addresses -> SUBSET Stored]]
    BY <1>7, <2>3 DEF Carry, TypeOK
  <2>6. answers' \subseteq [of : Commands, at : Nat, good : BOOLEAN, values : Brought]
    <3>1. memory \in Brought /\ Nothing \in Brought
      BY DEF TypeOK, Brought, Readings
    <3> QED
      BY <1>7, <3>1, ReplyType DEF Carry
  <2>7. TypeOK'
    BY <2>2, <2>3, <2>4, <2>5, <2>6 DEF TypeOK, Brought
  <2>8. PlaceInv'
    BY <2>2 DEF PlaceInv, AllConvert, Part, PointByPoint
  <2> QED
    BY <2>7, <2>8
<1>8. ASSUME NEW r \in wire, Reject(r) PROVE TypeOK' /\ PlaceInv'
  <2>1. r.of \in Commands /\ r.at \in Nat
    BY DEF TypeOK
  <2>2. /\ UNCHANGED <<adapter, op, points, stage, next, sends, values, lock, memory, written, held>>
        /\ wire' \subseteq wire /\ refused' \subseteq Commands
    BY <1>8, <2>1 DEF Reject, TypeOK
  <2>3. answers' \subseteq [of : Commands, at : Nat, good : BOOLEAN, values : Brought]
    BY <1>8, RefusalType, ReplyType DEF Reject
  <2>4. TypeOK'
    BY <2>2, <2>3 DEF TypeOK, Brought
  <2>5. PlaceInv'
    BY <2>2 DEF PlaceInv, AllConvert, Part, PointByPoint
  <2> QED
    BY <2>4, <2>5
<1>9. CASE UNCHANGED vars
  <2>1. TypeOK'
    BY <1>9 DEF vars, TypeOK
  <2>2. PlaceInv'
    BY <1>9 DEF vars, PlaceInv, AllConvert, Part, PointByPoint
  <2> QED
    BY <2>1, <2>2
<1> QED
  BY <1>1, <1>2, <1>3, <1>4, <1>5, <1>6, <1>7, <1>8, <1>9 DEF Next, Step

\* Commands, requests, answers and the device keep their types: no answer is for
\* a point its command does not have, and SNMP sends no more often than it may.
THEOREM TypeCorrect == Spec => []TypeOK
<1>1. Init => TypeOK /\ PlaceInv
  BY InitTypeOK
<1>2. TypeOK /\ PlaceInv /\ [Next]_vars => TypeOK' /\ PlaceInv'
  BY TypeStep
<1> QED
  BY <1>1, <1>2, PTL DEF Spec

-----------------------------------------------------------------------------
(* Requests and answers.                                                     *)

LEMMA SamePart ==
  UNCHANGED <<adapter, op, points>> =>
    /\ \A c, k : Part(c, k)' = Part(c, k) /\ Assigned(c, k)' = Assigned(c, k)
    /\ \A c : PointByPoint(c)' = PointByPoint(c)
BY DEF Part, PointByPoint, Assigned

\* Steps by which commands come to an end of a request.
LEMMA EndStep ==
  ASSUME NEW c \in Commands, Refuse(c) \/ TimeOut(c)
  PROVE  /\ stage' = [stage EXCEPT ![c] = "error"]
         /\ answers' = {a \in answers : a.of # c}
         /\ UNCHANGED <<adapter, op, points, next, sends, values, wire, memory, written, refused, held>>
BY DEF Refuse, TimeOut, EndAs

LEMMA ReceiveStep ==
  ASSUME TypeOK, PlaceInv, NEW c \in Commands, Receive(c)
  PROVE  \E a \in answers :
    /\ a.of = c /\ a.at = next[c] /\ next[c] \in DOMAIN points[c] /\ stage[c] = "waiting"
    /\ answers' = {b \in answers : b.of # c}
    /\ \/ stage' = [stage EXCEPT ![c] = "error"] /\ UNCHANGED <<next, values>>
       \/ /\ Taken(c, a) /\ Readable(c, a)
          /\ stage' = [stage EXCEPT ![c] = IF More(c) THEN "ready" ELSE "ok"]
          /\ next' = [next EXCEPT ![c] = IF More(c) THEN @ + 1 ELSE Len(points[c]) + 1]
          /\ values' = IF op[c] = "read" THEN [values EXCEPT ![c] = Merge(c, a)] ELSE values
    /\ UNCHANGED <<adapter, op, points, wire, memory, written, refused, held>>
<1>1. next[c] \in DOMAIN points[c] /\ stage[c] = "waiting"
  BY DEF Receive, PlaceInv, Over
<1> QED
  BY <1>1 DEF Receive, EndAs

\* What the answer to a read brings: what the device holds, of every address
\* unless it refuses; SNMP has a null in its place.
Brings(a) ==
  /\ a.good => DOMAIN a.values = Addresses
  /\ \A x \in DOMAIN a.values :
        \/ x \in Addresses /\ a.values[x] = memory[x]
        \/ a.values[x] = Null /\ ~a.good /\ adapter = "snmp"

LEMMA RefusalBrings ==
  ASSUME TypeOK, NEW r \in wire, NEW read \in Refusals(r), NEW a, a.good = FALSE, a.values = read
  PROVE  Brings(a)
<1>1. CASE read = Nothing
  <2>1. DOMAIN a.values = {}
    BY <1>1 DEF Nothing
  <2> QED
    BY <2>1 DEF Brings
<1>2. CASE /\ adapter = "snmp"
           /\ \E refusing : read = [x \in Addresses |-> IF x \in refusing THEN Null ELSE memory[x]]
  BY <1>2 DEF Brings
<1> QED
  BY <1>1, <1>2 DEF Refusals

LEMMA CarryStep ==
  ASSUME TypeOK, NEW r \in wire, Carry(r) \/ Reject(r)
  PROVE  /\ wire' = wire \ {r} /\ r.of \in Commands /\ r.at \in DOMAIN points[r.of]
         /\ UNCHANGED <<adapter, op, points, stage, next, values>>
         /\ \A d \in Commands : written[d] \subseteq written'[d]
         /\ \A d \in Commands, x \in Addresses : held[d][x] \subseteq held'[d][x]
         /\ refused \subseteq refused'
         /\ \A a \in answers' \ answers :
              /\ a.of = r.of /\ a.at = r.at /\ stage[r.of] = "waiting" /\ next[r.of] = r.at
              /\ a.good \/ r.of \in refused'
              /\ op[r.of] = "write" /\ a.good => Part(r.of, r.at) \subseteq written'[r.of]
              /\ op[r.of] = "read" => Brings(a)
<1>1. r.of \in Commands /\ r.at \in DOMAIN points[r.of]
  BY DEF TypeOK
<1>2. CASE Carry(r)
  <2>1. /\ wire' = wire \ {r} /\ Reply(r, TRUE, IF op[r.of] = "read" THEN memory ELSE Nothing)
        /\ UNCHANGED <<adapter, op, points, stage, next, values, refused>>
    BY <1>2 DEF Carry
  <2>2. /\ written' = IF op[r.of] = "write" THEN [written EXCEPT ![r.of] = @ \cup Part(r.of, r.at)] ELSE written
        /\ written \in [Commands -> SUBSET Nat]
    BY <1>2 DEF Carry, TypeOK
  <2>3. /\ \A d \in Commands : written[d] \subseteq written'[d]
        /\ op[r.of] = "write" => Part(r.of, r.at) \subseteq written'[r.of]
    BY <1>1, <2>2
  <2>4. \A d \in Commands, x \in Addresses : held[d][x] \subseteq held'[d][x]
    BY <1>2 DEF Carry
  <2>5. \A a \in answers' \ answers :
              /\ a.of = r.of /\ a.at = r.at /\ stage[r.of] = "waiting" /\ next[r.of] = r.at
              /\ a.good
              /\ op[r.of] = "read" => Brings(a)
    <3>1. \A a \in answers' \ answers :
            a = [of |-> r.of, at |-> r.at, good |-> TRUE,
                 values |-> IF op[r.of] = "read" THEN memory ELSE Nothing]
              /\ stage[r.of] = "waiting" /\ next[r.of] = r.at
      BY <2>1 DEF Reply
    <3>2. DOMAIN memory = Addresses
      BY DEF TypeOK
    <3> QED
      BY <3>1, <3>2 DEF Brings
  <2> QED
    BY <1>1, <2>1, <2>3, <2>4, <2>5
<1>3. CASE Reject(r)
  <2>1. /\ wire' = wire \ {r} /\ refused' = refused \cup {r.of}
        /\ UNCHANGED <<adapter, op, points, stage, next, values, memory, written, held>>
    BY <1>3 DEF Reject
  <2>2. \A a \in answers' \ answers :
              /\ a.of = r.of /\ a.at = r.at /\ stage[r.of] = "waiting" /\ next[r.of] = r.at
              /\ ~a.good
              /\ op[r.of] = "read" => Brings(a)
    <3>1. PICK read \in Refusals(r) : Reply(r, FALSE, read)
      BY <1>3 DEF Reject
    <3>2. \A a \in answers' \ answers :
            a = [of |-> r.of, at |-> r.at, good |-> FALSE, values |-> read]
              /\ stage[r.of] = "waiting" /\ next[r.of] = r.at
      BY <3>1 DEF Reply
    <3>3. ASSUME NEW a \in answers' \ answers
          PROVE  /\ a.of = r.of /\ a.at = r.at /\ stage[r.of] = "waiting" /\ next[r.of] = r.at
                 /\ a.good = FALSE
                 /\ op[r.of] = "read" => Brings(a)
      <4>1. a.good = FALSE /\ a.values = read
        BY <3>2
      <4>2. Brings(a)
        BY <4>1, RefusalBrings
      <4> QED
        BY <3>2, <4>1, <4>2
    <3> QED
      BY <3>3
  <2> QED
    BY <1>1, <2>1, <2>2
<1> QED
  BY <1>2, <1>3

LEMMA RequestInit == Init => WireInv /\ AnswerInv /\ ReadInv
<1>1. Init => WireInv /\ AnswerInv
  BY DEF Init, WireInv, AnswerInv
<1>2. ASSUME Init, NEW c \in Commands
      PROVE  ~Reading(c) /\ DOMAIN values[c] = 1 .. next[c] - 1 /\ values[c] = Nothing
  <2>1. stage[c] = "new" /\ next[c] = 1 /\ values[c] = <<>>
    BY <1>2 DEF Init, Nothing
  <2> QED
    BY <2>1 DEF Reading, Nothing
<1> QED
  BY <1>1, <1>2 DEF ReadInv

LEMMA WireStep ==
  TypeOK /\ PlaceInv /\ WireInv /\ AnswerInv /\ [Next]_vars => WireInv'
<1> SUFFICES ASSUME TypeOK, PlaceInv, WireInv, AnswerInv, [Next]_vars PROVE WireInv'
  OBVIOUS
<1>0. UNCHANGED <<adapter, op, points>> /\ \A c, k : Part(c, k)' = Part(c, k)
  BY Fixed, SamePart
<1>t. /\ stage \in [Commands -> {"new", "ready", "waiting"} \cup Over] /\ next \in [Commands -> Nat]
      /\ \A r \in wire : /\ r \in [of : Commands, at : Nat, copy : 1 .. MaxSends]
                       /\ r.of \in Commands /\ r.at \in Nat
      /\ \A c \in Commands : DOMAIN points[c] = 1 .. Len(points[c]) /\ Len(points[c]) \in Nat
  BY PointsOf DEF TypeOK
<1>1. ASSUME NEW c \in Commands, Begin(c) PROVE WireInv'
  BY <1>0, <1>t, <1>1 DEF Begin, WireInv
<1>2. ASSUME NEW c \in Commands, Refuse(c) \/ TimeOut(c) PROVE WireInv'
  <2>1. /\ stage' = [stage EXCEPT ![c] = "error"] /\ answers' \subseteq answers
        /\ UNCHANGED <<next, wire>>
    BY <1>2, EndStep
  <2> QED
    BY <1>0, <1>t, <2>1 DEF WireInv
<1>3. ASSUME NEW c \in Commands, Send(c) PROVE WireInv'
  <2>1. /\ stage[c] = "ready" /\ stage' = [stage EXCEPT ![c] = "waiting"]
        /\ wire' = wire \cup {[of |-> c, at |-> next[c], copy |-> 1]}
        /\ UNCHANGED <<next, answers>>
        /\ op[c] = "write" => \A i \in Part(c, next[c]) : points[c][i].converts
    BY <1>3 DEF Send, AllConvert
  <2>2. \A a \in answers : a.of # c
    BY <2>1 DEF AnswerInv
  <2>3. ASSUME NEW r \in wire
        PROVE  /\ r.at <= next'[r.of]
               /\ op[r.of] = "write" => \A i \in Part(r.of, r.at) : points[r.of][i].converts
               /\ adapter # "snmp" =>
                   /\ r.copy = 1 /\ r.at = next'[r.of] /\ stage'[r.of] \in {"waiting", "error"}
                   /\ \A a \in answers : a.of # r.of
    BY <1>t, <2>1 DEF WireInv
  <2>4. /\ next[c] \in Nat /\ stage'[c] = "waiting"
        /\ \A r \in wire' : r \in wire \/ r = [of |-> c, at |-> next[c], copy |-> 1]
    BY <1>t, <2>1
  <2> QED
    BY <1>0, <2>1, <2>2, <2>3, <2>4 DEF WireInv
<1>4. ASSUME NEW c \in Commands, Resend(c) PROVE WireInv'
  <2>1. /\ stage[c] = "waiting" /\ adapter = "snmp"
        /\ wire' = wire \cup {[of |-> c, at |-> next[c], copy |-> sends[c] + 1]}
        /\ UNCHANGED next /\ next[c] \in Nat
    BY <1>t, <1>4 DEF Resend
  <2>2. op[c] = "write" => \A i \in Part(c, next[c]) : points[c][i].converts
    BY <2>1 DEF PlaceInv, AllConvert
  <2>3. \A r \in wire' : r \in wire \/ r = [of |-> c, at |-> next[c], copy |-> sends[c] + 1]
    BY <2>1
  <2> QED
    BY <1>0, <2>1, <2>2, <2>3 DEF WireInv
<1>5. ASSUME NEW c \in Commands, Receive(c) PROVE WireInv'
  <2>1. PICK a \in answers :
          /\ a.of = c /\ next[c] \in DOMAIN points[c]
          /\ answers' = {b \in answers : b.of # c}
          /\ stage' \in {[stage EXCEPT ![c] = "error"], [stage EXCEPT ![c] = "ready"],
                        [stage EXCEPT ![c] = "ok"]}
          /\ \/ UNCHANGED next
             \/ next' = [next EXCEPT ![c] = next[c] + 1]
             \/ next' = [next EXCEPT ![c] = Len(points[c]) + 1]
          /\ UNCHANGED wire
    BY <1>5, ReceiveStep
  <2>2. \A d \in Commands : next[d] <= next'[d] /\ (d # c => next'[d] = next[d] /\ stage'[d] = stage[d])
    BY <1>t, <2>1
  <2>3. adapter # "snmp" => \A r \in wire : r.of # c
    BY <2>1 DEF WireInv
  <2>4. \A r \in wire : r.at <= next'[r.of]
    BY <1>t, <2>1, <2>2 DEF WireInv
  <2> SUFFICES ASSUME NEW r \in wire
               PROVE  /\ r.at <= next'[r.of]
                      /\ op'[r.of] = "write" =>
                            \A i \in Part(r.of, r.at)' : points'[r.of][i].converts
                      /\ adapter' # "snmp" =>
                            /\ r.copy = 1 /\ r.at = next'[r.of]
                            /\ stage'[r.of] \in {"waiting", "error"}
                            /\ \A b \in answers' : b.of # r.of
    BY <2>1 DEF WireInv
  <2>5. op'[r.of] = "write" => \A i \in Part(r.of, r.at)' : points'[r.of][i].converts
    BY <1>0 DEF WireInv
  <2>6. adapter # "snmp" =>
          /\ r.of \in Commands /\ r.of # c
          /\ r.copy = 1 /\ r.at = next[r.of] /\ stage[r.of] \in {"waiting", "error"}
          /\ \A b \in answers : b.of # r.of
    BY <1>t, <2>3 DEF WireInv
  <2>7. adapter # "snmp" =>
          /\ r.copy = 1 /\ r.at = next'[r.of] /\ stage'[r.of] \in {"waiting", "error"}
          /\ \A b \in answers' : b.of # r.of
    BY <2>1, <2>2, <2>6
  <2> QED
    BY <1>0, <2>4, <2>5, <2>7
<1>6. ASSUME NEW r \in wire, Carry(r) \/ Reject(r) PROVE WireInv'
  <2>1. /\ wire' = wire \ {r} /\ UNCHANGED <<stage, next>>
        /\ \A a \in answers' \ answers : a.of = r.of
    BY <1>6, CarryStep
  <2>2. ASSUME adapter # "snmp", NEW s \in wire' PROVE s.of # r.of
    <3>1. s \in wire /\ s # r
      BY <2>1
    <3>2. s.of = r.of => s.at = r.at /\ s.copy = r.copy
      BY <2>2, <3>1 DEF WireInv
    <3> QED
      BY <1>t, <3>1, <3>2
  <2> QED
    BY <1>0, <2>1, <2>2 DEF WireInv
<1>7. CASE UNCHANGED vars
  BY <1>0, <1>7 DEF WireInv, vars
<1> QED
  BY <1>1, <1>2, <1>3, <1>4, <1>5, <1>6, <1>7 DEF Next, Step

LEMMA AnswerStep ==
  TypeOK /\ PlaceInv /\ AnswerInv /\ ReadInv /\ [Next]_vars => AnswerInv'
<1> SUFFICES ASSUME TypeOK, PlaceInv, AnswerInv, ReadInv, [Next]_vars PROVE AnswerInv'
  OBVIOUS
<1>0. UNCHANGED <<adapter, op, points>> /\ \A c, k : Part(c, k)' = Part(c, k)
  BY Fixed, SamePart
<1>t. /\ stage \in [Commands -> {"new", "ready", "waiting"} \cup Over] /\ next \in [Commands -> Nat]
      /\ \A a \in answers : a.of \in Commands
      /\ held \in [Commands -> [Addresses -> SUBSET Stored]]
      /\ op \in [Commands -> {"read", "write"}]
  BY DEF TypeOK
<1>1. ASSUME NEW c \in Commands, Begin(c) PROVE AnswerInv'
  <2>1. \A a \in answers : a.of # c
    BY <1>1 DEF Begin, AnswerInv
  <2> QED
    BY <1>0, <1>t, <1>1, <2>1 DEF Begin, AnswerInv
<1>2. ASSUME NEW c \in Commands, Refuse(c) \/ TimeOut(c) PROVE AnswerInv'
  <2>1. /\ stage' = [stage EXCEPT ![c] = "error"] /\ answers' = {a \in answers : a.of # c}
        /\ UNCHANGED <<next, written, refused, held>>
    BY <1>2, EndStep
  <2> QED
    BY <1>0, <1>t, <2>1 DEF AnswerInv
<1>3. ASSUME NEW c \in Commands, Send(c) PROVE AnswerInv'
  BY <1>0, <1>t, <1>3 DEF Send, AnswerInv
<1>4. ASSUME NEW c \in Commands, Resend(c) PROVE AnswerInv'
  BY <1>0, <1>t, <1>4 DEF Resend, AnswerInv
<1>5. ASSUME NEW c \in Commands, Receive(c) PROVE AnswerInv'
  <2>1. /\ answers' = {b \in answers : b.of # c}
        /\ stage' \in {[stage EXCEPT ![c] = "error"], [stage EXCEPT ![c] = "ready"],
                      [stage EXCEPT ![c] = "ok"]}
        /\ \/ UNCHANGED next
           \/ next' = [next EXCEPT ![c] = next[c] + 1]
           \/ next' = [next EXCEPT ![c] = Len(points[c]) + 1]
        /\ UNCHANGED <<written, refused, held>>
    BY <1>5, ReceiveStep
  <2>2. \A d \in Commands \ {c} : next'[d] = next[d] /\ stage'[d] = stage[d]
    BY <1>t, <2>1
  <2> QED
    BY <1>0, <1>t, <2>1, <2>2 DEF AnswerInv
<1>6. ASSUME NEW r \in wire, Carry(r) \/ Reject(r) PROVE AnswerInv'
  <2>1. /\ UNCHANGED <<stage, next>> /\ r.of \in Commands
        /\ \A d \in Commands : written[d] \subseteq written'[d]
        /\ \A d \in Commands, x \in Addresses : held[d][x] \subseteq held'[d][x]
        /\ refused \subseteq refused'
        /\ \A a \in answers' \ answers :
              /\ a.of = r.of /\ a.at = r.at /\ stage[r.of] = "waiting" /\ next[r.of] = r.at
              /\ a.good \/ r.of \in refused'
              /\ op[r.of] = "write" /\ a.good => Part(r.of, r.at) \subseteq written'[r.of]
              /\ op[r.of] = "read" => Brings(a)
    BY <1>6, CarryStep
  <2>2. ASSUME NEW a \in answers', a \notin answers, op[r.of] = "read"
        PROVE  /\ a.good => DOMAIN a.values = Addresses
               /\ \A d \in DOMAIN a.values :
                     \/ a.values[d] \in held'[r.of][d]
                     \/ a.values[d] = Null /\ ~a.good /\ adapter = "snmp"
    <3>1. Reading(r.of) /\ Brings(a)
      BY <2>1, <2>2 DEF Reading
    <3>2. \A d \in Addresses : memory[d] \in held[r.of][d]
      BY <2>1, <3>1 DEF ReadInv
    <3> QED
      BY <2>1, <3>1, <3>2 DEF Brings
  <2>3. ASSUME NEW a \in answers', a \notin answers
        PROVE  /\ stage'[a.of] = "waiting" /\ a.at = next'[a.of]
               /\ a.good \/ a.of \in refused'
               /\ op'[a.of] = "write" /\ a.good => Part(a.of, a.at)' \subseteq written'[a.of]
               /\ op'[a.of] = "read" =>
                   /\ a.good => DOMAIN a.values = Addresses
                   /\ \A d \in DOMAIN a.values :
                         \/ a.values[d] \in held'[a.of][d]
                         \/ a.values[d] = Null /\ ~a.good /\ adapter' = "snmp"
    BY <1>0, <2>1, <2>2, <2>3
  <2>4. ASSUME NEW a \in answers
        PROVE  /\ stage'[a.of] = "waiting" /\ a.at = next'[a.of]
               /\ a.good \/ a.of \in refused'
               /\ op'[a.of] = "write" /\ a.good => Part(a.of, a.at)' \subseteq written'[a.of]
               /\ op'[a.of] = "read" =>
                   /\ a.good => DOMAIN a.values = Addresses
                   /\ \A d \in DOMAIN a.values :
                         \/ a.values[d] \in held'[a.of][d]
                         \/ a.values[d] = Null /\ ~a.good /\ adapter' = "snmp"
    <3>1. /\ stage[a.of] = "waiting" /\ a.at = next[a.of] /\ a.of \in Commands
          /\ a.good \/ a.of \in refused
          /\ op[a.of] = "write" /\ a.good => Part(a.of, a.at) \subseteq written[a.of]
      BY <1>t DEF AnswerInv
    <3>2. ASSUME op[a.of] = "read"
          PROVE  /\ a.good => DOMAIN a.values = Addresses
                 /\ \A d \in DOMAIN a.values :
                       \/ a.values[d] \in held'[a.of][d]
                       \/ a.values[d] = Null /\ ~a.good /\ adapter = "snmp"
      <4>1. /\ a.good => DOMAIN a.values = Addresses
            /\ \A d \in DOMAIN a.values :
                  \/ a.values[d] \in held[a.of][d]
                  \/ a.values[d] = Null /\ ~a.good /\ adapter = "snmp"
        BY <3>2 DEF AnswerInv
      <4>2. DOMAIN a.values \subseteq Addresses
        BY AnswerBrings
      <4> QED
        BY <2>1, <3>1, <4>1, <4>2
    <3> QED
      BY <1>0, <2>1, <3>1, <3>2
  <2> QED
    BY <2>3, <2>4 DEF AnswerInv
<1>7. CASE UNCHANGED vars
  BY <1>0, <1>7 DEF AnswerInv, vars
<1> QED
  BY <1>1, <1>2, <1>3, <1>4, <1>5, <1>6, <1>7 DEF Next, Step

LEMMA ReadStep ==
  TypeOK /\ PlaceInv /\ AnswerInv /\ ReadInv /\ [Next]_vars => ReadInv'
<1> SUFFICES ASSUME TypeOK, PlaceInv, AnswerInv, ReadInv, [Next]_vars, NEW d \in Commands
             PROVE  /\ stage'[d] = "new" => values'[d] = Nothing
                    /\ Reading(d)' => \A x \in Addresses : memory'[x] \in held'[d][x]
                    /\ adapter = "http" /\ op[d] = "read" => DOMAIN values'[d] = 1 .. next'[d] - 1
  BY Fixed DEF ReadInv
<1> DEFINE Goal == /\ stage'[d] = "new" => values'[d] = Nothing
                   /\ Reading(d)' => \A x \in Addresses : memory'[x] \in held'[d][x]
                   /\ adapter = "http" /\ op[d] = "read" => DOMAIN values'[d] = 1 .. next'[d] - 1
<1>0. UNCHANGED <<adapter, op, points>>
  BY Fixed
<1>t. /\ stage \in [Commands -> {"new", "ready", "waiting"} \cup Over] /\ next \in [Commands -> Nat]
      /\ held \in [Commands -> [Addresses -> SUBSET Stored]]
      /\ DOMAIN points[d] = 1 .. Len(points[d]) /\ Len(points[d]) \in Nat
      /\ DOMAIN values = Commands
  BY PointsOf DEF TypeOK
<1>h. /\ stage[d] = "new" => values[d] = Nothing
      /\ Reading(d) => \A x \in Addresses : memory[x] \in held[d][x]
      /\ adapter = "http" /\ op[d] = "read" => DOMAIN values[d] = 1 .. next[d] - 1
  BY DEF ReadInv
<1>1. ASSUME NEW c \in Commands, Begin(c) PROVE Goal
  BY <1>0, <1>t, <1>h, <1>1 DEF Begin, Reading
<1>2. ASSUME NEW c \in Commands, Refuse(c) \/ TimeOut(c) PROVE Goal
  <2>1. /\ stage' = [stage EXCEPT ![c] = "error"]
        /\ UNCHANGED <<next, values, memory, held>>
    BY <1>2, EndStep
  <2> QED
    BY <1>0, <1>t, <1>h, <2>1 DEF Reading
<1>3. ASSUME NEW c \in Commands, Send(c) PROVE Goal
  BY <1>0, <1>t, <1>h, <1>3 DEF Send, Reading
<1>4. ASSUME NEW c \in Commands, Resend(c) PROVE Goal
  BY <1>0, <1>h, <1>4 DEF Resend, Reading
<1>5. ASSUME NEW c \in Commands, Receive(c) PROVE Goal
  <2>1. PICK a \in answers :
          /\ a.of = c /\ a.at = next[c] /\ next[c] \in DOMAIN points[c] /\ stage[c] = "waiting"
          /\ \/ stage' = [stage EXCEPT ![c] = "error"] /\ UNCHANGED <<next, values>>
             \/ /\ Taken(c, a)
                /\ stage' = [stage EXCEPT ![c] = IF More(c) THEN "ready" ELSE "ok"]
                /\ next' = [next EXCEPT ![c] = IF More(c) THEN @ + 1 ELSE Len(points[c]) + 1]
                /\ values' = IF op[c] = "read" THEN [values EXCEPT ![c] = Merge(c, a)] ELSE values
          /\ UNCHANGED <<memory, held>>
    BY <1>5, ReceiveStep
  <2>2. CASE d # c
    <3>1. stage'[d] = stage[d] /\ next'[d] = next[d] /\ values'[d] = values[d]
      BY <1>t, <2>1, <2>2
    <3> QED
      BY <1>0, <1>h, <2>1, <3>1 DEF Reading
  <2>3. CASE d = c
    <3>1. stage'[d] # "new" /\ (Reading(d)' => Reading(d))
      BY <1>0, <1>t, <2>1, <2>3 DEF Reading
    <3>2. ASSUME adapter = "http", op[d] = "read"
          PROVE  DOMAIN values'[d] = 1 .. next'[d] - 1
      <4>1. CASE UNCHANGED <<next, values>>
        BY <1>h, <3>2, <4>1
      <4>2. CASE /\ Taken(c, a)
                 /\ next' = [next EXCEPT ![c] = IF More(c) THEN @ + 1 ELSE Len(points[c]) + 1]
                 /\ values' = [values EXCEPT ![c] = Merge(c, a)]
        <5>1. next'[d] = next[d] + 1
          BY <1>t, <2>1, <2>3, <3>2, <4>2 DEF More, PointByPoint
        <5>2. Answered(c, a) = {next[d]}
          <6>1. Assigned(c, a.at) = {next[d]}
            BY <2>1, <2>3, <3>2 DEF Assigned, Part, PointByPoint
          <6>2. a.good
            BY <3>2, <4>2 DEF Taken
          <6>3. DOMAIN a.values = Addresses
            BY <2>1, <2>3, <3>2, <6>2 DEF AnswerInv
          <6>4. points[c][next[d]].address \in Addresses
            BY <2>1, <2>3, PointsOf DEF Points
          <6> QED
            BY <6>1, <6>3, <6>4 DEF Answered
        <5>3. DOMAIN values'[d] = DOMAIN values[d] \cup {next[d]}
          BY <1>t, <2>3, <4>2, <5>2 DEF Merge
        <5> QED
          BY <1>h, <1>t, <2>1, <2>3, <3>2, <5>1, <5>3
      <4> QED
        BY <2>1, <2>3, <3>2, <4>1, <4>2
    <3> QED
      BY <1>h, <2>1, <3>1, <3>2
  <2> QED
    BY <2>2, <2>3
<1>6. ASSUME NEW r \in wire, Carry(r) \/ Reject(r) PROVE Goal
  <2>1. UNCHANGED <<adapter, op, points, stage, next, values>>
    BY <1>6, CarryStep
  <2>2. Reading(d)' = Reading(d)
    BY <2>1 DEF Reading
  <2>3. Reading(d) => \A x \in Addresses : memory'[x] \in held'[d][x]
    <3>1. CASE Carry(r)
      <4>1. Reading(d) => \A x \in Addresses : held'[d][x] = held[d][x] \cup {memory'[x]}
        BY <3>1 DEF Carry
      <4> QED
        BY <4>1
    <3>2. CASE Reject(r)
      BY <1>h, <3>2 DEF Reject
    <3> QED
      BY <1>6, <3>1, <3>2
  <2> QED
    BY <1>h, <2>1, <2>2, <2>3
<1>7. CASE UNCHANGED vars
  BY <1>h, <1>7 DEF vars, Reading
<1> QED
  BY <1>1, <1>2, <1>3, <1>4, <1>5, <1>6, <1>7 DEF Next, Step

-----------------------------------------------------------------------------
(* What writes have done, and what reads return.                             *)

LEMMA PromisesInit == Init => WrittenPrefix /\ ReadsHeld
<1> SUFFICES ASSUME Init, NEW c \in Commands
             PROVE  /\ written[c] = {} /\ next[c] = 1 /\ stage[c] = "new" /\ values[c] = <<>>
  BY DEF WrittenPrefix, ReadsHeld
<1> QED
  BY DEF Init, Nothing

LEMMA WrittenStep ==
  TypeOK /\ PlaceInv /\ WireInv /\ AnswerInv /\ WrittenPrefix /\ [Next]_vars => WrittenPrefix'
<1> DEFINE Right(c) ==
      /\ \A i \in written[c] : points[c][i].converts
      /\ IF PointByPoint(c)
         THEN 1 .. next[c] - 1 \subseteq written[c] /\ written[c] \subseteq 1 .. next[c]
         ELSE /\ written[c] \in {{}, DOMAIN points[c]}
              /\ stage[c] = "ok" => written[c] = DOMAIN points[c] \/ c \in refused
<1> SUFFICES ASSUME TypeOK, PlaceInv, WireInv, AnswerInv, WrittenPrefix, [Next]_vars,
                    NEW d \in Commands, op[d] = "write"
             PROVE  Right(d)'
  BY Fixed DEF WrittenPrefix
<1>0. UNCHANGED <<adapter, op, points>> /\ PointByPoint(d)' = PointByPoint(d)
  BY Fixed, SamePart
<1>t. /\ stage \in [Commands -> {"new", "ready", "waiting"} \cup Over] /\ next \in [Commands -> Nat]
      /\ DOMAIN points[d] = 1 .. Len(points[d]) /\ Len(points[d]) \in Nat
      /\ written \in [Commands -> SUBSET Nat]
  BY PointsOf DEF TypeOK
<1>h. Right(d)
  BY DEF WrittenPrefix
<1> HIDE DEF Right
<1>q. ASSUME next'[d] = next[d], written'[d] = written[d], stage'[d] = "ok" => stage[d] = "ok",
             refused \subseteq refused'
      PROVE  Right(d)'
  BY <1>0, <1>h, <1>q DEF Right
<1>1. ASSUME NEW c \in Commands, Begin(c) PROVE Right(d)'
  BY <1>q, <1>t, <1>1 DEF Begin
<1>2. ASSUME NEW c \in Commands, Refuse(c) \/ TimeOut(c) PROVE Right(d)'
  <2>1. /\ stage' = [stage EXCEPT ![c] = "error"] /\ UNCHANGED <<next, written, refused>>
    BY <1>2, EndStep
  <2> QED
    BY <1>q, <1>t, <2>1
<1>3. ASSUME NEW c \in Commands, Send(c) PROVE Right(d)'
  BY <1>q, <1>t, <1>3 DEF Send
<1>4. ASSUME NEW c \in Commands, Resend(c) PROVE Right(d)'
  BY <1>q, <1>t, <1>4 DEF Resend
<1>5. ASSUME NEW c \in Commands, Receive(c) PROVE Right(d)'
  <2>1. PICK a \in answers :
          /\ a.of = c /\ a.at = next[c] /\ next[c] \in DOMAIN points[c]
          /\ \/ stage' = [stage EXCEPT ![c] = "error"] /\ UNCHANGED next
             \/ /\ Taken(c, a)
                /\ stage' = [stage EXCEPT ![c] = IF More(c) THEN "ready" ELSE "ok"]
                /\ next' = [next EXCEPT ![c] = IF More(c) THEN @ + 1 ELSE Len(points[c]) + 1]
          /\ UNCHANGED <<written, refused>>
    BY <1>5, ReceiveStep
  <2>2. CASE d # c
    BY <1>q, <1>t, <2>1, <2>2
  <2>3. CASE d = c /\ stage' = [stage EXCEPT ![c] = "error"] /\ UNCHANGED next
    BY <1>q, <1>t, <2>1, <2>3
  <2>4. CASE /\ d = c /\ Taken(c, a)
             /\ stage' = [stage EXCEPT ![c] = IF More(c) THEN "ready" ELSE "ok"]
             /\ next' = [next EXCEPT ![c] = IF More(c) THEN @ + 1 ELSE Len(points[c]) + 1]
    <3>1. /\ a.good \/ d \in refused
          /\ a.good => Part(d, next[d]) \subseteq written[d]
      BY <2>1, <2>4 DEF AnswerInv
    <3>2. CASE PointByPoint(d)
      <4>1. a.good /\ Part(d, next[d]) = {next[d]}
        BY <2>4, <3>2 DEF Taken, PointByPoint, Part
      <4>2. next'[d] = next[d] + 1
        BY <1>t, <2>1, <2>4, <3>2 DEF More
      <4> QED
        BY <1>0, <1>t, <1>h, <2>1, <3>1, <3>2, <4>1, <4>2 DEF Right
    <3>3. CASE ~PointByPoint(d)
      <4>1. Part(d, next[d]) = DOMAIN points[d]
        BY <3>3 DEF Part
      <4>2. written[d] = DOMAIN points[d] \/ d \in refused
        BY <1>h, <1>t, <2>1, <2>4, <3>1, <3>3, <4>1 DEF Right
      <4> QED
        BY <1>0, <1>h, <2>1, <3>3, <4>2 DEF Right
    <3> QED
      BY <3>2, <3>3
  <2> QED
    BY <2>1, <2>2, <2>3, <2>4
<1>6. ASSUME NEW r \in wire, Reject(r) PROVE Right(d)'
  BY <1>q, <1>6 DEF Reject
<1>7. ASSUME NEW r \in wire, Carry(r) PROVE Right(d)'
  <2>1. /\ UNCHANGED <<stage, next, refused>> /\ r.of \in Commands
        /\ written' = IF op[r.of] = "write" THEN [written EXCEPT ![r.of] = @ \cup Part(r.of, r.at)] ELSE written
    BY <1>7, CarryStep DEF Carry
  <2>2. CASE r.of # d
    BY <1>q, <1>t, <2>1, <2>2
  <2>3. CASE r.of = d
    <3>1. written'[d] = written[d] \cup Part(d, r.at)
      BY <1>t, <2>1, <2>3
    <3>2. /\ \A i \in Part(d, r.at) : points[d][i].converts
          /\ r.at <= next[d] /\ r.at \in DOMAIN points[d]
      BY <2>3 DEF WireInv, TypeOK
    <3>3. Part(d, r.at) = IF PointByPoint(d) THEN {r.at} ELSE DOMAIN points[d]
      BY DEF Part
    <3>4. CASE PointByPoint(d)
      BY <1>0, <1>t, <1>h, <2>1, <3>1, <3>2, <3>3, <3>4 DEF Right
    <3>5. CASE ~PointByPoint(d)
      BY <1>0, <1>h, <2>1, <3>1, <3>2, <3>3, <3>5 DEF Right
    <3> QED
      BY <3>4, <3>5
  <2> QED
    BY <2>2, <2>3
<1>8. CASE UNCHANGED vars
  BY <1>q, <1>8 DEF vars
<1> QED
  BY <1>1, <1>2, <1>3, <1>4, <1>5, <1>6, <1>7, <1>8 DEF Next, Step

\* A point that the answer to a read gives a value gets one its address has held,
\* or is a text that SNMP makes of what the device has refused.
LEMMA AnswerHeld ==
  ASSUME TypeOK, AnswerInv, NEW c \in Commands, op[c] = "read", NEW a \in answers, a.of = c,
         a.at \in DOMAIN points[c], Readable(c, a), NEW i \in Answered(c, a)
  PROVE  \/ a.values[points[c][i].address] \in held[c][points[c][i].address]
         \/ /\ a.values[points[c][i].address] = Null /\ adapter = "snmp" /\ c \in refused
            /\ points[c][i].text
<1> DEFINE x == points[c][i].address
<1>1. x \in DOMAIN a.values
  BY DEF Answered
<1>2. a.values[x] \in held[c][x] \/ (a.values[x] = Null /\ ~a.good /\ adapter = "snmp")
  BY <1>1 DEF AnswerInv
<1>3. a.good \/ c \in refused
  BY DEF AnswerInv
<1>4. adapter = "snmp" /\ a.values[x] = Null => points[c][i].text
  BY DEF Readable
<1> QED
  BY <1>2, <1>3, <1>4

\* An answer taken for a read gives a value to each point it is assigned to, unless
\* it answers a batch of SNMP that the device has refused.
LEMMA AnswerCovers ==
  ASSUME TypeOK, AnswerInv, NEW c \in Commands, op[c] = "read", NEW a \in answers, a.of = c,
         a.at \in DOMAIN points[c], Taken(c, a),
         ~ (adapter = "snmp" /\ Len(points[c]) > 1 /\ c \in refused)
  PROVE  Answered(c, a) = Assigned(c, a.at)
<1>1. Assigned(c, a.at) \subseteq DOMAIN points[c]
  BY AssignedPart
<1>2. \A i \in DOMAIN points[c] : points[c][i].address \in Addresses
  BY PointsOf DEF Points
<1>3. DOMAIN a.values = Addresses
  <2>1. a.good => DOMAIN a.values = Addresses
    BY DEF AnswerInv
  <2>2. a.good \/ c \in refused
    BY DEF AnswerInv
  <2>3. ~a.good => a.values # Nothing
    BY <2>2 DEF Taken
  <2> QED
    BY <2>1, <2>3, AnswerBrings
<1> QED
  BY <1>1, <1>2, <1>3 DEF Answered

LEMMA HeldStep ==
  TypeOK /\ PlaceInv /\ AnswerInv /\ ReadInv /\ ReadsHeld /\ [Next]_vars => ReadsHeld'
<1> DEFINE Batch(c) == adapter = "snmp" /\ Len(points[c]) > 1
           Seen(c) == \A i \in DOMAIN values[c] :
             \/ values[c][i] \in held[c][points[c][i].address]
             \/ values[c][i] = Null /\ adapter = "snmp" /\ c \in refused /\ points[c][i].text
           Covered(c) == \A i \in DOMAIN points[c] :
             (Batch(c) => points[c][i].dotted /\ c \notin refused) =>
             \E j \in DOMAIN values[c] : points[c][j].address = points[c][i].address
           Promise(c) == Seen(c) /\ (stage[c] = "ok" => Covered(c))
<1> SUFFICES ASSUME TypeOK, PlaceInv, AnswerInv, ReadInv, ReadsHeld, [Next]_vars,
                    NEW d \in Commands, op[d] = "read"
             PROVE  Promise(d)'
  BY Fixed DEF ReadsHeld
<1>0. UNCHANGED <<adapter, op, points>> /\ Batch(d)' = Batch(d)
  BY Fixed
<1>p. /\ DOMAIN points[d] = 1 .. Len(points[d]) /\ Len(points[d]) \in Nat
      /\ \A i \in DOMAIN points[d] : points[d][i].address \in Addresses
  BY PointsOf DEF Points
<1>t. /\ stage \in [Commands -> {"new", "ready", "waiting"} \cup Over] /\ next \in [Commands -> Nat]
      /\ DOMAIN values = Commands /\ DOMAIN values[d] \subseteq DOMAIN points[d]
      /\ held \in [Commands -> [Addresses -> SUBSET Stored]]
  BY DEF TypeOK
<1>h. Promise(d)
  BY DEF ReadsHeld
<1> HIDE DEF Batch
<1>q. ASSUME values'[d] = values[d], stage'[d] = "ok" => stage[d] = "ok",
             \A x \in Addresses : held[d][x] \subseteq held'[d][x], refused \subseteq refused'
      PROVE  Promise(d)'
  <2>1. Seen(d)'
    BY <1>0, <1>p, <1>t, <1>h, <1>q
  <2>2. stage'[d] = "ok" => Covered(d)'
    BY <1>0, <1>h, <1>q
  <2> QED
    BY <2>1, <2>2
<1> HIDE DEF Seen, Covered
<1>1. ASSUME NEW c \in Commands, Begin(c) PROVE Promise(d)'
  <2>1. CASE d # c
    BY <1>q, <1>t, <1>1, <2>1 DEF Begin
  <2>2. CASE d = c
    <3>1. stage'[d] = "ready" /\ values'[d] = <<>>
      BY <1>t, <1>1, <2>2 DEF Begin, ReadInv, Nothing
    <3> QED
      BY <3>1 DEF Seen
  <2> QED
    BY <2>1, <2>2
<1>2. ASSUME NEW c \in Commands, Refuse(c) \/ TimeOut(c) PROVE Promise(d)'
  <2>1. stage' = [stage EXCEPT ![c] = "error"] /\ UNCHANGED <<values, refused, held>>
    BY <1>2, EndStep
  <2> QED
    BY <1>q, <1>t, <2>1
<1>3. ASSUME NEW c \in Commands, Send(c) PROVE Promise(d)'
  BY <1>q, <1>t, <1>3 DEF Send
<1>4. ASSUME NEW c \in Commands, Resend(c) PROVE Promise(d)'
  BY <1>q, <1>4 DEF Resend
<1>5. ASSUME NEW c \in Commands, Receive(c) PROVE Promise(d)'
  <2>1. PICK a \in answers :
          /\ a.of = c /\ a.at = next[c] /\ next[c] \in DOMAIN points[c]
          /\ \/ stage' = [stage EXCEPT ![c] = "error"] /\ UNCHANGED values
             \/ /\ Taken(c, a) /\ Readable(c, a)
                /\ stage' = [stage EXCEPT ![c] = IF More(c) THEN "ready" ELSE "ok"]
                /\ values' = IF op[c] = "read" THEN [values EXCEPT ![c] = Merge(c, a)] ELSE values
          /\ UNCHANGED <<refused, held>>
    BY <1>5, ReceiveStep
  <2>2. CASE d # c
    BY <1>q, <1>t, <2>1, <2>2
  <2>3. CASE stage' = [stage EXCEPT ![c] = "error"] /\ UNCHANGED values
    BY <1>q, <1>t, <2>1, <2>3
  <2>4. CASE /\ d = c /\ Taken(c, a) /\ Readable(c, a)
             /\ stage' = [stage EXCEPT ![c] = IF More(c) THEN "ready" ELSE "ok"]
             /\ values' = [values EXCEPT ![c] = Merge(c, a)]
    <3>1. values'[d] = Merge(d, a)
      BY <1>t, <2>4
    <3>2. /\ DOMAIN Merge(d, a) = DOMAIN values[d] \cup Answered(d, a)
          /\ \A i \in DOMAIN Merge(d, a) : Merge(d, a)[i] =
                IF i \in Answered(d, a) THEN a.values[points[d][i].address] ELSE values[d][i]
      BY DEF Merge
    <3>3. \A i \in Answered(d, a) :
             \/ a.values[points[d][i].address] \in held[d][points[d][i].address]
             \/ /\ a.values[points[d][i].address] = Null /\ adapter = "snmp" /\ d \in refused
                /\ points[d][i].text
      BY <2>1, <2>4, AnswerHeld
    <3>5. Seen(d)'
      BY <1>0, <1>h, <2>1, <3>1, <3>2, <3>3 DEF Seen
    <3>6. ASSUME ~More(d), NEW i \in DOMAIN points[d],
                 Batch(d) => points[d][i].dotted /\ d \notin refused
          PROVE  \E j \in DOMAIN Merge(d, a) : points[d][j].address = points[d][i].address
      <4>1. CASE i \in Part(d, next[d])
        <5>1. Answered(d, a) = Assigned(d, next[d])
          BY <2>1, <2>4, <3>6, AnswerCovers DEF Batch
        <5>2. adapter = "snmp" /\ Len(points[d]) > 1 => points[d][i].dotted
          BY <3>6 DEF Batch
        <5>3. \E j \in Assigned(d, next[d]) : points[d][j].address = points[d][i].address
          BY <2>1, <2>4, <4>1, <5>2, AssignedFinds
        <5> QED
          BY <3>2, <5>1, <5>3
      <4>2. CASE i \notin Part(d, next[d])
        <5>1. PointByPoint(d) /\ i # next[d]
          BY <4>2 DEF Part
        <5>2. adapter = "http" /\ i \in 1 .. next[d] - 1
          BY <1>p, <1>t, <2>1, <2>4, <3>6, <5>1 DEF PointByPoint, More
        <5> QED
          BY <3>2, <5>2 DEF ReadInv
      <4> QED
        BY <4>1, <4>2
    <3>7. stage'[d] = "ok" => ~More(d)
      BY <1>t, <2>4
    <3>8. stage'[d] = "ok" => Covered(d)'
      BY <1>0, <2>1, <3>1, <3>6, <3>7 DEF Covered
    <3> QED
      BY <3>5, <3>8
  <2> QED
    BY <2>1, <2>2, <2>3, <2>4
<1>6. ASSUME NEW r \in wire, Carry(r) \/ Reject(r) PROVE Promise(d)'
  BY <1>q, <1>6, CarryStep
<1>7. CASE UNCHANGED vars
  BY <1>q, <1>7 DEF vars
<1> QED
  BY <1>1, <1>2, <1>3, <1>4, <1>5, <1>6, <1>7 DEF Next, Step

LEMMA Promises ==
  Spec => [](TypeOK /\ PlaceInv /\ WireInv /\ AnswerInv /\ ReadInv /\ WrittenPrefix /\ ReadsHeld)
<1>1. Init => TypeOK /\ PlaceInv /\ WireInv /\ AnswerInv /\ ReadInv /\ WrittenPrefix /\ ReadsHeld
  BY InitTypeOK, RequestInit, PromisesInit
<1>2. TypeOK /\ PlaceInv /\ WireInv /\ AnswerInv /\ ReadInv /\ WrittenPrefix /\ ReadsHeld /\ [Next]_vars
        => TypeOK' /\ PlaceInv' /\ WireInv' /\ AnswerInv' /\ ReadInv' /\ WrittenPrefix' /\ ReadsHeld'
  BY TypeStep, WireStep, AnswerStep, ReadStep, WrittenStep, HeldStep
<1> QED
  BY <1>1, <1>2, PTL DEF Spec

\* Whatever is lost, late or refused and however many commands there are, a write
\* has stored what the order of its adapter allows, and nothing that does not convert.
THEOREM WritesKeepOrder == Spec => []WrittenPrefix
BY Promises, PTL

\* A read returns values that their addresses have held since it began, and one
\* for every address if it returns without an error; except for what an SNMP agent
\* has refused, of which a text becomes a nil and a batch returns nothing.
THEOREM ReadsReturnHeld == Spec => []ReadsHeld
BY Promises, PTL

\* A write that has returned without an error stores nothing more, except with SNMP.
THEOREM OverIsOver == Spec => DoneIsDone
<1>1. TypeOK /\ WireInv /\ [Next]_vars
        => \A a \in Addresses : memory'[a] # memory[a]
              => adapter = "snmp" \/ stage[memory'[a]] # "ok"
  <2> SUFFICES ASSUME TypeOK, WireInv, [Next]_vars, NEW a \in Addresses,
                      memory'[a] # memory[a], adapter # "snmp"
               PROVE  stage[memory'[a]] # "ok"
    OBVIOUS
  <2>1. Next
    BY DEF vars
  <2>2. PICK r \in wire : Carry(r)
    BY <2>1 DEF Next, Step, Begin, Refuse, Send, Resend, TimeOut, Receive, Reject
  <2>3. memory'[a] = r.of
    BY <2>2 DEF Carry
  <2> QED
    BY <2>3 DEF WireInv
<1> QED
  BY <1>1, Promises, PTL DEF Spec, DoneIsDone

=============================================================================

-------------------------- MODULE RegistersProofs --------------------------
(***************************************************************************)
(* Proofs about Registers: the invariants and the action property of the   *)
(* reads and writes of a Modbus device, for every width of an address,     *)
(* every set of resources and values, every size of a batch and every      *)
(* limit of a request.                                                     *)
(***************************************************************************)
EXTENDS Registers, SequenceTheorems, WellFoundedInduction, TLAPS

-----------------------------------------------------------------------------
\* Arithmetic: the least and the greatest of some numbers, and remainders.

LEMMA LeastOf ==
    ASSUME NEW S \in SUBSET Nat, S # {}
    PROVE  Min(S) \in S /\ \A y \in S : Min(S) <= y
<1> DEFINE R == {ss \in Nat \X Nat : ss[1] < ss[2]}
<1>1. IsWellFoundedOn(R, Nat)
  BY NatLessThanWellFounded DEF OpToRel
<1>2. PICK x \in S : \A y \in S : ~(<<y, x>> \in R)
  BY <1>1, WFMin
<1>3. ASSUME NEW y \in S PROVE x <= y
  <2>1. <<y, x>> \notin R
    BY <1>2
  <2> QED
    BY <2>1
<1> QED
  BY <1>3 DEF Min

LEMMA GreatestOf ==
    ASSUME NEW S \in SUBSET Nat, S # {}, NEW n \in Nat, \A x \in S : x <= n
    PROVE  Max(S) \in S /\ \A y \in S : Max(S) >= y
<1> DEFINE R == {ss \in Nat \X Nat : ss[1] < ss[2]}
           T == {n - x : x \in S}
<1>1. IsWellFoundedOn(R, Nat)
  BY NatLessThanWellFounded DEF OpToRel
<1>2. T \in SUBSET Nat /\ T # {}
  <2>1. \A x \in S : n - x \in Nat
    OBVIOUS
  <2> QED
    BY <2>1
<1>3. PICK m \in T : \A y \in T : ~(<<y, m>> \in R)
  <2> HIDE DEF R, T
  <2> QED
    BY <1>1, <1>2, WFMin
<1>4. PICK x \in S : m = n - x
  OBVIOUS
<1>5. \A y \in S : x >= y
  <2> TAKE y \in S
  <2>1. <<n - y, m>> \notin R
    BY <1>3
  <2>2. ~(n - y < m)
    BY <1>2, <1>3, <2>1
  <2> QED
    BY <1>4, <2>2
<1> QED
  BY <1>5 DEF Max

\* Induction up to n, for the numbers of a set.
LEMMA UpTo ==
    ASSUME NEW n \in Nat, NEW Good, 1 \in Good, \A i \in 1 .. n - 1 : i \in Good => i + 1 \in Good
    PROVE  \A i \in 1 .. n : i \in Good
<1> DEFINE Bad == (1 .. n) \ Good
<1> SUFFICES ASSUME Bad # {} PROVE FALSE
  OBVIOUS
<1>1. Bad \in SUBSET Nat
  OBVIOUS
<1>2. Min(Bad) \in Bad /\ \A y \in Bad : Min(Bad) <= y
  BY <1>1, LeastOf
<1> DEFINE m == Min(Bad)
<1>3. m \in 1 .. n /\ m \notin Good /\ m # 1
  BY <1>2
<1> HIDE DEF m
<1>4. m - 1 \in 1 .. n - 1 /\ (m - 1) + 1 = m
  BY <1>3
<1>5. m - 1 \notin Bad
  BY <1>2, <1>3 DEF m
<1>6. m - 1 \in Good
  BY <1>4, <1>5
<1> QED
  BY <1>3, <1>4, <1>6

LEMMA ModSmall == ASSUME NEW m \in Nat, NEW x \in 0 .. m - 1 PROVE x % m = x
OBVIOUS

LEMMA ModRange == ASSUME NEW m \in Nat, m > 0, NEW x \in Int PROVE x % m \in 0 .. m - 1
OBVIOUS

LEMMA Small == ASSUME NEW x \in Addresses PROVE x % Modulus = x
<1>1. Modulus \in Nat /\ x \in 0 .. Modulus - 1
  BY RegistersAssumption DEF Addresses
<1> QED
  BY <1>1, ModSmall

LEMMA Remainder == ASSUME NEW x \in Int PROVE x % Modulus \in Addresses
<1>1. Modulus \in Nat /\ Modulus > 0
  BY RegistersAssumption
<1> QED
  BY <1>1, ModRange DEF Addresses

-----------------------------------------------------------------------------
\* FlattenSeq appends the sequences one after the other.
Rows(n, S) == [1 .. n -> Seq(S)]
Starts(n) == [1 .. n -> Nat]

Appends(f, ws, n) ==
    /\ f[1] = ws[1]
    /\ \A i \in 1 .. n - 1 : f[i + 1] = f[i] \o ws[i + 1]

LEMMA FlattenSteps ==
    ASSUME NEW S, NEW n \in Nat, n >= 1, NEW ws \in Rows(n, S)
    PROVE  \E f \in Rows(n, S) : Appends(f, ws, n) /\ FlattenSeq(ws) = f[n]
<1> USE DEF Rows
<1> DEFINE Steps(f, m) == f = [i \in 1 .. m |-> IF i = 1 THEN ws[i] ELSE f[i - 1] \o ws[i]]
           Good == {m \in 1 .. n : \E f \in [1 .. m -> Seq(S)] : Steps(f, m)}
<1>1. 1 \in Good
  <2> DEFINE f == [i \in 1 .. 1 |-> ws[1]]
  <2>1. f \in [1 .. 1 -> Seq(S)]
    OBVIOUS
  <2>2. f = [i \in 1 .. 1 |-> IF i = 1 THEN ws[i] ELSE f[i - 1] \o ws[i]]
    OBVIOUS
  <2>3. Steps(f, 1)
    BY <2>2
  <2> HIDE DEF Steps, f
  <2> QED
    BY <2>1, <2>3
<1>2. ASSUME NEW m \in 1 .. n - 1, m \in Good
      PROVE  m + 1 \in Good
  <2>1. PICK f \in [1 .. m -> Seq(S)] : Steps(f, m)
    BY <1>2
  <2> DEFINE g == [i \in 1 .. m + 1 |-> IF i = m + 1 THEN f[m] \o ws[m + 1] ELSE f[i]]
  <2>2. m \in 1 .. m /\ f[m] \in Seq(S) /\ ws[m + 1] \in Seq(S) /\ m + 1 \in 1 .. n
    OBVIOUS
  <2>3. f[m] \o ws[m + 1] \in Seq(S)
    BY <2>2, ConcatProperties
  <2>4. g \in [1 .. m + 1 -> Seq(S)]
    BY <2>3
  <2>5. ASSUME NEW i \in 1 .. m + 1
        PROVE  g[i] = IF i = 1 THEN ws[i] ELSE g[i - 1] \o ws[i]
    <3>1. CASE i = m + 1
      <4>1. g[i] = f[m] \o ws[m + 1] /\ g[i - 1] = f[m] /\ i # 1
        BY <3>1, SMTT(30)
      <4> QED
        BY <3>1, <4>1
    <3>2. CASE i # m + 1
      <4>1. i \in 1 .. m /\ g[i] = f[i] /\ (i # 1 => g[i - 1] = f[i - 1])
        BY <3>2
      <4> QED
        BY <2>1, <4>1
    <3> QED
      BY <3>1, <3>2
  <2>6. Steps(g, m + 1)
    BY <2>5
  <2> HIDE DEF g, Steps
  <2> QED
    BY <2>2, <2>4, <2>6
<1>3. n \in Good
  <2> HIDE DEF Good
  <2>1. \A i \in 1 .. n : i \in Good
    BY <1>1, <1>2, UpTo
  <2> QED
    BY <2>1
<1>4. PICK e \in [1 .. n -> Seq(S)] : Steps(e, n)
  BY <1>3
<1> DEFINE f == CHOOSE f : Steps(f, n)
<1>5. Steps(f, n)
  BY <1>4
<1>6. FlattenSeq(ws) = f[n]
  <2>1. Len(ws) = n /\ n # 0
    BY SeqDef
  <2> QED
    BY <2>1 DEF FlattenSeq
<1> HIDE DEF f
<1>7. /\ DOMAIN f = 1 .. n /\ f[1] = ws[1]
      /\ \A i \in 1 .. n - 1 : f[i + 1] = f[i] \o ws[i + 1]
  <2> DEFINE g == [i \in 1 .. n |-> IF i = 1 THEN ws[i] ELSE f[i - 1] \o ws[i]]
  <2>1. DOMAIN g = 1 .. n /\ g[1] = ws[1]
        /\ \A i \in 1 .. n - 1 : g[i + 1] = f[i] \o ws[i + 1]
    <3>1. DOMAIN g = 1 .. n /\ \A i \in 1 .. n :
              g[i] = IF i = 1 THEN ws[i] ELSE f[i - 1] \o ws[i]
      OBVIOUS
    <3> HIDE DEF g
    <3>2. g[1] = ws[1]
      BY <3>1
    <3>3. ASSUME NEW i \in 1 .. n - 1
          PROVE  g[i + 1] = f[i] \o ws[i + 1]
      <4>1. i + 1 \in 1 .. n /\ i + 1 # 1 /\ (i + 1) - 1 = i
        OBVIOUS
      <4> QED
        BY <3>1, <4>1
    <3> QED
      BY <3>1, <3>2, <3>3
  <2>2. f = g
    BY <1>5
  <2> HIDE DEF g
  <2> QED
    BY <2>1, <2>2
<1>8. \A i \in 1 .. n : f[i] \in Seq(S)
  <2> DEFINE Typed == {i \in 1 .. n : f[i] \in Seq(S)}
  <2>1. 1 \in Typed
    BY <1>7
  <2>2. ASSUME NEW i \in 1 .. n - 1, i \in Typed
        PROVE  i + 1 \in Typed
    <3>1. f[i] \in Seq(S) /\ ws[i + 1] \in Seq(S) /\ i + 1 \in 1 .. n
      BY <2>2
    <3>2. f[i] \o ws[i + 1] \in Seq(S)
      BY <3>1, ConcatProperties
    <3> QED
      BY <1>7, <3>1, <3>2
  <2>3. \A i \in 1 .. n : i \in Typed
    <3> HIDE DEF Typed
    <3> QED
      BY <2>1, <2>2, UpTo
  <2> QED
    BY <2>3
<1>9. f \in [1 .. n -> Seq(S)]
  <2>1. f = [i \in 1 .. n |-> f[i]]
    BY <1>5
  <2> QED
    BY <1>8, <2>1
<1> QED
  BY <1>6, <1>7, <1>9 DEF Appends

\* Where the parts of a sequence are, if each begins where the last one ends.
LEMMA FlattenParts ==
    ASSUME NEW S, NEW n \in Nat, n >= 1, NEW ws \in Rows(n, S),
           NEW start \in Starts(n),
           \A i \in 1 .. n - 1 : start[i + 1] = start[i] + Len(ws[i])
    PROVE  /\ FlattenSeq(ws) \in Seq(S)
           /\ \A i \in 1 .. n : start[1] <= start[i]
           /\ \A i \in 1 .. n : \A k \in 1 .. Len(ws[i]) :
                 /\ start[i] - start[1] + k \in 1 .. Len(FlattenSeq(ws))
                 /\ FlattenSeq(ws)[start[i] - start[1] + k] = ws[i][k]
           /\ \A x \in 1 .. Len(FlattenSeq(ws)) :
                 \E i \in 1 .. n : \E k \in 1 .. Len(ws[i]) : x = start[i] - start[1] + k
<1>1. PICK f \in [1 .. n -> Seq(S)] :
         /\ f[1] = ws[1]
         /\ \A i \in 1 .. n - 1 : f[i + 1] = f[i] \o ws[i + 1]
         /\ FlattenSeq(ws) = f[n]
  <2>1. \E f \in Rows(n, S) : Appends(f, ws, n) /\ FlattenSeq(ws) = f[n]
    BY FlattenSteps
  <2> QED
    BY <2>1 DEF Rows, Appends
<1> USE DEF Rows, Starts
<1>2. \A i \in 1 .. n : /\ start[i] \in Nat /\ ws[i] \in Seq(S) /\ f[i] \in Seq(S)
                        /\ Len(ws[i]) \in Nat /\ Len(f[i]) \in Nat
  BY LenProperties
<1> DEFINE Ends(m) == Len(f[m]) = start[m] + Len(ws[m]) - start[1]
           Follows(m) == \A i \in 1 .. m : start[1] <= start[i]
           Holds(m) == \A i \in 1 .. m : \A k \in 1 .. Len(ws[i]) :
               /\ start[i] - start[1] + k \in 1 .. Len(f[m])
               /\ f[m][start[i] - start[1] + k] = ws[i][k]
           Covers(m) == \A x \in 1 .. Len(f[m]) :
               \E i \in 1 .. m : \E k \in 1 .. Len(ws[i]) : x = start[i] - start[1] + k
           Good == {m \in 1 .. n : Ends(m) /\ Follows(m) /\ Holds(m) /\ Covers(m)}
<1>3. 1 \in Good
  <2>1. 1 \in 1 .. n /\ f[1] = ws[1]
    BY <1>1
  <2>2. Ends(1) /\ Follows(1) /\ Holds(1)
    BY <1>2, <2>1
  <2>3. Covers(1)
    BY <1>2, <2>1
  <2> HIDE DEF Ends, Follows, Holds, Covers
  <2> QED
    BY <2>1, <2>2, <2>3
<1>4. ASSUME NEW m \in 1 .. n - 1, m \in Good
      PROVE  m + 1 \in Good
  <2>1. /\ m \in 1 .. n /\ m + 1 \in 1 .. n
        /\ f[m + 1] = f[m] \o ws[m + 1]
        /\ start[m + 1] = start[m] + Len(ws[m])
    <3>1. m \in 1 .. n /\ m + 1 \in 1 .. n
      OBVIOUS
    <3> QED
      BY <1>1, <3>1
  <2>2. Ends(m) /\ Follows(m) /\ Holds(m) /\ Covers(m)
    BY <1>4
  <2>3. /\ Len(f[m + 1]) = Len(f[m]) + Len(ws[m + 1])
        /\ \A x \in 1 .. Len(f[m]) + Len(ws[m + 1]) :
              f[m + 1][x] = IF x <= Len(f[m]) THEN f[m][x] ELSE ws[m + 1][x - Len(f[m])]
    <3>1. f[m] \in Seq(S) /\ ws[m + 1] \in Seq(S)
      BY <1>2, <2>1
    <3> DEFINE old == f[m]
               added == ws[m + 1]
               new == f[m + 1]
    <3>2. old \in Seq(S) /\ added \in Seq(S) /\ new = old \o added
      BY <2>1, <3>1
    <3> HIDE DEF old, added, new
    <3>3. /\ Len(new) = Len(old) + Len(added)
          /\ \A x \in 1 .. Len(old) + Len(added) :
                new[x] = IF x <= Len(old) THEN old[x] ELSE added[x - Len(old)]
      BY <3>2, ConcatProperties
    <3> QED
      BY <3>3 DEF old, added, new
  <2>4. Len(f[m]) = start[m + 1] - start[1]
    <3>1. Len(f[m]) = start[m] + Len(ws[m]) - start[1]
      <4>1. Ends(m)
        <5> HIDE DEF Ends, Follows, Holds, Covers
        <5> QED
          BY <2>2
      <4> QED
        BY <4>1
    <3>2. start[m + 1] = start[m] + Len(ws[m])
      BY <2>1
    <3> QED
      BY <3>1, <3>2, SMTT(30)
  <2>5. 1 \in 1 .. n
    BY <1>4
  <2>6. Ends(m + 1) /\ start[1] <= start[m + 1]
    <3> DEFINE first == start[1]
               last == start[m + 1]
               old == Len(f[m])
               added == Len(ws[m + 1])
               all == Len(f[m + 1])
    <3>1. first \in Nat
      BY <1>2, <2>5
    <3>2. last \in Nat /\ added \in Nat
      BY <1>2, <2>1
    <3>3. old \in Nat
      BY <1>2, <2>1
    <3>4. all = old + added /\ old = last - first
      BY <2>3, <2>4
    <3>5. all = last + added - first /\ first <= last
      <4> HIDE DEF first, last, old, added, all
      <4> QED
        BY <3>1, <3>2, <3>3, <3>4
    <3> QED
      BY <3>5
  <2>7. start[1] <= start[m + 1]
    BY <2>6
  <2>8. ASSUME NEW i \in 1 .. m + 1, NEW k \in 1 .. Len(ws[i])
        PROVE  /\ start[i] - start[1] + k \in 1 .. Len(f[m + 1])
               /\ f[m + 1][start[i] - start[1] + k] = ws[i][k]
    <3>1. i \in 1 .. n
      BY <2>1
    <3>2. k \in Nat /\ k >= 1 /\ k <= Len(ws[i])
      BY <1>2, <3>1
    <3>3. CASE i = m + 1
      <4> DEFINE x == start[i] - start[1] + k
             len == Len(f[m])
             more == Len(ws[m + 1])
      <4>1. x = len + k
        BY <2>4, <3>3
      <4>2. len \in Nat /\ more \in Nat /\ k <= more
        BY <1>2, <2>1, <3>2, <3>3
      <4> HIDE DEF x, len, more
      <4>3. k \in Nat /\ k >= 1
        BY <3>2
      <4>4. x \in 1 .. len + more /\ ~(x <= len) /\ x - len = k
        BY <4>1, <4>2, <4>3
      <4>5. x \in 1 .. Len(f[m + 1]) /\ f[m + 1][x] = ws[i][k]
        BY <2>3, <3>3, <4>4 DEF len, more
      <4> QED
        BY <4>5 DEF x
    <3>4. CASE i # m + 1
      <4> DEFINE x == start[i] - start[1] + k
      <4>1. i \in 1 .. m
        BY <3>4
      <4>2. x \in 1 .. Len(f[m]) /\ f[m][x] = ws[i][k]
        BY <2>2, <4>1
      <4> HIDE DEF x
      <4>3. x \in 1 .. Len(f[m]) + Len(ws[m + 1]) /\ x <= Len(f[m])
        BY <1>2, <2>1, <4>2
      <4>4. x \in 1 .. Len(f[m + 1]) /\ f[m + 1][x] = ws[i][k]
        BY <2>3, <4>2, <4>3
      <4> QED
        BY <4>4 DEF x
    <3> QED
      BY <3>3, <3>4
  <2>9. Follows(m + 1)
    <3> SUFFICES ASSUME NEW i \in 1 .. m + 1
                 PROVE  start[1] <= start[i]
      OBVIOUS
    <3>1. CASE i = m + 1
      BY <2>7, <3>1
    <3>2. CASE i # m + 1
      <4>1. i \in 1 .. m
        BY <3>2
      <4> QED
        BY <2>2, <4>1
    <3> QED
      BY <3>1, <3>2
  <2>10. Holds(m + 1)
    BY <2>8
  <2>11. Covers(m + 1)
    <3> SUFFICES ASSUME NEW x \in 1 .. Len(f[m + 1])
                 PROVE  \E i \in 1 .. m + 1 : \E k \in 1 .. Len(ws[i]) : x = start[i] - start[1] + k
      OBVIOUS
    <3>1. CASE x <= Len(f[m])
      <4>1. x \in 1 .. Len(f[m])
        BY <1>2, <2>1, <3>1
      <4>2. PICK i \in 1 .. m : \E k \in 1 .. Len(ws[i]) : x = start[i] - start[1] + k
        BY <2>2, <4>1
      <4>3. i \in 1 .. m + 1
        OBVIOUS
      <4> QED
        BY <4>2, <4>3
    <3>2. CASE ~(x <= Len(f[m]))
      <4> DEFINE k == x - Len(f[m])
      <4>1. k \in 1 .. Len(ws[m + 1])
        BY <1>2, <2>1, <2>3, <3>2
      <4>2. x = start[m + 1] - start[1] + k
        <5> DEFINE len == Len(f[m])
        <5>1. len \in Nat /\ x \in Int /\ k = x - len /\ len = start[m + 1] - start[1]
          BY <1>2, <2>1, <2>4
        <5> HIDE DEF len, k
        <5>2. x = len + k
          BY <5>1
        <5> QED
          BY <5>1, <5>2
      <4>3. m + 1 \in 1 .. m + 1
        OBVIOUS
      <4> HIDE DEF k
      <4> QED
        BY <4>1, <4>2, <4>3
    <3> QED
      BY <3>1, <3>2
  <2> HIDE DEF Ends, Follows, Holds, Covers
  <2> QED
    BY <2>1, <2>6, <2>9, <2>10, <2>11
<1>5. n \in Good
  <2> HIDE DEF Good
  <2>1. \A i \in 1 .. n : i \in Good
    BY <1>3, <1>4, UpTo
  <2> QED
    BY <2>1
<1>6. FlattenSeq(ws) \in Seq(S)
  BY <1>1
<1> QED
  BY <1>1, <1>5, <1>6

-----------------------------------------------------------------------------
\* A resource of a command.
LEMMA CommandType ==
    ASSUME NEW reqs \in Commands
    PROVE  /\ reqs \in Seq(Resources)
           /\ DOMAIN reqs = 1 .. Len(reqs)
           /\ Len(reqs) \in 1 .. MaxBatch
           /\ 1 \in DOMAIN reqs
           /\ \A i \in DOMAIN reqs : reqs[i] \in Resources
<1>1. PICK n \in 1 .. MaxBatch : reqs \in [1 .. n -> Resources]
  BY DEF Commands
<1>2. n \in Nat /\ reqs \in Seq(Resources)
  BY <1>1, RegistersAssumption, SeqDef
<1>3. Len(reqs) = n /\ DOMAIN reqs = 1 .. n
  BY <1>1, <1>2
<1> QED
  BY <1>1, <1>2, <1>3, RegistersAssumption

LEMMA ResourceType ==
    ASSUME NEW r \in Resources
    PROVE  /\ r.address \in Nat /\ r.address >= 1 /\ r.address < Modulus
           /\ r.length \in Nat /\ r.length < Modulus
           /\ r.type \in Types
           /\ getTableType(r) \in Tables
           /\ Protocol(r.address) = r.address - 1
<1>1. /\ r.address \in Nat /\ r.address >= 1 /\ r.address < Modulus
      /\ r.length \in Nat /\ r.length < Modulus /\ r.type \in Types
  BY RegistersAssumption DEF Addresses
<1>2. r.address - 1 \in Addresses
  BY <1>1, RegistersAssumption DEF Addresses
<1> QED
  BY <1>1, <1>2, Small DEF getTableType, Protocol, Tables

\* Where the span of a batch begins, and where its points are in it.
LEMMA Span ==
    ASSUME NEW reqs \in Commands
    PROVE  /\ MinAddr(reqs) \in Nat /\ MinAddr(reqs) >= 1 /\ MinAddr(reqs) < Modulus
           /\ Protocol(MinAddr(reqs)) = MinAddr(reqs) - 1
           /\ Quantity(reqs) \in Nat
           /\ \E i \in DOMAIN reqs : MinAddr(reqs) = reqs[i].address
           /\ \A i \in DOMAIN reqs :
                 /\ MinAddr(reqs) <= reqs[i].address
                 /\ Offset(reqs[i], reqs) = reqs[i].address - MinAddr(reqs)
<1> DEFINE S == {Modulus - 1} \cup {reqs[i].address : i \in DOMAIN reqs}
           low == MinAddr(reqs)
<1>1. \A i \in DOMAIN reqs : reqs[i].address \in Nat /\ reqs[i].address >= 1
                             /\ reqs[i].address < Modulus
  BY CommandType, ResourceType
<1>2. S \in SUBSET Nat /\ S # {} /\ \A x \in S : x >= 1 /\ x < Modulus
  BY <1>1, RegistersAssumption
<1>3. low \in S /\ \A x \in S : low <= x
  BY <1>2, LeastOf DEF MinAddr
<1>4. low \in Nat /\ low >= 1 /\ low < Modulus /\ \A i \in DOMAIN reqs : low <= reqs[i].address
  BY <1>2, <1>3
<1>5. \E i \in DOMAIN reqs : low = reqs[i].address
  <2>1. 1 \in DOMAIN reqs
    BY CommandType
  <2>2. CASE low = Modulus - 1
    BY <1>1, <1>4, <2>1, <2>2, RegistersAssumption
  <2> QED
    BY <1>3, <2>2
<1> HIDE DEF low
<1>6. Protocol(low) = low - 1
  <2>1. low - 1 \in Addresses
    BY <1>4, RegistersAssumption DEF Addresses
  <2> QED
    BY <2>1, Small DEF Protocol
<1>7. ASSUME NEW i \in DOMAIN reqs
      PROVE  Offset(reqs[i], reqs) = reqs[i].address - low
  <2>1. reqs[i].address - low \in Addresses
    BY <1>1, <1>4, RegistersAssumption DEF Addresses
  <2> QED
    BY <2>1, Small DEF Offset, low
<1>8. Quantity(reqs) \in Nat
  <2> DEFINE E == {0} \cup {EndAddr(reqs[i]) : i \in DOMAIN reqs}
  <2>1. \A i \in DOMAIN reqs : EndAddr(reqs[i]) \in Addresses
    BY CommandType, ResourceType, Remainder DEF EndAddr
  <2>2. E \in SUBSET Nat /\ E # {} /\ \A x \in E : x <= Modulus
    BY <2>1, RegistersAssumption DEF Addresses
  <2>3. Max(E) \in Nat
    BY <2>2, GreatestOf, RegistersAssumption
  <2>4. (Max(E) - low) % Modulus \in Addresses
    BY <1>4, <2>3, Remainder
  <2> QED
    BY <2>4 DEF Quantity, low, Addresses
<1> QED
  BY <1>4, <1>5, <1>6, <1>7, <1>8 DEF low

\* What a request gets.
LEMMA CellsRead ==
    ASSUME TypeOK, NEW t \in Tables, NEW a \in Nat, NEW q \in Nat, a + q <= Modulus
    PROVE  /\ Cells(t, a, q) \in Seq(Nat)
           /\ Len(Cells(t, a, q)) = q
           /\ \A k \in 1 .. q : Cells(t, a, q)[k] = memory[t][a + k - 1]
<1>1. \A k \in 1 .. q : a + k - 1 \in Addresses
  BY RegistersAssumption DEF Addresses
<1>2. \A k \in 1 .. q : memory[t][a + k - 1] \in Nat
  BY <1>1 DEF TypeOK
<1>3. Cells(t, a, q) \in [1 .. q -> Nat]
  BY <1>2 DEF Cells
<1>4. Cells(t, a, q) \in Seq(Nat)
  BY <1>3, SeqDef
<1>5. DOMAIN Cells(t, a, q) = 1 .. q
  BY <1>3
<1>6. Len(Cells(t, a, q)) = q
  BY <1>4, <1>5, LenProperties
<1> QED
  BY <1>4, <1>6 DEF Cells

-----------------------------------------------------------------------------
\* The type that cells of a table have.
RawKind(t, length) ==
    IF length > 1 THEN IF t \in Bits THEN "BoolArray" ELSE "Uint16Array"
                  ELSE IF t \in Bits THEN "Bool" ELSE "Uint16"

LEMMA RawValue ==
    ASSUME NEW r \in Resources, NEW t \in Tables, NEW cells \in Seq(Nat),
           Len(cells) = r.length, r.length >= 1,
           NEW raw, raw = extractRegisterValue(t, cells, r.length)
    PROVE  raw = Value(RawKind(t, r.length), cells)
<1>1. CASE r.length > 1
  BY <1>1 DEF extractRegisterValue, RawKind
<1>2. CASE ~(r.length > 1)
  <2>1. r.length = 1
    BY <1>2, ResourceType
  <2>2. cells = <<cells[1]>>
    BY <2>1
  <2> QED
    BY <1>2, <2>2 DEF extractRegisterValue, RawKind
<1> QED
  BY <1>1, <1>2

\* A value that is made of cells is made of the first of them and has the type
\* of its resource.
LEMMA Decoded ==
    ASSUME NEW r \in Resources, NEW kind, NEW cells \in Seq(Nat), cells # <<>>,
           NEW v, v = CommandValue(r, Value(kind, cells)), v # Error
    PROVE  \E n \in 1 .. Len(cells) : v = Value(r.type, SubSeq(cells, 1, n))
<1>1. Len(cells) \in Nat /\ Len(cells) >= 1
  BY EmptySeq
<1>2. CASE r.decoder = ""
  <2>1. v = Value(kind, cells) /\ kind = r.type
    BY <1>2 DEF CommandValue, Value
  <2>2. SubSeq(cells, 1, Len(cells)) = cells
    BY SubSeqFull
  <2>3. v = Value(r.type, SubSeq(cells, 1, Len(cells)))
    BY <2>1, <2>2
  <2> QED
    BY <1>1, <2>3
<1>3. CASE r.decoder # ""
  <2>1. v = DecodeRData(r.decoder, Value(kind, cells)) /\ v.kind = r.type
    BY <1>3 DEF CommandValue
  <2> DEFINE n == Decoders[r.decoder].words
  <2>2. /\ r.decoder \in DOMAIN Decoders
        /\ Len(cells) >= n
        /\ v = Value(Decoders[r.decoder].kind, SubSeq(cells, 1, n))
    BY <2>1 DEF DecodeRData, Value
  <2>3. n \in {2, 3}
    BY <2>2 DEF Decoders, Value
  <2>4. v = Value(r.type, SubSeq(cells, 1, n))
    <3> DEFINE kept == SubSeq(cells, 1, n)
               made == Decoders[r.decoder].kind
    <3>1. v = Value(made, kept)
      BY <2>2
    <3> HIDE DEF kept, made
    <3>2. v.kind = made
      BY <3>1 DEF Value
    <3>3. made = r.type
      BY <2>1, <3>2
    <3> QED
      BY <3>1, <3>3 DEF kept
  <2> HIDE DEF n
  <2>5. n \in 1 .. Len(cells)
    BY <1>1, <2>2, <2>3
  <2> QED
    BY <2>4, <2>5
<1> QED
  BY <1>2, <1>3

\* Whether it is decoded depends on the type and the number of the cells.
LEMMA DecodesAlike ==
    ASSUME NEW r \in Resources, NEW kind, NEW cells \in Seq(Nat), NEW others \in Seq(Nat),
           Len(cells) = Len(others), CommandValue(r, Value(kind, cells)) # Error
    PROVE  CommandValue(r, Value(kind, others)) # Error
BY ResourceType DEF CommandValue, DecodeRData, Value, Error, Types

LEMMA NilFails == ASSUME NEW r \in Resources PROVE CommandValue(r, Nil) = Error
BY ResourceType DEF CommandValue, DecodeRData, Nil, Value, Types, Error

-----------------------------------------------------------------------------
\* The cells of a table at the address of a resource.
Part(t, r) == Cells(t, r.address - 1, r.length)

LEMMA PartRead ==
    ASSUME TypeOK, NEW r \in Resources, NEW t \in Tables, r.address + r.length <= Modulus + 1
    PROVE  /\ Part(t, r) \in Seq(Nat)
           /\ Len(Part(t, r)) = r.length
           /\ \A k \in 1 .. r.length : Part(t, r)[k] = memory[t][r.address + k - 2]
           /\ Registers(r) = Part(getTableType(r), r)
<1>1. r.address - 1 \in Nat /\ r.length \in Nat /\ (r.address - 1) + r.length <= Modulus
      /\ r.address \in Nat
  <2> DEFINE address == r.address
             length == r.length
  <2>1. address \in Nat /\ address >= 1 /\ length \in Nat /\ Modulus \in Nat
        /\ address + length <= Modulus + 1
    BY ResourceType, RegistersAssumption
  <2> HIDE DEF address, length
  <2>2. address - 1 \in Nat /\ (address - 1) + length <= Modulus
    BY <2>1
  <2> QED
    BY <2>1, <2>2 DEF address, length
<1>2. \A k \in 1 .. r.length : (r.address - 1) + k - 1 = r.address + k - 2
  BY <1>1
<1>3. Registers(r) = Part(getTableType(r), r)
  BY <1>2 DEF Registers, Cells, Part
<1> DEFINE a == r.address - 1
<1>4. Cells(t, a, r.length) \in Seq(Nat) /\ Len(Cells(t, a, r.length)) = r.length
  BY <1>1, CellsRead
<1>5. \A k \in 1 .. r.length : Part(t, r)[k] = memory[t][r.address + k - 2]
  BY <1>2 DEF Part, Cells
<1> QED
  BY <1>3, <1>4, <1>5 DEF Part

\* What a value that is not an error is made of.
LEMMA DecodedRight ==
    ASSUME TypeOK, NEW r \in Resources, NEW t \in Tables,
           r.address + r.length <= Modulus + 1, r.length >= 1,
           NEW v, v # Error,
           v = CommandValue(r, extractRegisterValue(t, Part(t, r), r.length))
    PROVE  /\ v.kind = r.type /\ IsPrefix(v.words, Part(t, r)) /\ v.words # <<>>
           /\ v \in [kind : Types, words : Seq(Nat)]
<1> DEFINE cells == Part(t, r)
<1>1. cells \in Seq(Nat) /\ Len(cells) = r.length /\ r.length \in Nat
  BY PartRead, ResourceType
<1>2. cells # <<>>
  BY <1>1, EmptySeq
<1>3. v = CommandValue(r, Value(RawKind(t, r.length), cells))
  BY <1>1, RawValue
<1> HIDE DEF cells
<1>4. PICK n \in 1 .. Len(cells) : v = Value(r.type, SubSeq(cells, 1, n))
  BY <1>1, <1>2, <1>3, Decoded
<1> DEFINE kept == SubSeq(cells, 1, n)
<1>5. n \in Nat /\ n >= 1 /\ n <= Len(cells)
  BY <1>1, <1>4
<1>6. /\ kept \in Seq(Nat) /\ Len(kept) = n
      /\ \A k \in 1 .. n : kept[k] = cells[k]
  <2>1. \A k \in 1 .. n : cells[k] \in Nat
    BY <1>1, <1>5
  <2> QED
    BY <2>1, <1>5
<1>7. v.kind = r.type /\ v.words = kept
  BY <1>4 DEF Value
<1>8. SubSeq(kept, 1, Len(kept)) = kept
  BY <1>6, SubSeqFull
<1>9. kept # <<>>
  BY <1>5, <1>6, EmptySeq
<1>10. IsPrefix(kept, cells)
  BY <1>5, <1>6, <1>8 DEF IsPrefix
<1>11. v \in [kind : Types, words : Seq(Nat)]
  BY <1>4, <1>6, ResourceType DEF Value
<1> QED
  BY <1>7, <1>9, <1>10, <1>11 DEF cells

\* A batch gives each point the cells at its own address, or nil.
LEMMA AssignedRight ==
    ASSUME TypeOK, NEW reqs \in Commands, NEW i \in DOMAIN reqs, NEW t \in Tables,
           MinAddr(reqs) - 1 + Quantity(reqs) <= Modulus,
           NEW cells, cells = Cells(t, MinAddr(reqs) - 1, Quantity(reqs)),
           ~AssignPanics(reqs, cells)
    PROVE  LET r == reqs[i] IN
           \/ /\ assignResValue(r, reqs, t, cells) = Nil
              /\ ~(Offset(r, reqs) + r.length <= Quantity(reqs))
           \/ /\ r.length >= 1
              /\ r.address + r.length <= Modulus + 1
              /\ assignResValue(r, reqs, t, cells)
                     = extractRegisterValue(t, Part(t, r), r.length)
<1> DEFINE r == reqs[i]
           low == MinAddr(reqs)
           q == Quantity(reqs)
           offset == Offset(r, reqs)
<1>1. r \in Resources
  BY CommandType
<1>2. /\ r.address \in Nat /\ r.address >= 1 /\ r.address < Modulus
      /\ r.length \in Nat /\ r.length < Modulus
  BY <1>1, ResourceType
<1>3. low \in Nat /\ low >= 1 /\ q \in Nat /\ low <= r.address /\ offset = r.address - low
  BY Span
<1>4. /\ cells \in Seq(Nat) /\ Len(cells) = q
      /\ \A k \in 1 .. q : cells[k] = memory[t][low - 1 + k - 1]
  <2> DEFINE a == low - 1
  <2>1. a \in Nat /\ a + q <= Modulus /\ cells = Cells(t, a, q)
    BY <1>3
  <2> HIDE DEF a, low, q
  <2>2. /\ cells \in Seq(Nat) /\ Len(cells) = q
        /\ \A k \in 1 .. q : cells[k] = memory[t][a + k - 1]
    BY <1>1, <1>3, <2>1, CellsRead
  <2> QED
    BY <2>2 DEF a
<1> HIDE DEF r, low, q, offset
<1>5. CASE ~(offset + r.length <= Len(cells))
  BY <1>4, <1>5 DEF assignResValue, offset, r, q
<1>6. CASE offset + r.length <= Len(cells)
  <2>1. r.length >= 1
    <3>1. ~(r.length = 0 /\ offset <= Len(cells))
      BY DEF AssignPanics, offset, r
    <3> DEFINE length == r.length
               len == Len(cells)
    <3>2. length \in Nat /\ offset + length <= len /\ ~(length = 0 /\ offset <= len)
      BY <1>2, <1>6, <3>1
    <3>3. offset \in Nat
      BY <1>2, <1>3
    <3>4. length >= 1
      <4> HIDE DEF length, len
      <4> QED
        BY <3>2, <3>3
    <3> QED
      BY <3>4
  <2>2. r.address + r.length <= Modulus + 1
    <3> DEFINE address == r.address
               length == r.length
    <3>1. /\ address \in Nat /\ length \in Nat /\ low \in Nat /\ Modulus \in Nat /\ q \in Nat
          /\ offset = address - low /\ offset + length <= q /\ low - 1 + q <= Modulus
      <4>1. low - 1 + q <= Modulus
        BY DEF low, q
      <4> QED
        BY <1>2, <1>3, <1>4, <1>6, <4>1, RegistersAssumption
    <3>2. address + length <= Modulus + 1
      <4> HIDE DEF address, length
      <4> QED
        BY <3>1
    <3> QED
      BY <3>2
  <2> DEFINE part == SubSeq(cells, offset + 1, offset + r.length)
  <2>3. offset \in Nat /\ \A k \in offset + 1 .. offset + r.length : cells[k] \in Nat
    <3>1. offset \in Nat
      BY <1>2, <1>3
    <3>2. \A k \in 1 .. q : cells[k] \in Nat
      BY <1>3, <1>4, ElementOfSeq
    <3> DEFINE end == offset + r.length
    <3>3. end \in Nat /\ end <= q
      BY <1>2, <1>4, <1>6, <3>1
    <3> HIDE DEF end
    <3>4. \A k \in offset + 1 .. end : k \in 1 .. q
      BY <1>3, <3>1, <3>3
    <3>5. \A k \in offset + 1 .. end : cells[k] \in Nat
      BY <3>2, <3>4
    <3> QED
      BY <3>1, <3>5 DEF end
  <2>4. /\ part \in Seq(Nat)
        /\ Len(part) = r.length
        /\ \A k \in 1 .. r.length : part[k] = cells[offset + 1 + k - 1]
    BY <1>2, <2>3, SubSeqProperties
  <2>5. ASSUME NEW k \in 1 .. r.length
        PROVE  part[k] = Part(t, r)[k]
    <3> HIDE DEF part
    <3>1. k \in Nat /\ k >= 1 /\ k <= r.length
      BY <1>2
    <3>2. offset + k \in 1 .. q
      <4> DEFINE length == r.length
      <4>1. /\ offset \in Nat /\ length \in Nat /\ q \in Nat /\ offset + length <= q
            /\ k \in Nat /\ k >= 1 /\ k <= length
        BY <1>2, <1>3, <1>4, <1>6, <2>3, <3>1
      <4> HIDE DEF length
      <4> QED
        BY <4>1
    <3>3. part[k] = cells[offset + k]
      <4>1. offset + 1 + k - 1 = offset + k
        BY <2>3, <3>1
      <4> QED
        BY <2>4, <4>1
    <3>4. low - 1 + (offset + k) - 1 = r.address + k - 2
      <4> DEFINE address == r.address
      <4>1. address \in Nat /\ low \in Nat /\ offset = address - low /\ k \in Nat
        BY <1>2, <1>3, <3>1
      <4> HIDE DEF address
      <4>2. low - 1 + (offset + k) - 1 = address + k - 2
        BY <4>1
      <4> QED
        BY <4>2 DEF address
    <3>5. part[k] = memory[t][r.address + k - 2]
      BY <1>4, <3>2, <3>3, <3>4
    <3> QED
      BY <1>1, <2>2, <3>5, PartRead
  <2>6. part = Part(t, r)
    <3> HIDE DEF part
    <3>1. Part(t, r) \in Seq(Nat) /\ Len(Part(t, r)) = r.length
      BY <1>1, <2>2, PartRead
    <3> QED
      BY <2>4, <2>5, <3>1, SeqEqual
  <2>7. assignResValue(r, reqs, t, cells) = extractRegisterValue(t, part, r.length)
    BY <1>6 DEF assignResValue, offset
  <2> QED
    BY <1>1, <2>1, <2>2, <2>6, <2>7 DEF r
<1> QED
  BY <1>5, <1>6

-----------------------------------------------------------------------------
\* What is right of a value that stands for a resource.
Right(r, v) ==
    /\ v.kind = r.type
    /\ r.address + r.length <= Modulus + 1
    /\ IsPrefix(v.words, Registers(r)) /\ v.words # <<>>

\* Where the values of a batch end.
LEMMA FirstErrorOf ==
    ASSUME NEW n \in Nat, NEW values, DOMAIN values = 1 .. n, Len(values) = n
    PROVE  /\ FirstError(values) \in 0 .. n
           /\ FirstError(values) = 0 => \A i \in 1 .. n : values[i] # Error
           /\ FirstError(values) # 0 => \A i \in 1 .. FirstError(values) - 1 : values[i] # Error
           /\ FirstError(values) # 0 => values[FirstError(values)] = Error
<1> DEFINE I == {i \in 1 .. Len(values) : values[i] = Error}
<1>1. FirstError(values) = IF I # {} THEN Min(I) ELSE 0
  BY DEF FirstError, SelectInSeq
<1>2. I \in SUBSET Nat
  OBVIOUS
<1>3. CASE I = {}
  BY <1>1, <1>3
<1>4. CASE I # {}
  <2>1. Min(I) \in I /\ \A y \in I : Min(I) <= y
    BY <1>2, <1>4, LeastOf
  <2> DEFINE m == Min(I)
  <2>2. m \in 1 .. n /\ values[m] = Error /\ FirstError(values) = m
    BY <1>1, <1>4, <2>1
  <2>3. ASSUME NEW i \in 1 .. m - 1
        PROVE  values[i] # Error
    <3>1. i \notin I /\ i \in 1 .. n
      BY <2>1, <2>2
    <3> QED
      BY <3>1
  <2> QED
    BY <2>2, <2>3
<1> QED
  BY <1>3, <1>4

\* What every read replies.
ReplyRight(reqs, rep) ==
    /\ rep.op = "read" /\ rep.reqs = reqs /\ rep.out \in {"ok", "error", "panic"}
    /\ rep.values \in Seq([kind : Types, words : Seq(Nat)])
    /\ Len(rep.values) <= Len(reqs)

LEMMA EmptyReply ==
    ASSUME NEW reqs \in Commands, NEW outcome, NEW out \in {"ok", "error", "panic"}
    PROVE  /\ ReplyRight(reqs, ReadReply(reqs, outcome, out, <<>>))
           /\ DOMAIN ReadReply(reqs, outcome, out, <<>>).values = {}
<1>1. Len(reqs) \in Nat
  BY CommandType, LenProperties
<1> QED
  BY <1>1 DEF ReplyRight, ReadReply

LEMMA SingleReadRight ==
    ASSUME TypeOK, NEW reqs \in Commands, NEW outcome, Len(reqs) = 1,
           NEW rep, rep = HandleReadSingle(reqs, outcome)
    PROVE  /\ ReplyRight(reqs, rep)
           /\ \A i \in DOMAIN rep.values : Right(reqs[i], rep.values[i])
<1> DEFINE r == reqs[1]
           t == getTableType(r)
           a == Protocol(r.address)
           v == CommandValue(r, extractRegisterValue(t, Cells(t, a, r.length), r.length))
<1>1. r \in Resources /\ DOMAIN reqs = {1} /\ t \in Tables
  BY CommandType, ResourceType
<1>2. r.address \in Nat /\ r.length \in Nat /\ a = r.address - 1
  BY <1>1, ResourceType
<1>3. CASE outcome # "answers" \/ ~Allowed(a, r.length, ReadLimit[t])
  <2>1. rep = ReadReply(reqs, outcome, "error", <<>>)
    BY <1>3 DEF HandleReadSingle
  <2> QED
    BY <2>1, EmptyReply
<1>4. CASE v = Error /\ ~(outcome # "answers" \/ ~Allowed(a, r.length, ReadLimit[t]))
  <2>1. rep = ReadReply(reqs, outcome, "error", <<>>)
    BY <1>4 DEF HandleReadSingle
  <2> QED
    BY <2>1, EmptyReply
<1>5. CASE v # Error /\ ~(outcome # "answers" \/ ~Allowed(a, r.length, ReadLimit[t]))
  <2>1. rep = ReadReply(reqs, outcome, "ok", <<v>>)
    BY <1>5 DEF HandleReadSingle
  <2>2. r.length >= 1 /\ r.address + r.length <= Modulus + 1
    BY <1>2, <1>5, RegistersAssumption DEF Allowed
  <2>3. v = CommandValue(r, extractRegisterValue(t, Part(t, r), r.length))
    BY <1>2 DEF Part
  <2> HIDE DEF v
  <2>4. /\ v.kind = r.type /\ IsPrefix(v.words, Part(t, r)) /\ v.words # <<>>
        /\ v \in [kind : Types, words : Seq(Nat)]
    BY <1>1, <1>5, <2>2, <2>3, DecodedRight
  <2>5. Right(r, v) /\ v \in [kind : Types, words : Seq(Nat)]
    BY <1>1, <2>2, <2>4, PartRead DEF Right
  <2>6. rep.values = <<v>> /\ rep.op = "read" /\ rep.reqs = reqs /\ rep.out = "ok"
    BY <2>1 DEF ReadReply
  <2> QED
    BY <2>5, <2>6 DEF ReplyRight, r
<1> QED
  BY <1>3, <1>4, <1>5

LEMMA BatchReadRight ==
    ASSUME TypeOK, NEW reqs \in Commands, NEW outcome,
           NEW rep, rep = HandleReadBatch(reqs, outcome)
    PROVE  /\ ReplyRight(reqs, rep)
           /\ OneTable(reqs) => \A i \in DOMAIN rep.values : Right(reqs[i], rep.values[i])
<1> DEFINE t == getTableType(reqs[1])
           a == Protocol(MinAddr(reqs))
           q == Quantity(reqs)
           cells == Cells(t, a, q)
           values == [i \in DOMAIN reqs |->
                         CommandValue(reqs[i], assignResValue(reqs[i], reqs, t, cells))]
           failed == FirstError(values)
           n == Len(reqs)
<1>1. t \in Tables /\ n \in Nat /\ DOMAIN reqs = 1 .. n
  BY CommandType, ResourceType
<1>2. MinAddr(reqs) \in Nat /\ q \in Nat /\ a = MinAddr(reqs) - 1
  BY Span
<1> DEFINE answered == outcome = "answers" /\ Allowed(a, q, ReadLimit[t])
           panics == AssignPanics(reqs, cells)
<1>0. /\ ~answered => rep = ReadReply(reqs, outcome, "error", <<>>)
      /\ answered /\ panics => rep = ReadReply(reqs, outcome, "panic", <<>>)
      /\ answered /\ ~panics =>
            rep = IF failed = 0 THEN ReadReply(reqs, outcome, "ok", values)
                  ELSE ReadReply(reqs, outcome, "error", SubSeq(values, 1, failed - 1))
  <2>1. ~answered => rep = ReadReply(reqs, outcome, "error", <<>>)
    BY DEF HandleReadBatch
  <2>2. answered /\ panics => rep = ReadReply(reqs, outcome, "panic", <<>>)
    BY DEF HandleReadBatch
  <2>3. answered /\ ~panics =>
            rep = IF failed = 0 THEN ReadReply(reqs, outcome, "ok", values)
                  ELSE ReadReply(reqs, outcome, "error", SubSeq(values, 1, failed - 1))
    BY DEF HandleReadBatch
  <2> QED
    BY <2>1, <2>2, <2>3
<1>3. CASE ~answered
  BY <1>0, <1>3, EmptyReply
<1>4. CASE answered /\ panics
  BY <1>0, <1>4, EmptyReply
<1>5. CASE answered /\ ~panics
  <2>1. MinAddr(reqs) - 1 + q <= Modulus /\ cells = Cells(t, MinAddr(reqs) - 1, q)
    BY <1>2, <1>5 DEF Allowed
  <2>2. ASSUME NEW i \in DOMAIN reqs, values[i] # Error
        PROVE  /\ values[i] \in [kind : Types, words : Seq(Nat)]
               /\ OneTable(reqs) => Right(reqs[i], values[i])
    <3> DEFINE r == reqs[i]
               v == values[i]
    <3>1. r \in Resources
      BY CommandType
    <3>2. v = CommandValue(r, assignResValue(r, reqs, t, cells))
      OBVIOUS
    <3>3. /\ r.length >= 1
          /\ r.address + r.length <= Modulus + 1
          /\ v = CommandValue(r, extractRegisterValue(t, Part(t, r), r.length))
      <4> HIDE DEF cells, t, v, values
      <4>1. assignResValue(r, reqs, t, cells) # Nil
        BY <2>2, <3>1, <3>2, NilFails DEF v
      <4> QED
        BY <1>1, <1>5, <2>1, <3>2, <4>1, AssignedRight
    <3> HIDE DEF v, values, t
    <3>4. /\ v.kind = r.type /\ IsPrefix(v.words, Part(t, r)) /\ v.words # <<>>
          /\ v \in [kind : Types, words : Seq(Nat)]
      BY <1>1, <2>2, <3>1, <3>3, DecodedRight DEF v
    <3>5. OneTable(reqs) => getTableType(r) = t
      BY <1>1, CommandType DEF OneTable, t
    <3>6. OneTable(reqs) => Right(r, v)
      BY <1>1, <3>1, <3>3, <3>4, <3>5, PartRead DEF Right
    <3> QED
      BY <3>4, <3>6 DEF v
  <2>3. DOMAIN values = 1 .. n /\ Len(values) = n
    BY <1>1
  <2>4. /\ failed \in 0 .. n
        /\ failed = 0 => \A i \in 1 .. n : values[i] # Error
        /\ failed # 0 => \A i \in 1 .. failed - 1 : values[i] # Error
    <3> HIDE DEF values
    <3> QED
      BY <1>1, <2>3, FirstErrorOf
  <2>5. /\ rep.op = "read" /\ rep.reqs = reqs /\ rep.out \in {"ok", "error", "panic"}
        /\ rep.values = IF failed = 0 THEN values ELSE SubSeq(values, 1, failed - 1)
    <3> DEFINE some == SubSeq(values, 1, failed - 1)
    <3> HIDE DEF values, failed, answered, panics, some
    <3>1. rep = IF failed = 0 THEN ReadReply(reqs, outcome, "ok", values)
                ELSE ReadReply(reqs, outcome, "error", some)
      BY <1>0, <1>5 DEF some
    <3> QED
      BY <3>1 DEF ReadReply, some
  <2> HIDE DEF values, failed
  <2> DEFINE m == IF failed = 0 THEN n ELSE failed - 1
  <2>6. m \in 0 .. n /\ \A i \in 1 .. m : values[i] # Error
    BY <1>1, <2>4
  <2>7. \A i \in 1 .. m : values[i] \in [kind : Types, words : Seq(Nat)]
    BY <1>1, <2>2, <2>6
  <2>8. /\ rep.values \in Seq([kind : Types, words : Seq(Nat)])
        /\ Len(rep.values) = m
        /\ \A i \in 1 .. m : rep.values[i] = values[i]
    <3>1. CASE failed = 0
      <4>1. values \in [1 .. n -> [kind : Types, words : Seq(Nat)]]
        BY <2>3, <2>7, <3>1 DEF values
      <4> QED
        <5>1. rep.values = values /\ m = n
          BY <2>5, <3>1
        <5>2. values \in Seq([kind : Types, words : Seq(Nat)])
          <6> DEFINE S == [kind : Types, words : Seq(Nat)]
          <6> HIDE DEF S, values, n
          <6>1. values \in [1 .. n -> S] /\ n \in Nat
            BY <1>1, <4>1 DEF S
          <6>2. values \in Seq(S)
            BY <6>1, SeqDef
          <6> QED
            BY <6>2 DEF S
        <5> QED
          BY <2>3, <5>1, <5>2
    <3>2. CASE failed # 0
      <4>1. m = failed - 1 /\ m \in Int /\ rep.values = SubSeq(values, 1, m)
        BY <2>4, <2>5, <3>2
      <4> HIDE DEF m
      <4>2. /\ SubSeq(values, 1, m) \in Seq([kind : Types, words : Seq(Nat)])
            /\ Len(SubSeq(values, 1, m)) = IF 1 <= m THEN m - 1 + 1 ELSE 0
            /\ \A i \in 1 .. m - 1 + 1 : SubSeq(values, 1, m)[i] = values[1 + i - 1]
        BY <2>7, <4>1, SubSeqProperties
      <4>3. m \in Nat
        BY <1>1, <2>6
      <4> QED
        BY <4>1, <4>2, <4>3
    <3> QED
      BY <3>1, <3>2
  <2>9. ReplyRight(reqs, rep)
    BY <1>1, <2>5, <2>6, <2>8 DEF ReplyRight
  <2>10. \A i \in DOMAIN rep.values : i \in DOMAIN reqs /\ i \in 1 .. m
    BY <1>1, <2>6, <2>8, LenProperties
  <2> QED
    BY <2>2, <2>6, <2>8, <2>9, <2>10
<1> QED
  BY <1>3, <1>4, <1>5

-----------------------------------------------------------------------------
\* The span of a batch that ends below the last register does not wrap around.
LEMMA WholeSpan ==
    ASSUME NEW reqs \in Commands, NEW limit \in Nat, Within(reqs, limit),
           \A i \in DOMAIN reqs :
               reqs[i].length >= 1 /\ reqs[i].address + reqs[i].length < Modulus
    PROVE  /\ Quantity(reqs) >= 1 /\ Quantity(reqs) <= limit
           /\ MinAddr(reqs) - 1 + Quantity(reqs) <= Modulus
           /\ \A i \in DOMAIN reqs :
                 Offset(reqs[i], reqs) + reqs[i].length <= Quantity(reqs)
<1> DEFINE E == {0} \cup {EndAddr(reqs[i]) : i \in DOMAIN reqs}
           low == MinAddr(reqs)
           top == Max(E)
           end(i) == reqs[i].address + reqs[i].length
<1>1. \A i \in DOMAIN reqs :
         /\ reqs[i].address \in Nat /\ reqs[i].length \in Nat
         /\ reqs[i].address >= 1 /\ reqs[i].length >= 1
         /\ end(i) < Modulus
  BY CommandType, ResourceType
<1>2. \A i \in DOMAIN reqs : EndAddr(reqs[i]) = end(i)
  <2> TAKE i \in DOMAIN reqs
  <2>1. end(i) \in Addresses
    BY <1>1, RegistersAssumption DEF Addresses
  <2> QED
    BY <2>1, Small DEF EndAddr
<1>3. E \in SUBSET Nat /\ E # {} /\ \A x \in E : x <= Modulus
  <2>1. \A i \in DOMAIN reqs : end(i) \in Nat /\ end(i) <= Modulus
    BY <1>1, RegistersAssumption
  <2> HIDE DEF end
  <2> QED
    BY <1>2, <2>1, RegistersAssumption
<1>4. top \in E /\ \A x \in E : top >= x
  BY <1>3, GreatestOf, RegistersAssumption
<1>5. \A i \in DOMAIN reqs : top >= end(i)
  BY <1>2, <1>4
<1>6. 1 \in DOMAIN reqs
  BY CommandType
<1>7. PICK last \in DOMAIN reqs : top = end(last)
  <2>1. end(1) >= 1 /\ top >= end(1) /\ end(1) \in Nat
    BY <1>1, <1>5, <1>6
  <2> HIDE DEF end, top
  <2>2. top # 0
    BY <2>1
  <2> QED
    BY <1>2, <1>4, <2>2
<1>8. PICK first \in DOMAIN reqs : low = reqs[first].address
  BY Span
<1>9. end(last) - reqs[first].address <= limit
  <2>1. reqs[last].address + (reqs[last].length - reqs[first].address) <= limit
    BY DEF Within
  <2> QED
    BY <1>1, <2>1
<1>10. /\ top \in Nat /\ low \in Nat /\ low >= 1 /\ top < Modulus /\ top >= low + 1
       /\ top - low <= limit
  BY <1>1, <1>5, <1>7, <1>8, <1>9
<1> HIDE DEF top, low
<1>11. Quantity(reqs) = top - low
  <2>1. top - low \in Addresses
    BY <1>10, RegistersAssumption DEF Addresses
  <2> QED
    BY <2>1, Small DEF Quantity, top, low
<1>12. ASSUME NEW i \in DOMAIN reqs
       PROVE  Offset(reqs[i], reqs) + reqs[i].length <= Quantity(reqs)
  <2>1. Offset(reqs[i], reqs) = reqs[i].address - low
    BY Span DEF low
  <2> QED
    BY <1>1, <1>5, <1>10, <1>11, <2>1
<1>13. Quantity(reqs) >= 1 /\ Quantity(reqs) <= limit /\ low - 1 + Quantity(reqs) <= Modulus
  BY <1>10, <1>11, RegistersAssumption
<1> QED
  BY <1>12, <1>13 DEF low

\* The value of a resource that a read finds in its table.
Found(r) ==
    CommandValue(r, extractRegisterValue(getTableType(r), Part(getTableType(r), r), r.length))

\* A well typed resource has a value, whatever its cells hold.
LEMMA WellTypedFound ==
    ASSUME TypeOK, NEW r \in Resources, r.address + r.length <= Modulus + 1, WellTyped(r)
    PROVE  /\ Found(r) # Error
           /\ Found(r) = CommandValue(r, Value(RawKind(getTableType(r), r.length),
                                               Part(getTableType(r), r)))
<1> DEFINE t == getTableType(r)
           zeros == [k \in 1 .. r.length |-> 0]
           cells == Part(t, r)
           kind == RawKind(t, r.length)
<1>1. r.length \in Nat /\ r.length >= 1 /\ t \in Tables
  BY ResourceType DEF WellTyped
<1>2. zeros \in Seq(Nat) /\ Len(zeros) = r.length
  BY <1>1, SeqDef
<1>3. cells \in Seq(Nat) /\ Len(cells) = r.length
  BY <1>1, PartRead
<1> HIDE DEF zeros, cells, kind
<1>4. CommandValue(r, extractRegisterValue(t, zeros, r.length)) # Error
  BY DEF WellTyped, zeros
<1>5. extractRegisterValue(t, zeros, r.length) = Value(kind, zeros)
  BY <1>1, <1>2, RawValue DEF kind
<1>6. extractRegisterValue(t, cells, r.length) = Value(kind, cells)
  BY <1>1, <1>3, RawValue DEF kind
<1>7. CommandValue(r, Value(kind, cells)) # Error
  BY <1>2, <1>3, <1>4, <1>5, DecodesAlike
<1> QED
  BY <1>6, <1>7 DEF Found, cells, kind

\* A read that the device answers finds all it asks for.
LEMMA WholeRead ==
    ASSUME TypeOK, NEW reqs \in Commands, Readable(reqs),
           \A i \in DOMAIN reqs : reqs[i].address + reqs[i].length < Modulus,
           NEW rep, rep = HandleRead(reqs, "answers")
    PROVE  /\ rep.out = "ok"
           /\ rep.values = [i \in DOMAIN reqs |-> Found(reqs[i])]
           /\ \A i \in DOMAIN reqs : Found(reqs[i]) # Error
<1> DEFINE t == getTableType(reqs[1])
           limit == ReadLimit[t]
           n == Len(reqs)
<1>1. /\ n \in Nat /\ n >= 1 /\ DOMAIN reqs = 1 .. n /\ 1 \in DOMAIN reqs
      /\ \A i \in DOMAIN reqs : reqs[i] \in Resources
  <2>1. n \in 1 .. MaxBatch
    BY CommandType
  <2>2. n \in Nat /\ n >= 1
    BY <2>1, RegistersAssumption
  <2> QED
    BY <2>2, CommandType
<1>2. t \in Tables /\ limit \in Nat
  <2>1. t \in Tables
    BY <1>1, ResourceType
  <2> QED
    BY <2>1, RegistersAssumption
<1>3. \A i \in DOMAIN reqs : getTableType(reqs[i]) = t
  BY <1>1 DEF Readable, OneTable
<1>4. \A i \in DOMAIN reqs :
         /\ reqs[i].address \in Nat /\ reqs[i].length \in Nat
         /\ reqs[i].address >= 1 /\ reqs[i].length >= 1
         /\ reqs[i].address + reqs[i].length <= Modulus + 1
         /\ WellTyped(reqs[i])
  <2> TAKE i \in DOMAIN reqs
  <2>1. reqs[i].address \in Nat /\ reqs[i].length \in Nat /\ reqs[i].address >= 1
    BY <1>1, ResourceType
  <2>2. WellTyped(reqs[i]) /\ reqs[i].length >= 1
    BY DEF Readable, WellTyped
  <2> QED
    BY <2>1, <2>2, RegistersAssumption
<1>5. \A i \in DOMAIN reqs : Found(reqs[i]) # Error
  BY <1>1, <1>4, WellTypedFound
<1>6. Within(reqs, limit)
  BY DEF Readable
<1> HIDE DEF t, limit, n
<1>7. CASE n = 1
  <2> DEFINE r == reqs[1]
             a == Protocol(r.address)
             v == CommandValue(r, extractRegisterValue(t, Cells(t, a, r.length), r.length))
  <2>1. rep = HandleReadSingle(reqs, "answers")
    BY <1>7 DEF HandleRead, n
  <2>2. a = r.address - 1
    BY <1>1, ResourceType
  <2>3. v = Found(r)
    BY <1>1, <1>3, <2>2 DEF Found, Part
  <2>4. Allowed(a, r.length, limit)
    <3>1. r.address + (r.length - r.address) <= limit
      BY <1>1, <1>6 DEF Within
    <3>2. /\ r.address \in Nat /\ r.length \in Nat /\ r.address >= 1 /\ r.length >= 1
          /\ r.address + r.length <= Modulus + 1
      BY <1>1, <1>4
    <3> HIDE DEF r
    <3> QED
      BY <1>2, <2>2, <3>1, <3>2, RegistersAssumption, SMTT(30) DEF Allowed
  <2>5. v # Error
    BY <1>1, <1>5, <2>3
  <2>6. rep = ReadReply(reqs, "answers", "ok", <<v>>)
    BY <2>1, <2>4, <2>5 DEF HandleReadSingle, t, limit
  <2> HIDE DEF v
  <2>7. rep.out = "ok" /\ rep.values = <<v>>
    BY <2>6 DEF ReadReply
  <2>8. <<v>> = [i \in DOMAIN reqs |-> Found(reqs[i])]
    BY <1>1, <1>7, <2>3
  <2> QED
    BY <1>5, <2>7, <2>8
<1>8. CASE n # 1
  <2> DEFINE q == Quantity(reqs)
             a == Protocol(MinAddr(reqs))
             cells == Cells(t, a, q)
             values == [i \in DOMAIN reqs |->
                           CommandValue(reqs[i], assignResValue(reqs[i], reqs, t, cells))]
             failed == FirstError(values)
  <2>1. rep = HandleReadBatch(reqs, "answers")
    BY <1>8 DEF HandleRead, n
  <2>2. MinAddr(reqs) \in Nat /\ MinAddr(reqs) >= 1 /\ a = MinAddr(reqs) - 1 /\ q \in Nat
    BY Span
  <2>3. /\ q >= 1 /\ q <= limit /\ MinAddr(reqs) - 1 + q <= Modulus
        /\ \A i \in DOMAIN reqs : Offset(reqs[i], reqs) + reqs[i].length <= q
    <3> HIDE DEF q
    <3>1. \A i \in DOMAIN reqs :
              reqs[i].length >= 1 /\ reqs[i].address + reqs[i].length < Modulus
      BY <1>4
    <3> QED
      BY <1>2, <1>6, <3>1, WholeSpan DEF q
  <2>4. Allowed(a, q, limit)
    <3> HIDE DEF a, q
    <3> QED
      BY <1>2, <2>2, <2>3 DEF Allowed
  <2>5. ~AssignPanics(reqs, cells)
    <3> HIDE DEF cells
    <3> QED
      BY <1>4 DEF AssignPanics
  <2>6. ASSUME NEW i \in DOMAIN reqs
        PROVE  values[i] = Found(reqs[i])
    <3> DEFINE r == reqs[i]
    <3>1. assignResValue(r, reqs, t, cells) = extractRegisterValue(t, Part(t, r), r.length)
      <4>1. cells = Cells(t, MinAddr(reqs) - 1, Quantity(reqs))
        BY <2>2
      <4> HIDE DEF cells
      <4> QED
        BY <1>2, <2>3, <2>5, <4>1, AssignedRight
    <3>2. values[i] = CommandValue(r, assignResValue(r, reqs, t, cells))
      OBVIOUS
    <3> HIDE DEF values, cells
    <3> QED
      BY <1>3, <3>1, <3>2 DEF Found
  <2>7. /\ failed = 0
        /\ DOMAIN values = 1 .. n /\ values = [i \in DOMAIN reqs |-> Found(reqs[i])]
    <3>1. DOMAIN values = 1 .. n /\ Len(values) = n
      BY <1>1
    <3>2. values = [i \in DOMAIN reqs |-> values[i]]
      OBVIOUS
    <3> HIDE DEF values
    <3>3. /\ failed \in 0 .. n
          /\ failed # 0 => values[failed] = Error
      BY <1>1, <3>1, FirstErrorOf
    <3>4. failed = 0
      <4>1. failed # 0 => failed \in DOMAIN reqs
        BY <1>1, <3>3
      <4> QED
        BY <1>5, <2>6, <3>3, <4>1
    <3>5. values = [i \in DOMAIN reqs |-> Found(reqs[i])]
      BY <2>6, <3>2
    <3> QED
      BY <3>1, <3>4, <3>5
  <2>8. rep = ReadReply(reqs, "answers", "ok", values)
    <3>1. rep = IF AssignPanics(reqs, cells) THEN ReadReply(reqs, "answers", "panic", <<>>)
                ELSE IF failed = 0 THEN ReadReply(reqs, "answers", "ok", values)
                ELSE ReadReply(reqs, "answers", "error", SubSeq(values, 1, failed - 1))
      BY <2>1, <2>4 DEF HandleReadBatch, t, limit
    <3> HIDE DEF cells, failed, values
    <3> QED
      BY <2>5, <2>7, <3>1
  <2> HIDE DEF values
  <2>9. rep.out = "ok" /\ rep.values = values
    BY <2>8 DEF ReadReply
  <2> QED
    BY <1>5, <2>7, <2>9
<1> QED
  BY <1>7, <1>8

-----------------------------------------------------------------------------
\* What the connector hands to the adapter, which has words in any case.
LEMMA EncodedType ==
    ASSUME NEW reqs \in Commands, NEW params \in [DOMAIN reqs -> Values],
           NEW vs, vs = Encoded(reqs, params)
    PROVE  DOMAIN vs = DOMAIN reqs /\ \A i \in DOMAIN reqs : vs[i].words \in Seq(Nat)
<1>1. \A i \in DOMAIN reqs : params[i] \in [kind : Types, words : Seq(Nat)]
  BY RegistersAssumption
<1>2. ASSUME NEW i \in DOMAIN reqs
      PROVE  vs[i].words \in Seq(Nat)
  <2> DEFINE v == EncodeWData(reqs[i].encoder, params[i])
  <2>1. vs[i] = IF reqs[i].encoder = "" THEN params[i] ELSE v
    BY DEF Encoded
  <2>2. params[i].words \in Seq(Nat)
    BY <1>1
  <2>3. v = Value("Uint16Array", params[i].words) \/ v = Error
    BY DEF EncodeWData
  <2> HIDE DEF v
  <2>4. v.words = params[i].words \/ v.words = <<>>
    BY <2>3 DEF Error, Value
  <2>5. <<>> \in Seq(Nat)
    BY EmptySeq
  <2>6. v.words \in Seq(Nat)
    <3> DEFINE none == <<>>
    <3> HIDE DEF none
    <3>1. v.words = params[i].words \/ v.words = none
      BY <2>4 DEF none
    <3>2. none \in Seq(Nat)
      BY <2>5 DEF none
    <3> QED
      BY <2>2, <3>1, <3>2
  <2> QED
    BY <2>1, <2>2, <2>6
<1> QED
  BY <1>2 DEF Encoded

\* The cells of a write.
Sent(reqs, params) ==
    FlattenSeq([i \in DOMAIN reqs |-> Encoded(reqs, params)[i].words])

LEMMA SentType ==
    ASSUME NEW reqs \in Commands, NEW params \in [DOMAIN reqs -> Values]
    PROVE  /\ Sent(reqs, params) \in Seq(Nat)
           /\ Len(reqs) = 1 => Sent(reqs, params) = Encoded(reqs, params)[1].words
<1> DEFINE n == Len(reqs)
           ws == [i \in DOMAIN reqs |-> Encoded(reqs, params)[i].words]
<1>1. n \in Nat /\ n >= 1 /\ DOMAIN reqs = 1 .. n
  <2>1. n \in 1 .. MaxBatch
    BY CommandType
  <2> QED
    BY <2>1, CommandType, RegistersAssumption
<1>2. ws \in Rows(n, Nat) /\ ws[1] = Encoded(reqs, params)[1].words
  BY <1>1, EncodedType DEF Rows
<1> HIDE DEF ws, n
<1>3. PICK f \in Rows(n, Nat) : Appends(f, ws, n) /\ FlattenSeq(ws) = f[n]
  BY <1>1, <1>2, FlattenSteps
<1>4. f[n] \in Seq(Nat) /\ f[1] = ws[1]
  BY <1>1, <1>3 DEF Rows, Appends
<1> QED
  BY <1>2, <1>3, <1>4 DEF Sent, ws, n

\* The tables with cells stored from an address up.
Put(t, a, cells) ==
    [memory EXCEPT ![t] = [x \in Addresses |->
        IF x \in a .. a + Len(cells) - 1 THEN cells[x - a + 1] ELSE memory[t][x]]]

LEMMA PutType ==
    ASSUME TypeOK, NEW t \in Tables, NEW a \in Nat, NEW cells \in Seq(Nat)
    PROVE  /\ Put(t, a, cells) \in [Tables -> [Addresses -> Nat]]
           /\ \A x \in Addresses : Put(t, a, cells)[t][x] =
                 IF x \in a .. a + Len(cells) - 1 THEN cells[x - a + 1] ELSE memory[t][x]
<1> DEFINE row == [x \in Addresses |->
        IF x \in a .. a + Len(cells) - 1 THEN cells[x - a + 1] ELSE memory[t][x]]
<1>1. ASSUME NEW x \in Addresses
      PROVE  (IF x \in a .. a + Len(cells) - 1 THEN cells[x - a + 1] ELSE memory[t][x]) \in Nat
  <2>1. Len(cells) \in Nat /\ memory[t][x] \in Nat
    BY DEF TypeOK
  <2>2. CASE x \in a .. a + Len(cells) - 1
    <3>1. x - a + 1 \in 1 .. Len(cells)
      BY <2>1, <2>2
    <3> QED
      BY <2>2, <3>1
  <2> QED
    BY <2>1, <2>2
<1>2. row \in [Addresses -> Nat]
  BY <1>1
<1>3. Put(t, a, cells) = [memory EXCEPT ![t] = row]
  BY DEF Put
<1>4. \A x \in Addresses :
         row[x] = IF x \in a .. a + Len(cells) - 1 THEN cells[x - a + 1] ELSE memory[t][x]
  OBVIOUS
<1> HIDE DEF row
<1>5. memory \in [Tables -> [Addresses -> Nat]]
  BY DEF TypeOK
<1> QED
  BY <1>2, <1>3, <1>4, <1>5

\* What a write does to the device: all of it or nothing.
Written(reqs, params) ==
    LET t == getTableType(reqs[1]) IN
    /\ \A i \in DOMAIN reqs : Convertible(t, Encoded(reqs, params)[i], FALSE)
    /\ MinAddr(reqs) - 1 + Len(Sent(reqs, params)) <= Modulus
    /\ memory' = Put(t, MinAddr(reqs) - 1, Sent(reqs, params))

LEMMA SendDoes ==
    ASSUME NEW reqs, NEW params, NEW t, NEW a, NEW cells, NEW outcome,
           Send(reqs, params, t, a, cells, outcome)
    PROVE  \/ /\ memory' = memory
              /\ reply' = WriteReply(reqs, params, outcome, "error")
           \/ /\ Allowed(a, Len(cells), WriteLimit[t])
              /\ memory' = Put(t, a, cells)
              /\ reply' = WriteReply(reqs, params, outcome,
                                     IF outcome = "answers" THEN "ok" ELSE "error")
<1>1. CASE ~Allowed(a, Len(cells), WriteLimit[t])
  BY <1>1 DEF Send, Refuse
<1>2. CASE Allowed(a, Len(cells), WriteLimit[t]) /\ outcome = "fails"
  BY <1>2 DEF Send, Store
<1>3. CASE Allowed(a, Len(cells), WriteLimit[t]) /\ outcome # "fails"
  BY <1>3 DEF Send, Store, Put
<1> QED
  BY <1>1, <1>2, <1>3

\* No encoder takes a command value.
LEMMA PointerFails == ASSUME NEW name PROVE EncodeWData(name, Value("*CommandValue", <<>>)) = Error
<1>1. name \in DOMAIN Encoders => Encoders[name].kind # "*CommandValue"
  BY DEF Encoders, Value
<1>2. Value("*CommandValue", <<>>).kind = "*CommandValue"
  BY DEF Value
<1> QED
  BY <1>1, <1>2 DEF EncodeWData

LEMMA WriteDoes ==
    ASSUME TypeOK, NEW reqs \in Commands, NEW params \in [DOMAIN reqs -> Values],
           NEW outcome, Write(reqs, params, outcome)
    PROVE  /\ \A i \in DOMAIN reqs : params[i].kind = reqs[i].type
           /\ \/ /\ memory' = memory
                 /\ reply' = WriteReply(reqs, params, outcome, "error")
              \/ /\ Written(reqs, params)
                 /\ \/ reply' = WriteReply(reqs, params, outcome, "ok")
                    \/ reply' = WriteReply(reqs, params, outcome, "error")
<1> DEFINE t == getTableType(reqs[1])
           vs == Encoded(reqs, params)
           sent == Sent(reqs, params)
           a == Protocol(MinAddr(reqs))
           Fits == \A i \in DOMAIN reqs : Convertible(t, vs[i], FALSE)
<1>1. /\ a = MinAddr(reqs) - 1 /\ MinAddr(reqs) \in Nat
      /\ \E i \in DOMAIN reqs : MinAddr(reqs) = reqs[i].address
  BY Span
<1>2. sent \in Seq(Nat) /\ DOMAIN vs = DOMAIN reqs
  BY SentType, EncodedType
<1>3. \/ Refuse(reqs, params, outcome)
      \/ Fits /\ Send(reqs, params, t, a, sent, outcome)
  <2>1. CASE Len(reqs) = 1
    <3> DEFINE r == reqs[1]
               v == IF r.encoder = "" THEN params[1]
                    ELSE EncodeWData(r.decoder, Value("*CommandValue", <<>>))
    <3>1. DOMAIN reqs = {1}
      BY <2>1, CommandType
    <3>2. IF Convertible(t, v, TRUE)
          THEN Send(reqs, params, t, Protocol(r.address), v.words, outcome)
          ELSE Refuse(reqs, params, outcome)
      BY <2>1 DEF Write, HandleWriteSingle
    <3>3. CASE Convertible(t, v, TRUE)
      <4>1. v.kind # "error"
        <5> HIDE DEF v
        <5> QED
          BY <3>3 DEF Convertible
      <4>2. r.encoder = ""
        <5>1. CASE r.encoder # ""
          <6>1. v = Error
            BY <5>1, PointerFails
          <6> HIDE DEF v
          <6> QED
            BY <4>1, <6>1 DEF Error, Value
        <5> QED
          BY <5>1
      <4>3. v = params[1] /\ vs[1] = v
        BY <3>1, <4>2 DEF Encoded
      <4>4. sent = v.words
        BY <2>1, <4>3, SentType
      <4>5. Fits
        BY <3>1, <3>3, <4>3 DEF Convertible
      <4>6. a = Protocol(r.address)
        BY <1>1, <3>1
      <4> HIDE DEF v, t, a, sent, Fits
      <4> QED
        BY <3>2, <3>3, <4>4, <4>5, <4>6
    <3> QED
      BY <3>2, <3>3
  <2>2. CASE Len(reqs) # 1
    <3>1. IF \A i \in DOMAIN vs : Convertible(t, vs[i], FALSE)
          THEN Send(reqs, params, t, a, FlattenSeq([i \in DOMAIN vs |-> vs[i].words]), outcome)
          ELSE Refuse(reqs, params, outcome)
      BY <2>2 DEF Write, HandleWriteBatch
    <3> QED
      BY <1>2, <3>1 DEF Sent
  <2> QED
    BY <2>1, <2>2
<1> HIDE DEF a, sent, t, Fits
<1>4. CASE Refuse(reqs, params, outcome)
  BY <1>4 DEF Refuse, Write
<1>5. CASE Fits /\ Send(reqs, params, t, a, sent, outcome)
  <2>1. \/ /\ memory' = memory
           /\ reply' = WriteReply(reqs, params, outcome, "error")
        \/ /\ Allowed(a, Len(sent), WriteLimit[t])
           /\ memory' = Put(t, a, sent)
           /\ reply' = WriteReply(reqs, params, outcome,
                                  IF outcome = "answers" THEN "ok" ELSE "error")
    BY <1>5, SendDoes
  <2>2. Allowed(a, Len(sent), WriteLimit[t]) /\ memory' = Put(t, a, sent)
        => Written(reqs, params)
    BY <1>1, <1>5 DEF Allowed, Written, a, sent, t, Fits
  <2> QED
    BY <2>1, <2>2 DEF Write
<1> QED
  BY <1>3, <1>4, <1>5

\* What a step does.
LEMMA StepDoes ==
    ASSUME TypeOK, Next
    PROVE  \/ /\ UNCHANGED memory
              /\ \E reqs \in Commands, outcome \in Outcomes : reply' = HandleRead(reqs, outcome)
           \/ \E reqs \in Commands, outcome \in Outcomes :
                 \E params \in [DOMAIN reqs -> Values] : Write(reqs, params, outcome)
           \/ reply' = NoReply /\ UNCHANGED memory
BY DEF Next, Read, Done

\* Initially the device is as it was made.
LEMMA InitTyped == Init => TypeOK
BY RegistersAssumption DEF Init, TypeOK

LEMMA ReadTyped ==
    ASSUME TypeOK, NEW reqs \in Commands, NEW outcome, NEW rep, rep = HandleRead(reqs, outcome)
    PROVE  /\ ReplyRight(reqs, rep)
           /\ OneTable(reqs) => \A i \in DOMAIN rep.values : Right(reqs[i], rep.values[i])
BY SingleReadRight, BatchReadRight DEF HandleRead

\* Every step keeps the types.
LEMMA StepTyped ==
    ASSUME TypeOK, [Next]_vars
    PROVE  TypeOK'
<1>1. CASE UNCHANGED vars
  BY <1>1 DEF TypeOK, vars
<1>2. ASSUME UNCHANGED memory, NEW reqs \in Commands, NEW outcome \in Outcomes,
             reply' = HandleRead(reqs, outcome)
      PROVE  TypeOK'
  <2>1. ReplyRight(reqs, reply')
    BY <1>2, ReadTyped
  <2> QED
    BY <1>2, <2>1 DEF TypeOK, ReplyRight
<1>3. ASSUME NEW reqs \in Commands, NEW outcome \in Outcomes,
             NEW params \in [DOMAIN reqs -> Values], Write(reqs, params, outcome)
      PROVE  TypeOK'
  <2>1. memory' \in [Tables -> [Addresses -> Nat]]
    <3>1. getTableType(reqs[1]) \in Tables /\ Sent(reqs, params) \in Seq(Nat)
      BY CommandType, ResourceType, SentType
    <3>2. MinAddr(reqs) - 1 \in Nat
      BY Span
    <3>3. Put(getTableType(reqs[1]), MinAddr(reqs) - 1, Sent(reqs, params))
              \in [Tables -> [Addresses -> Nat]]
      BY <3>1, <3>2, PutType
    <3>4. memory \in [Tables -> [Addresses -> Nat]]
      BY DEF TypeOK
    <3> QED
      BY <1>3, <3>3, <3>4, WriteDoes DEF Written
  <2>2. PICK out \in {"ok", "error"} : reply' = WriteReply(reqs, params, outcome, out)
    BY <1>3, WriteDoes
  <2>3. Len(reqs) \in Nat
    BY CommandType
  <2> QED
    BY <2>1, <2>2, <2>3 DEF TypeOK, WriteReply
<1>4. ASSUME reply' = NoReply, UNCHANGED memory
      PROVE  TypeOK'
  BY <1>4 DEF TypeOK
<1> QED
  BY <1>1, <1>2, <1>3, <1>4, StepDoes

\* The device's tables hold words, and replies are what they should be.
THEOREM TypeCorrect == Spec => []TypeOK
<1>1. TypeOK /\ [Next]_vars => TypeOK'
  BY StepTyped
<1> QED
  BY <1>1, InitTyped, PTL DEF Spec

\* What a read returns, alone or in a batch, is made of the registers of its
\* own resources: HandleReadSingle and HandleReadBatch.
THEOREM ReadsAreRight == Spec => []ReadRight
<1>1. Init => ReadRight
  BY DEF Init, ReadRight, NoReply
<1>2. TypeOK /\ ReadRight /\ [Next]_vars => ReadRight'
  <2> SUFFICES ASSUME TypeOK, ReadRight, [Next]_vars
               PROVE  ReadRight'
    OBVIOUS
  <2>1. CASE UNCHANGED vars
    BY <2>1 DEF ReadRight, vars, Registers
  <2>2. ASSUME UNCHANGED memory, NEW reqs \in Commands, NEW outcome \in Outcomes,
               reply' = HandleRead(reqs, outcome)
        PROVE  ReadRight'
    <3>1. /\ ReplyRight(reqs, reply')
          /\ OneTable(reqs) => \A i \in DOMAIN reply'.values : Right(reqs[i], reply'.values[i])
      BY <2>2, ReadTyped
    <3>2. reply'.reqs = reqs
      BY <3>1 DEF ReplyRight
    <3> QED
      BY <2>2, <3>1, <3>2 DEF ReadRight, Right, Registers, OneTable
  <2>3. ASSUME NEW reqs \in Commands, NEW outcome \in Outcomes,
               NEW params \in [DOMAIN reqs -> Values], Write(reqs, params, outcome)
        PROVE  ReadRight'
    <3>1. reply'.op = "write"
      BY <2>3, WriteDoes DEF WriteReply
    <3> QED
      BY <3>1 DEF ReadRight
  <2>4. ASSUME reply' = NoReply, UNCHANGED memory
        PROVE  ReadRight'
    BY <2>4 DEF ReadRight, NoReply
  <2> QED
    BY <2>1, <2>2, <2>3, <2>4, StepDoes
<1> QED
  BY <1>1, <1>2, TypeCorrect, PTL DEF Spec

LEMMA ReadOutcome ==
    ASSUME NEW reqs, NEW outcome
    PROVE  HandleRead(reqs, outcome).outcome = outcome
<1>1. \A out, values : ReadReply(reqs, outcome, out, values).outcome = outcome
  BY DEF ReadReply
<1>2. HandleReadSingle(reqs, outcome).outcome = outcome
  BY <1>1 DEF HandleReadSingle
<1>3. HandleReadBatch(reqs, outcome).outcome = outcome
  BY <1>1 DEF HandleReadBatch
<1> QED
  BY <1>2, <1>3 DEF HandleRead

\* What the device answers is returned in full: the span of a batch and the
\* offsets of its points, and the types of their values.
THEOREM ReadsAreWhole == Spec => []ReadWhole
<1>1. Init => ReadWhole
  BY DEF Init, ReadWhole, NoReply
<1>2. TypeOK /\ ReadWhole /\ [Next]_vars => ReadWhole'
  <2> SUFFICES ASSUME TypeOK, ReadWhole, [Next]_vars
               PROVE  ReadWhole'
    OBVIOUS
  <2>0. \A reqs : Readable(reqs)' <=> Readable(reqs)
    BY DEF Readable, OneTable, Within, WellTyped
  <2>1. CASE UNCHANGED vars
    BY <2>0, <2>1 DEF ReadWhole, vars
  <2>2. ASSUME UNCHANGED memory, NEW reqs \in Commands, NEW outcome \in Outcomes,
               reply' = HandleRead(reqs, outcome)
        PROVE  ReadWhole'
    <3>1. reply'.reqs = reqs
      BY <2>2, ReadTyped DEF ReplyRight
    <3>2. reply'.outcome = outcome
      BY <2>2, ReadOutcome
    <3>3. SUFFICES ASSUME outcome = "answers", Readable(reqs),
                          \A i \in DOMAIN reqs : reqs[i].address + reqs[i].length < Modulus
                   PROVE  reply'.out = "ok"
      BY <2>0, <3>1, <3>2 DEF ReadWhole
    <3> QED
      BY <2>2, <3>3, WholeRead
  <2>3. ASSUME NEW reqs \in Commands, NEW outcome \in Outcomes,
               NEW params \in [DOMAIN reqs -> Values], Write(reqs, params, outcome)
        PROVE  ReadWhole'
    <3>1. reply'.op = "write"
      BY <2>3, WriteDoes DEF WriteReply
    <3> QED
      BY <3>1 DEF ReadWhole
  <2>4. ASSUME reply' = NoReply, UNCHANGED memory
        PROVE  ReadWhole'
    BY <2>4 DEF ReadWhole, NoReply
  <2> QED
    BY <2>1, <2>2, <2>3, <2>4, StepDoes
<1> QED
  BY <1>1, <1>2, TypeCorrect, PTL DEF Spec

-----------------------------------------------------------------------------
\* Where the values of adjacent resources are among the cells of a write.
LEMMA SentParts ==
    ASSUME NEW reqs \in Commands, NEW params \in [DOMAIN reqs -> Values],
           Adjacent(reqs, params), NEW vs, vs = Encoded(reqs, params)
    PROVE  LET sent == Sent(reqs, params)
               low == MinAddr(reqs)
           IN /\ \A i \in DOMAIN reqs : \A k \in 1 .. Len(vs[i].words) :
                    /\ reqs[i].address - low + k \in 1 .. Len(sent)
                    /\ sent[reqs[i].address - low + k] = vs[i].words[k]
              /\ \A x \in 1 .. Len(sent) : \E i \in DOMAIN reqs : \E k \in 1 .. Len(vs[i].words) :
                    x = reqs[i].address - low + k
<1> DEFINE n == Len(reqs)
           ws == [i \in DOMAIN reqs |-> vs[i].words]
           start == [i \in DOMAIN reqs |-> reqs[i].address]
           low == MinAddr(reqs)
           sent == Sent(reqs, params)
<1>1. n \in Nat /\ n >= 1 /\ DOMAIN reqs = 1 .. n
  <2>1. n \in 1 .. MaxBatch
    BY CommandType
  <2> QED
    BY <2>1, CommandType, RegistersAssumption
<1>2. ws \in Rows(n, Nat) /\ \A i \in 1 .. n : ws[i] = vs[i].words
  BY <1>1, EncodedType DEF Rows
<1>3. start \in Starts(n) /\ \A i \in 1 .. n : start[i] = reqs[i].address
  <2>1. \A i \in DOMAIN reqs : reqs[i].address \in Nat
    BY CommandType, ResourceType
  <2> QED
    BY <1>1, <2>1 DEF Starts
<1>4. sent = FlattenSeq(ws)
  BY DEF Sent
<1>5. \A i \in DOMAIN reqs \ {1} :
         reqs[i].address = reqs[i - 1].address + Len(vs[i - 1].words)
  BY DEF Adjacent
<1> HIDE DEF ws, start, n, sent, low
<1>6. ASSUME NEW i \in 1 .. n - 1
      PROVE  start[i + 1] = start[i] + Len(ws[i])
  <2> DEFINE j == i + 1
  <2>1. i \in 1 .. n /\ j \in 1 .. n /\ j # 1 /\ j - 1 = i
    BY <1>1
  <2> HIDE DEF j
  <2>2. j \in DOMAIN reqs \ {1}
    BY <1>1, <2>1
  <2>3. reqs[j].address = reqs[i].address + Len(vs[i].words)
    BY <1>5, <2>1, <2>2
  <2>4. start[j] = reqs[j].address /\ start[i] = reqs[i].address /\ ws[i] = vs[i].words
    BY <1>2, <1>3, <2>1
  <2>5. start[j] = start[i] + Len(ws[i])
    BY <2>3, <2>4
  <2> QED
    BY <2>5 DEF j
<1>7. /\ \A i \in 1 .. n : start[1] <= start[i]
      /\ \A i \in 1 .. n : \A k \in 1 .. Len(ws[i]) :
            /\ start[i] - start[1] + k \in 1 .. Len(sent)
            /\ sent[start[i] - start[1] + k] = ws[i][k]
      /\ \A x \in 1 .. Len(sent) :
            \E i \in 1 .. n : \E k \in 1 .. Len(ws[i]) : x = start[i] - start[1] + k
  BY <1>1, <1>2, <1>3, <1>4, <1>6, FlattenParts
<1>8. start[1] = low
  <2>1. /\ low \in Nat
        /\ \E i \in DOMAIN reqs : low = reqs[i].address
        /\ \A i \in DOMAIN reqs : low <= reqs[i].address
    BY Span DEF low
  <2>2. PICK i \in 1 .. n : low = start[i]
    BY <1>1, <1>3, <2>1
  <2>3. 1 \in 1 .. n
    BY <1>1
  <2>4. start[1] \in Nat /\ low <= start[1]
    <3>1. start[1] \in Nat
      BY <1>3, <2>3 DEF Starts
    <3>2. low <= reqs[1].address /\ start[1] = reqs[1].address
      BY <1>1, <1>3, <2>1, <2>3
    <3> QED
      BY <3>1, <3>2
  <2>5. start[1] <= start[i]
    BY <1>7
  <2> QED
    BY <2>1, <2>2, <2>4, <2>5
<1>9. ASSUME NEW i \in DOMAIN reqs, NEW k \in 1 .. Len(vs[i].words)
      PROVE  /\ reqs[i].address - low + k \in 1 .. Len(sent)
             /\ sent[reqs[i].address - low + k] = vs[i].words[k]
  <2>1. i \in 1 .. n /\ ws[i] = vs[i].words /\ start[i] = reqs[i].address
    BY <1>1, <1>2, <1>3
  <2> QED
    BY <1>7, <1>8, <2>1, SMTT(30)
<1>10. ASSUME NEW x \in 1 .. Len(sent)
       PROVE  \E i \in DOMAIN reqs : \E k \in 1 .. Len(vs[i].words) :
                  x = reqs[i].address - low + k
  <2>1. PICK i \in 1 .. n : \E k \in 1 .. Len(ws[i]) : x = start[i] - start[1] + k
    BY <1>7
  <2>2. ws[i] = vs[i].words /\ start[i] = reqs[i].address /\ i \in DOMAIN reqs
    BY <1>1, <1>2, <1>3
  <2> QED
    BY <1>8, <2>1, <2>2
<1> QED
  BY <1>9, <1>10 DEF sent, low

\* The cells of adjacent resources are where their addresses say.
LEMMA WrittenStored ==
    ASSUME TypeOK, NEW reqs \in Commands, NEW params \in [DOMAIN reqs -> Values],
           Adjacent(reqs, params), Written(reqs, params), NEW vs, vs = Encoded(reqs, params)
    PROVE  /\ memory' = Stored(reqs, params)
           /\ \A i \in DOMAIN reqs : \A k \in DOMAIN vs[i].words :
                 memory'[getTableType(reqs[i])][reqs[i].address + k - 2] = vs[i].words[k]
<1> DEFINE t == getTableType(reqs[1])
           low == MinAddr(reqs)
           sent == Sent(reqs, params)
           held(a) == \E i \in DOMAIN reqs : a - reqs[i].address + 2 \in DOMAIN vs[i].words
           of(a) == CHOOSE i \in DOMAIN reqs : a - reqs[i].address + 2 \in DOMAIN vs[i].words
           row == [a \in Addresses |->
                      IF held(a) THEN vs[of(a)].words[a - reqs[of(a)].address + 2]
                                 ELSE memory[t][a]]
           new == Put(t, low - 1, sent)
<1>1. /\ t \in Tables /\ sent \in Seq(Nat) /\ Len(sent) \in Nat
      /\ 1 \in DOMAIN reqs /\ \A i \in DOMAIN reqs : getTableType(reqs[i]) = t
  <2>1. \A i \in DOMAIN reqs : getTableType(reqs[i]) = t
    BY CommandType DEF Adjacent, OneTable
  <2> QED
    BY <2>1, CommandType, ResourceType, SentType, LenProperties
<1>2. low \in Nat /\ low >= 1 /\ low - 1 \in Nat
  BY Span
<1>3. \A i \in DOMAIN reqs :
         /\ reqs[i].address \in Nat
         /\ Len(vs[i].words) \in Nat /\ DOMAIN vs[i].words = 1 .. Len(vs[i].words)
  BY CommandType, ResourceType, EncodedType, LenProperties
<1>4. memory' = new /\ low - 1 + Len(sent) <= Modulus
  BY DEF Written
<1>5. \A i \in DOMAIN reqs : \A k \in DOMAIN vs[i].words :
         /\ reqs[i].address - low + k \in 1 .. Len(sent)
         /\ sent[reqs[i].address - low + k] = vs[i].words[k]
  <2>1. \A i \in DOMAIN reqs : \A k \in 1 .. Len(vs[i].words) :
           /\ reqs[i].address - low + k \in 1 .. Len(sent)
           /\ sent[reqs[i].address - low + k] = vs[i].words[k]
    BY SentParts
  <2> HIDE DEF low, sent
  <2> TAKE i \in DOMAIN reqs
  <2> TAKE k \in DOMAIN vs[i].words
  <2>2. k \in 1 .. Len(vs[i].words)
    BY <1>3
  <2> QED
    BY <2>1, <2>2
<1>6. \A x \in 1 .. Len(sent) : \E i \in DOMAIN reqs : \E k \in DOMAIN vs[i].words :
         x = reqs[i].address - low + k
  BY <1>3, SentParts
<1> HIDE DEF t, low, sent
<1>7. \A a \in Addresses : new[t][a] =
         IF a \in low - 1 .. low - 1 + Len(sent) - 1 THEN sent[a - (low - 1) + 1]
         ELSE memory[t][a]
  <2> DEFINE b == low - 1
  <2>1. b \in Nat /\ t \in Tables /\ sent \in Seq(Nat)
    BY <1>1, <1>2
  <2> HIDE DEF b
  <2>2. \A a \in Addresses : Put(t, b, sent)[t][a] =
          IF a \in b .. b + Len(sent) - 1 THEN sent[a - b + 1] ELSE memory[t][a]
    BY <2>1, PutType
  <2> QED
    BY <2>2 DEF b
<1>8. ASSUME NEW a \in Addresses
      PROVE  new[t][a] = row[a]
  <2> DEFINE x == a - low + 2
  <2>1. /\ a \in Nat /\ x \in Int /\ a - (low - 1) + 1 = x
        /\ (a \in low - 1 .. low - 1 + Len(sent) - 1 <=> x \in 1 .. Len(sent))
    BY <1>1, <1>2, RegistersAssumption DEF Addresses
  <2>2. new[t][a] = IF x \in 1 .. Len(sent) THEN sent[x] ELSE memory[t][a]
    <3> HIDE DEF new, x
    <3> QED
      BY <1>7, <2>1
  <2>3. row[a] = IF held(a) THEN vs[of(a)].words[a - reqs[of(a)].address + 2]
                            ELSE memory[t][a]
    OBVIOUS
  <2> HIDE DEF new, row
  <2>4. ASSUME NEW i \in DOMAIN reqs, a - reqs[i].address + 2 \in DOMAIN vs[i].words
        PROVE  x \in 1 .. Len(sent) /\ sent[x] = vs[i].words[a - reqs[i].address + 2]
    <3> DEFINE k == a - reqs[i].address + 2
    <3>1. reqs[i].address - low + k = x
      BY <1>2, <1>3, <2>1
    <3> HIDE DEF k, x
    <3>2. k \in DOMAIN vs[i].words
      BY <2>4 DEF k
    <3>3. x \in 1 .. Len(sent) /\ sent[x] = vs[i].words[k]
      BY <1>5, <3>1, <3>2
    <3> QED
      BY <3>3 DEF k
  <2>5. x \in 1 .. Len(sent) => held(a)
    <3> SUFFICES ASSUME x \in 1 .. Len(sent) PROVE held(a)
      OBVIOUS
    <3>1. PICK i \in DOMAIN reqs : \E k \in DOMAIN vs[i].words : x = reqs[i].address - low + k
      <4> HIDE DEF x, held
      <4> QED
        BY <1>6
    <3>2. PICK k \in DOMAIN vs[i].words : x = reqs[i].address - low + k
      BY <3>1
    <3>3. k \in Int
      BY <1>3
    <3>4. a - reqs[i].address + 2 = k
      <4> DEFINE address == reqs[i].address
      <4>1. address \in Nat /\ low \in Nat /\ a \in Nat /\ a - low + 2 = address - low + k
        BY <1>2, <1>3, <2>1, <3>2
      <4> HIDE DEF address
      <4>2. a - address + 2 = k
        BY <3>3, <4>1
      <4> QED
        BY <4>2 DEF address
    <3> QED
      BY <3>4
  <2>6. CASE held(a)
    <3>1. of(a) \in DOMAIN reqs /\ a - reqs[of(a)].address + 2 \in DOMAIN vs[of(a)].words
      BY <2>6
    <3> HIDE DEF of, held, x
    <3> QED
      BY <2>2, <2>3, <2>4, <2>6, <3>1
  <2>7. CASE ~held(a)
    <3> HIDE DEF of, held, x
    <3> QED
      BY <2>2, <2>3, <2>5, <2>7
  <2> QED
    BY <2>6, <2>7
<1>9. memory' = Stored(reqs, params)
  <2>1. memory \in [Tables -> [Addresses -> Nat]] /\ new \in [Tables -> [Addresses -> Nat]]
    <3> HIDE DEF new
    <3> QED
      BY <1>1, <1>2, PutType DEF TypeOK, new
  <2>2. new = [memory EXCEPT ![t] = new[t]]
    BY <1>1, <2>1 DEF Put
  <2>3. new[t] = row
    <3>1. new[t] = [a \in Addresses |-> new[t][a]]
      <4> HIDE DEF new
      <4> QED
        BY <1>1, <2>1
    <3>2. row = [a \in Addresses |-> row[a]]
      OBVIOUS
    <3> HIDE DEF new, row
    <3> QED
      BY <1>8, <3>1, <3>2
  <2>4. Stored(reqs, params) = [memory EXCEPT ![t] = row]
    BY DEF Stored, t
  <2> HIDE DEF new, row
  <2> QED
    BY <1>4, <2>2, <2>3, <2>4
<1>10. ASSUME NEW i \in DOMAIN reqs, NEW k \in DOMAIN vs[i].words
       PROVE  memory'[getTableType(reqs[i])][reqs[i].address + k - 2] = vs[i].words[k]
  <2> DEFINE x == reqs[i].address - low + k
             a == reqs[i].address + k - 2
  <2>1. x \in 1 .. Len(sent) /\ sent[x] = vs[i].words[k]
    BY <1>5
  <2>2. k \in Int /\ reqs[i].address \in Nat
    BY <1>3
  <2>3. x \in Int /\ x >= 1 /\ x <= Len(sent)
    BY <1>1, <2>1
  <2>4. a \in Addresses /\ a \in low - 1 .. low - 1 + Len(sent) - 1 /\ a - (low - 1) + 1 = x
    <3>1. a = x + low - 2
      BY <1>2, <2>2
    <3> HIDE DEF x, a
    <3> QED
      BY <1>1, <1>2, <1>4, <2>3, <3>1, RegistersAssumption DEF Addresses
  <2> HIDE DEF x, a, new
  <2>5. new[t][a] = sent[x]
    BY <1>7, <2>4
  <2> QED
    BY <1>1, <1>4, <2>1, <2>5 DEF a
<1> QED
  BY <1>9, <1>10

\* One request stores all the values of a command, in their places, or none:
\* HandleWriteSingle and HandleWriteBatch, a device that fails or is late.
THEOREM WritesAllOrNothing == Spec => WriteAllOrNothing
<1>1. TypeOK /\ [Next]_vars =>
         [reply'.op = "write" /\ Adjacent(reply'.reqs, reply'.params) =>
             \/ memory' = Stored(reply'.reqs, reply'.params)
             \/ memory' = memory /\ reply'.out # "ok"]_vars
  <2> SUFFICES ASSUME TypeOK, [Next]_vars, vars' # vars,
                      reply'.op = "write", Adjacent(reply'.reqs, reply'.params)
               PROVE  \/ memory' = Stored(reply'.reqs, reply'.params)
                      \/ memory' = memory /\ reply'.out # "ok"
    OBVIOUS
  <2>1. ASSUME NEW reqs \in Commands, NEW outcome \in Outcomes, reply' = HandleRead(reqs, outcome)
        PROVE  FALSE
    BY <2>1, ReadTyped DEF ReplyRight
  <2>2. ASSUME NEW reqs \in Commands, NEW outcome \in Outcomes,
               NEW params \in [DOMAIN reqs -> Values], Write(reqs, params, outcome)
        PROVE  \/ memory' = Stored(reply'.reqs, reply'.params)
               \/ memory' = memory /\ reply'.out # "ok"
    <3>1. CASE /\ memory' = memory
               /\ reply' = WriteReply(reqs, params, outcome, "error")
      BY <3>1 DEF WriteReply
    <3>2. ASSUME Written(reqs, params), NEW out, reply' = WriteReply(reqs, params, outcome, out)
          PROVE  memory' = Stored(reply'.reqs, reply'.params)
      <4>1. reply'.reqs = reqs /\ reply'.params = params
        BY <3>2 DEF WriteReply
      <4>2. Adjacent(reqs, params)
        BY <4>1
      <4> QED
        BY <3>2, <4>1, <4>2, WrittenStored
    <3> QED
      BY <2>2, <3>1, <3>2, WriteDoes
  <2>3. ASSUME reply' = NoReply
        PROVE  FALSE
    BY <2>3 DEF NoReply
  <2> QED
    BY <2>1, <2>2, <2>3, StepDoes
<1> QED
  BY <1>1, TypeCorrect, PTL DEF Spec, WriteAllOrNothing

-----------------------------------------------------------------------------
LEMMA ValueHas ==
    ASSUME NEW kind, NEW words
    PROVE  Value(kind, words).kind = kind /\ Value(kind, words).words = words
BY DEF Value

LEMMA TwoOrThree == ASSUME NEW n, n = 2 \/ n = 3 PROVE n \in Nat
OBVIOUS

\* A decoder gives back what its encoder was given.
LEMMA Undone ==
    ASSUME NEW r \in Resources, NEW p \in Values, p.kind = r.type, Inverses(r),
           NEW v, v # Error,
           \/ r.encoder = "" /\ v = p
           \/ r.encoder # "" /\ v = EncodeWData(r.encoder, p),
           NEW kind, CommandValue(r, Value(kind, v.words)) # Error
    PROVE  CommandValue(r, Value(kind, v.words)) = p
<1> DEFINE w == CommandValue(r, Value(kind, v.words))
<1>0. w = CommandValue(r, Value(kind, v.words)) /\ w # Error
  OBVIOUS
<1> HIDE DEF w
<1> SUFFICES w = p
  BY <1>0
<1>1. p = Value(p.kind, p.words) /\ p.words \in Seq(Nat)
  BY RegistersAssumption DEF Value
<1>2. w.kind = r.type
  BY <1>0 DEF CommandValue
<1>3. CASE r.encoder = ""
  <2>1. r.decoder = "" /\ v = p
    BY <1>3 DEF Inverses
  <2>2. w = Value(kind, v.words)
    BY <1>0, <2>1 DEF CommandValue
  <2>3. w.kind = kind
    <3>1. Value(kind, v.words).kind = kind
      BY ValueHas
    <3> QED
      BY <2>2, <3>1
  <2> QED
    BY <1>1, <1>2, <2>1, <2>2, <2>3
<1>4. CASE r.encoder # ""
  <2> DEFINE n == Encoders[r.encoder].words
             made == Encoders[r.encoder].kind
  <2>1. v = EncodeWData(r.encoder, p)
    BY <1>4
  <2>2. /\ r.encoder \in DOMAIN Encoders /\ p.kind = made /\ Len(p.words) = n
        /\ v = Value("Uint16Array", p.words)
    BY <2>1 DEF EncodeWData
  <2>3. v.words = p.words
    <3>1. Value("Uint16Array", p.words).words = p.words
      BY ValueHas
    <3> QED
      BY <2>2, <3>1
  <2>4. /\ r.decoder # "" /\ r.decoder \in DOMAIN Decoders
        /\ Decoders[r.decoder].words = n /\ n \in Nat
    <3>1. \/ r.encoder = "encodeMACAddress" /\ r.decoder = "decodeMACAddress"
          \/ r.encoder = "encodeIPv4Address" /\ r.decoder = "decodeIPv4Address"
          \/ r.encoder = "toUint16Slice" /\ r.decoder = "toUint32"
      BY <1>4 DEF Inverses
    <3>2. DOMAIN Decoders = {"decodeMACAddress", "decodeIPv4Address", "toUint32"}
      BY DEF Decoders
    <3>3. /\ Decoders["decodeMACAddress"].words = 3 /\ Decoders["decodeIPv4Address"].words = 2
          /\ Decoders["toUint32"].words = 2
      BY DEF Decoders, Value
    <3>4. /\ Encoders["encodeMACAddress"].words = 3 /\ Encoders["encodeIPv4Address"].words = 2
          /\ Encoders["toUint16Slice"].words = 2
      BY DEF Encoders, Value
    <3>5. r.decoder # "" /\ r.decoder \in DOMAIN Decoders
      BY <3>1, <3>2
    <3>6. Decoders[r.decoder].words = Encoders[r.encoder].words
      BY <3>1, <3>3, <3>4
    <3>7. n \in Nat
      <4>1. n = 2 \/ n = 3
        BY <3>1, <3>4
      <4> HIDE DEF n
      <4> QED
        BY <4>1, TwoOrThree
    <3> QED
      BY <3>5, <3>6, <3>7
  <2>5. w = DecodeRData(r.decoder, Value(kind, p.words))
    BY <1>0, <2>3, <2>4 DEF CommandValue
  <2> HIDE DEF n
  <2>6. w = Value(Decoders[r.decoder].kind, SubSeq(p.words, 1, n))
    BY <1>0, <2>4, <2>5 DEF DecodeRData, Value
  <2>7. SubSeq(p.words, 1, n) = p.words
    BY <1>1, <2>2, SubSeqFull
  <2>8. w.kind = Decoders[r.decoder].kind /\ w.words = p.words
    <3>1. w = Value(Decoders[r.decoder].kind, p.words)
      BY <2>6, <2>7
    <3>2. /\ Value(Decoders[r.decoder].kind, p.words).kind = Decoders[r.decoder].kind
          /\ Value(Decoders[r.decoder].kind, p.words).words = p.words
      BY ValueHas
    <3> QED
      BY <3>1, <3>2
  <2> QED
    BY <1>1, <1>2, <2>6, <2>7, <2>8
<1> QED
  BY <1>3, <1>4

\* What a command has written stays until the next one.
LEMMA StepWritten ==
    ASSUME TypeOK, WrittenInv, [Next]_vars
    PROVE  WrittenInv'
<1>1. CASE UNCHANGED vars
  BY <1>1 DEF WrittenInv, vars
<1>2. ASSUME NEW reqs \in Commands, NEW outcome \in Outcomes, reply' = HandleRead(reqs, outcome)
      PROVE  WrittenInv'
  <2>1. reply'.op = "read"
    BY <1>2, ReadTyped DEF ReplyRight
  <2> QED
    BY <2>1 DEF WrittenInv
<1>3. ASSUME NEW reqs \in Commands, NEW outcome \in Outcomes,
             NEW params \in [DOMAIN reqs -> Values], Write(reqs, params, outcome)
      PROVE  WrittenInv'
  <2> DEFINE vs == Encoded(reqs, params)
  <2>1. PICK out : /\ reply' = WriteReply(reqs, params, outcome, out)
                   /\ out # "ok" \/ Written(reqs, params)
    BY <1>3, WriteDoes
  <2>2. reply'.reqs = reqs /\ reply'.params = params /\ reply'.out = out
    BY <2>1 DEF WriteReply
  <2>3. \A i \in DOMAIN reqs : params[i].kind = reqs[i].type
    BY <1>3, WriteDoes
  <2>4. ASSUME out = "ok", Adjacent(reqs, params), NEW i \in DOMAIN reqs
        PROVE  /\ vs[i] # Error
               /\ \A k \in DOMAIN vs[i].words :
                     memory'[getTableType(reqs[i])][reqs[i].address + k - 2] = vs[i].words[k]
    <3>1. Convertible(getTableType(reqs[1]), vs[i], FALSE)
      BY <2>1, <2>4 DEF Written
    <3>2. vs[i] # Error
      BY <3>1 DEF Convertible, Error, Value
    <3>3. \A k \in DOMAIN vs[i].words :
              memory'[getTableType(reqs[i])][reqs[i].address + k - 2] = vs[i].words[k]
      <4>1. Written(reqs, params)
        BY <2>1, <2>4
      <4> QED
        BY <2>4, <4>1, WrittenStored
    <3> QED
      BY <3>2, <3>3
  <2> QED
    BY <2>2, <2>3, <2>4 DEF WrittenInv
<1>4. ASSUME reply' = NoReply
      PROVE  WrittenInv'
  BY <1>4 DEF WrittenInv, NoReply
<1> QED
  BY <1>1, <1>2, <1>3, <1>4, StepDoes

LEMMA WrittenRead ==
    ASSUME TypeOK, WrittenInv
    PROVE  ReadsBack
<1> DEFINE reqs == reply.reqs
           params == reply.params
           vs == Encoded(reqs, params)
<1> SUFFICES ASSUME reply.op = "write", reply.out = "ok", Adjacent(reqs, params), Readable(reqs),
                    \A i \in DOMAIN reqs :
                        /\ Inverses(reqs[i]) /\ Len(vs[i].words) = reqs[i].length
                        /\ reqs[i].address + reqs[i].length < Modulus
             PROVE  HandleRead(reqs, "answers").values = params
  BY DEF ReadsBack
<1>1. reqs \in Commands /\ params \in [DOMAIN reqs -> Values]
  BY DEF TypeOK, NoReply
<1>2. \A i \in DOMAIN reqs : params[i].kind = reqs[i].type
  BY DEF WrittenInv
<1>3. \A i \in DOMAIN reqs :
         /\ vs[i] # Error
         /\ \A k \in DOMAIN vs[i].words :
               memory[getTableType(reqs[i])][reqs[i].address + k - 2] = vs[i].words[k]
  BY DEF WrittenInv
<1>4. /\ HandleRead(reqs, "answers").values = [i \in DOMAIN reqs |-> Found(reqs[i])]
      /\ \A i \in DOMAIN reqs : Found(reqs[i]) # Error
  <2> HIDE DEF reqs
  <2> QED
    BY <1>1, WholeRead
<1>5. ASSUME NEW i \in DOMAIN reqs
      PROVE  Found(reqs[i]) = params[i]
  <2> DEFINE r == reqs[i]
             t == getTableType(r)
             v == vs[i]
             kind == RawKind(t, r.length)
  <2>1. r \in Resources /\ t \in Tables /\ r.address + r.length <= Modulus + 1
    <3> HIDE DEF reqs
    <3>1. r \in Resources
      BY <1>1, CommandType
    <3>2. r.address \in Nat /\ r.length \in Nat /\ t \in Tables
      BY <3>1, ResourceType
    <3>3. r.address + r.length < Modulus
      OBVIOUS
    <3> HIDE DEF r
    <3> QED
      BY <3>1, <3>2, <3>3, RegistersAssumption
  <2>2. v.words \in Seq(Nat) /\ Len(v.words) = r.length
    <3> HIDE DEF reqs, params
    <3> QED
      BY <1>1, EncodedType
  <2>3. Part(t, r) = v.words
    <3>1. /\ Part(t, r) \in Seq(Nat) /\ Len(Part(t, r)) = r.length
          /\ \A k \in 1 .. r.length : Part(t, r)[k] = memory[t][r.address + k - 2]
      <4> HIDE DEF r, t
      <4> QED
        BY <2>1, PartRead
    <3>2. \A k \in 1 .. r.length : Part(t, r)[k] = v.words[k]
      <4>1. DOMAIN v.words = 1 .. r.length
        <5> HIDE DEF v, r
        <5> QED
          BY <2>2, LenProperties
      <4> QED
        BY <1>3, <3>1, <4>1
    <3> HIDE DEF v, r, t
    <3> QED
      BY <2>2, <3>1, <3>2, SeqEqual
  <2>4. WellTyped(r)
    BY DEF Readable
  <2>5. Found(r) # Error /\ Found(r) = CommandValue(r, Value(kind, v.words))
    <3> HIDE DEF v, r
    <3> QED
      BY <2>1, <2>3, <2>4, WellTypedFound
  <2>6. \/ r.encoder = "" /\ v = params[i]
        \/ r.encoder # "" /\ v = EncodeWData(r.encoder, params[i])
    BY DEF Encoded
  <2>7. params[i] \in Values /\ params[i].kind = r.type /\ Inverses(r) /\ v # Error
    BY <1>1, <1>2, <1>3
  <2> HIDE DEF reqs, params, v, r, kind
  <2>8. Found(r) = params[i]
    BY <2>1, <2>5, <2>6, <2>7, Undone
  <2> QED
    BY <2>8 DEF r
<1>6. params = [i \in DOMAIN reqs |-> params[i]]
  BY <1>1
<1> QED
  BY <1>4, <1>5, <1>6

\* What a command wrote reads back: the encoders and decoders of pkg/conv, and
\* the spans and offsets of reads and writes.
THEOREM WritesReadBack == Spec => []ReadsBack
<1>1. Init => WrittenInv
  BY DEF Init, WrittenInv, NoReply
<1>2. TypeOK /\ WrittenInv /\ [Next]_vars => WrittenInv'
  BY StepWritten
<1>3. TypeOK /\ WrittenInv => ReadsBack
  BY WrittenRead
<1> QED
  BY <1>1, <1>2, <1>3, TypeCorrect, PTL DEF Spec

=============================================================================

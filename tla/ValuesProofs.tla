---------------------------- MODULE ValuesProofs ----------------------------
(***************************************************************************)
(* Theorems about the values that commands read and write and devices      *)
(* push, for every size of the integers, every rounding of the floats and  *)
(* all texts: what becomes of them on their way is what NumbersRight,      *)
(* WritesReadBack and PushedRight say.                                     *)
(***************************************************************************)
EXTENDS Values, TLAPS

Widths == {8, 16, 32, 64}

LEMMA Sizes ==
    ASSUME NEW bits \in Widths
    PROVE  /\ Size[bits] \in Nat \ {0} /\ Size[bits] \div 2 \in Nat \ {0}
           /\ Size[bits] \div 2 > 1
           /\ Size[bits] = 2 * (Size[bits] \div 2)
BY ValuesAssumption DEF Widths

\* A number and its remainder differ by a multiple.
LEMMA Quotient ==
    ASSUME NEW m \in Nat \ {0}, NEW x \in Int
    PROVE  \E q \in Int : x = q * m + (x % m)
<1> DEFINE q == x \div m
<1>1. q \in Int /\ x = q * m + (x % m)
  OBVIOUS
<1> HIDE DEF q
<1> QED
  BY <1>1

LEMMA Remainder ==
    ASSUME NEW m \in Nat \ {0}, NEW x \in Int
    PROVE  x % m \in 0 .. m - 1 /\ (x \in 0 .. m - 1 => x % m = x)
OBVIOUS

\* Multiples leave no remainder.
LEMMA Multiple ==
    ASSUME NEW m \in Nat \ {0}, NEW q \in Int
    PROVE  (q * m) % m = 0
<1> DEFINE x == q * m
           r == x % m
<1>1. x \in Int
  OBVIOUS
<1>2. r \in 0 .. m - 1 /\ \E d \in Int : x = d * m + r
  BY <1>1, Quotient, Remainder
<1>3. PICK d \in Int : x = d * m + r
  BY <1>2
<1> HIDE DEF r
<1>4. r = (q - d) * m
  BY <1>2, <1>3
<1>5. CASE q - d >= 1
  <2>1. (q - d) * m >= m
    BY <1>5
  <2> QED
    BY <1>2, <1>4, <2>1
<1>6. CASE q - d <= -1
  <2>1. (q - d) * m <= -m
    BY <1>6
  <2> QED
    BY <1>2, <1>4, <2>1
<1>7. CASE q - d = 0
  BY <1>4, <1>7 DEF r
<1> QED
  BY <1>5, <1>6, <1>7

\* A wider integer has a multiple of the values of a narrower one.
LEMMA Nested ==
    ASSUME NEW a \in Widths, NEW b \in Widths, a <= b
    PROVE  \E k \in Nat \ {0} : Size[b] = k * Size[a]
<1> DEFINE m == Size[a]
           n == Size[b]
<1>1. m \in Nat \ {0} /\ n \in Nat \ {0} /\ n \in Int /\ n % m = 0
  BY Sizes, ValuesAssumption DEF Widths
<1> HIDE DEF m, n
<1>2. PICK k \in Int : n = k * m + (n % m)
  BY <1>1, Quotient
<1>3. n = k * m
  <2>1. n = k * m + 0
    BY <1>1, <1>2
  <2> QED
    BY <1>1, <2>1
<1>4. k \in Nat \ {0}
  <2> SUFFICES ASSUME k <= 0 PROVE FALSE
    OBVIOUS
  <2>1. k * m <= 0
    BY <1>1
  <2> QED
    BY <1>1, <1>3, <2>1
<1> QED
  BY <1>3, <1>4 DEF m, n

LEMMA Wider ==
    ASSUME NEW a \in Widths, NEW b \in Widths, a <= b
    PROVE  Signed(a) \subseteq Signed(b) /\ Unsigned(a) \subseteq Unsigned(b)
<1>1. PICK k \in Nat \ {0} : Size[b] = k * Size[a]
  BY Nested
<1>2. Size[a] <= Size[b]
  <2>1. Size[a] \in Nat
    BY Sizes
  <2>2. k * Size[a] >= Size[a]
    BY <2>1
  <2> QED
    BY <1>1, <2>2
<1>3. Size[a] \div 2 <= Size[b] \div 2
  BY <1>2, Sizes
<1> QED
  BY <1>2, <1>3, Sizes DEF Signed, Unsigned

\* A number that has been kept modulo the size of a type.
Congruent(bits, r, n) == \E q \in Int : r - n = q * Size[bits]

LEMMA NoRemainder ==
    ASSUME NEW bits \in Widths, NEW r, NEW n, Congruent(bits, r, n)
    PROVE  (r - n) % Size[bits] = 0
BY Sizes, Multiple DEF Congruent

\* The conversion to an unsigned integer of fewer bits, and to a signed one.
LEMMA Cast ==
    ASSUME NEW bits \in Widths, NEW n \in Int
    PROVE  /\ n % Size[bits] \in Unsigned(bits) /\ Congruent(bits, n % Size[bits], n)
           /\ n \in Unsigned(bits) => n % Size[bits] = n
<1> DEFINE m == Size[bits]
<1>1. m \in Nat \ {0}
  BY Sizes
<1> HIDE DEF m
<1>2. n % m \in 0 .. m - 1 /\ (n \in 0 .. m - 1 => n % m = n)
  BY <1>1, Remainder
<1>3. PICK q \in Int : n = q * m + (n % m)
  BY <1>1, Quotient
<1>4. (n % m) - n = (-q) * m
  BY <1>1, <1>2, <1>3
<1> QED
  BY <1>2, <1>4 DEF m, Unsigned, Congruent

LEMMA Wrapped ==
    ASSUME NEW bits \in Widths, NEW n \in Int
    PROVE  /\ WrapSigned(bits, n) \in Signed(bits) /\ Congruent(bits, WrapSigned(bits, n), n)
           /\ n \in Signed(bits) => WrapSigned(bits, n) = n
<1> DEFINE m == Size[bits]
           h == m \div 2
           x == n + h
           r == x % m
<1>1. m \in Nat \ {0} /\ h \in Nat \ {0} /\ m = 2 * h /\ x \in Int
  BY Sizes
<1>2. WrapSigned(bits, n) = r - h /\ Signed(bits) = -h .. h - 1
  BY DEF WrapSigned, Signed
<1> HIDE DEF m, h
<1>3. r \in 0 .. m - 1 /\ (x \in 0 .. m - 1 => r = x)
  BY <1>1, Remainder
<1>4. PICK q \in Int : x = q * m + r
  BY <1>1, Quotient
<1> HIDE DEF r
<1>5. r - h - n = (-q) * m
  BY <1>1, <1>3, <1>4
<1>6. r - h \in -h .. h - 1 /\ (n \in -h .. h - 1 => r - h = n)
  BY <1>1, <1>3
<1> QED
  BY <1>2, <1>5, <1>6 DEF m, Congruent

LEMMA WrappedTwice ==
    ASSUME NEW bits \in Widths, NEW n \in Int
    PROVE  Congruent(bits, WrapSigned(bits, WrapSigned(64, n)), n)
<1> DEFINE m == Size[bits]
           y == WrapSigned(64, n)
           z == WrapSigned(bits, y)
<1>1. m \in Nat \ {0} /\ 64 \in Widths /\ bits <= 64
  BY Sizes DEF Widths
<1>2. y \in Int /\ \E q \in Int : y - n = q * Size[64]
  <2>1. y \in Signed(64) /\ Congruent(64, y, n)
    BY <1>1, Wrapped
  <2> QED
    BY <1>1, <2>1, Sizes DEF Signed, Congruent
<1>3. z \in Int /\ \E q \in Int : z - y = q * m
  BY <1>2, Wrapped, Sizes DEF Signed, Congruent
<1>4. PICK q2 \in Int : y - n = q2 * Size[64]
  BY <1>2
<1>5. PICK q3 \in Int : z - y = q3 * m
  BY <1>3
<1>6. PICK k \in Nat : Size[64] = k * m
  BY <1>1, Nested
<1> HIDE DEF m, y, z
<1>7. y - n = (q2 * k) * m
  BY <1>1, <1>4, <1>6
<1>8. z - n = (q3 + q2 * k) * m
  BY <1>1, <1>2, <1>3, <1>5, <1>7
<1>9. q3 + q2 * k \in Int
  OBVIOUS
<1> QED
  BY <1>8, <1>9 DEF Congruent, m, y, z

LEMMA Whole == \A n \in Int : Truncated(2 * n) = n
BY DEF Truncated

-----------------------------------------------------------------------------
UnsignedKinds == {"uint8", "uint16", "uint32", "uint64", "uint"}
SignedKinds == {"int8", "int16", "int32", "int64", "int"}

LEMMA Kinds ==
    /\ DOMAIN IntegerKinds = UnsignedKinds \cup SignedKinds
    /\ DOMAIN FloatKinds = {"float32", "float64"}
    /\ \A k \in UnsignedKinds : IntegerKinds[k] \subseteq Unsigned(64)
    /\ \A k \in SignedKinds : IntegerKinds[k] \subseteq Signed(64)
    /\ Unsigned(64) \subseteq Nat /\ Signed(64) \subseteq Int
<1>1. \A b \in Widths : Unsigned(b) \subseteq Unsigned(64) /\ Signed(b) \subseteq Signed(64)
  BY Wider DEF Widths
<1>2. Unsigned(64) \subseteq Nat /\ Signed(64) \subseteq Int
  BY Sizes DEF Widths, Unsigned, Signed
<1>3. /\ DOMAIN IntegerKinds = UnsignedKinds \cup SignedKinds
      /\ DOMAIN FloatKinds = {"float32", "float64"}
  BY DEF IntegerKinds, FloatKinds, UnsignedKinds, SignedKinds
<1>4. \A k \in UnsignedKinds : \E b \in Widths : IntegerKinds[k] = Unsigned(b)
  BY DEF IntegerKinds, UnsignedKinds, Widths
<1>5. \A k \in SignedKinds : \E b \in Widths : IntegerKinds[k] = Signed(b)
  BY DEF IntegerKinds, SignedKinds, Widths
<1> QED
  BY <1>1, <1>2, <1>3, <1>4, <1>5

\* The integer a Go value of an integer kind is.
LEMMA IntegerHeld ==
    ASSUME NEW v, Holds(v), v[1] \in UnsignedKinds \cup SignedKinds
    PROVE  /\ v[2] \in Int /\ Halves(v) = 2 * v[2] /\ Truncated(Halves(v)) = v[2]
           /\ v[1] \in UnsignedKinds => v[2] >= 0
<1>1. v[2] \in Int /\ (v[1] \in UnsignedKinds => v[2] >= 0)
  BY Kinds DEF Holds
<1>2. Halves(v) = 2 * v[2]
  BY Kinds DEF Halves
<1> QED
  BY <1>1, <1>2, Whole

LEMMA FloatHeld ==
    ASSUME NEW v, Holds(v), v[1] \in {"float32", "float64"}
    PROVE  v[2] \in Int /\ v[2] \in FloatRange /\ Halves(v) = v[2]
<1>1. v[2] \in FloatRange
  BY Kinds DEF Holds, UnsignedKinds, SignedKinds
<1>2. FloatRange \subseteq Int
  BY Sizes DEF FloatRange, Widths
<1>3. Halves(v) = v[2]
  BY Kinds DEF Halves, UnsignedKinds, SignedKinds
<1> QED
  BY <1>1, <1>2, <1>3

Wide == Signed(64) \cup Unsigned(64)

\* toUint64 refuses negative numbers; one it takes is kept if it is an integer
\* of 64 bits.
LEMMA UnsignedRead ==
    ASSUME NEW v, Holds(v), NEW n \in ToUint64(v)
    PROVE  n \in Int /\ Halves(v) >= 0 /\ (Truncated(Halves(v)) \in Wide => n = Truncated(Halves(v)))
<1>1. CASE v[1] \in {"uint64", "uint", "uint32", "uint16", "uint8"}
  BY <1>1, IntegerHeld DEF ToUint64, UnsignedKinds
<1>2. CASE v[1] \in {"int", "int64", "int32"}
  BY <1>2, IntegerHeld DEF ToUint64, SignedKinds
<1>3. CASE v[1] = "float64"
  <2> DEFINE h == v[2]
             t == Truncated(h)
  <2>1. h \in Int /\ Halves(v) = h
    BY <1>3, FloatHeld
  <2>2. ~(h < 0) /\ n \in FromFloat(h, Unsigned(64))
    BY <1>3 DEF ToUint64, IntegerKinds
  <2>3. t \in Nat
    BY <2>1, <2>2 DEF Truncated
  <2>4. t \in Wide => t \in Unsigned(64)
    BY <2>3, Sizes DEF Wide, Unsigned, Signed, Widths
  <2>5. t \in Wide => n = t
    BY <2>2, <2>4 DEF FromFloat
  <2>6. n \in Int
    BY <2>2, <2>3, Kinds DEF FromFloat
  <2> QED
    BY <2>1, <2>2, <2>5, <2>6
<1>4. CASE v[1] \notin {"uint64", "uint", "uint32", "uint16", "uint8", "int", "int64", "int32", "float64"}
  BY <1>4 DEF ToUint64
<1> QED
  BY <1>1, <1>2, <1>3, <1>4

\* toInt64 takes the bits of an unsigned integer for those of a signed one.
LEMMA SignedRead ==
    ASSUME NEW v, Holds(v), NEW n \in ToInt64(v), NEW bits \in Widths,
           v[1] = "float64" => Truncated(Halves(v)) \in Signed(64)
    PROVE  Congruent(bits, WrapSigned(bits, n), Truncated(Halves(v)))
<1>1. CASE v[1] \in {"int64", "int", "int32", "int16", "int8"}
  BY <1>1, IntegerHeld, Wrapped DEF ToInt64, SignedKinds
<1>2. CASE v[1] \in {"uint64", "uint", "uint32"}
  BY <1>2, IntegerHeld, WrappedTwice DEF ToInt64, UnsignedKinds
<1>3. CASE v[1] = "float64"
  <2> DEFINE t == Truncated(v[2])
  <2>1. Halves(v) = v[2] /\ t \in Signed(64) /\ t \in Int
    BY <1>3, FloatHeld, Kinds
  <2>2. n \in FromFloat(v[2], Signed(64))
    BY <1>3 DEF ToInt64, IntegerKinds
  <2>3. n = t
    BY <2>1, <2>2 DEF FromFloat
  <2> QED
    BY <2>1, <2>3, Wrapped
<1>4. CASE v[1] \notin {"int64", "int", "int32", "int16", "int8", "uint64", "uint", "uint32", "float64"}
  BY <1>4 DEF ToInt64
<1> QED
  BY <1>1, <1>2, <1>3, <1>4

LEMMA SignedIsInt ==
    ASSUME NEW v, Holds(v), NEW n \in ToInt64(v)
    PROVE  n \in Int
<1>1. CASE v[1] \in {"int64", "int", "int32", "int16", "int8"}
  BY <1>1, IntegerHeld DEF ToInt64, SignedKinds
<1>2. CASE v[1] \in {"uint64", "uint", "uint32"}
  <2>1. v[2] \in Int /\ n = WrapSigned(64, v[2])
    BY <1>2, IntegerHeld DEF ToInt64, UnsignedKinds
  <2> QED
    BY <2>1, Wrapped, Kinds DEF Widths
<1>3. CASE v[1] = "float64"
  <2>1. v[2] \in Int /\ n \in FromFloat(v[2], Signed(64))
    BY <1>3, FloatHeld DEF ToInt64, IntegerKinds
  <2> QED
    BY <2>1, Kinds DEF FromFloat, Truncated
<1>4. CASE v[1] \notin {"int64", "int", "int32", "int16", "int8", "uint64", "uint", "uint32", "float64"}
  BY <1>4 DEF ToInt64
<1> QED
  BY <1>1, <1>2, <1>3, <1>4

-----------------------------------------------------------------------------
\* What NumbersRight says of a value w that was made for a type of a Go value v.
Right(v, type, w) ==
    LET n == Halves(v)  t == Truncated(Halves(v)) IN
    /\ type \in IntegerTypes /\ t \in Wide /\ (v[1] = "float64" /\ type \in SignedTypes => t \in Signed(64))
       => (w[2] - t) % Size[BitsOf[type]] = 0
    /\ type \in IntegerTypes => w \in Proper(type)
    /\ type \in UnsignedTypes => n >= 0
    /\ type \in {"Float32", "Float64"} /\ Round[BitsOf[type]][n] = n => w[2] = n
    /\ type = "Bool" => (w[2] <=> n # 0)

LEMMA Disjoint ==
    /\ IntegerTypes = UnsignedTypes \cup SignedTypes /\ UnsignedTypes \cap SignedTypes = {}
    /\ IntegerTypes \cap {"Float32", "Float64", "Bool", "String", "Binary"} = {}
    /\ \A type \in IntegerTypes : type \in Types /\ BitsOf[type] \in Widths
BY DEF IntegerTypes, UnsignedTypes, SignedTypes, Types, KindOf, BitsOf, Widths

LEMMA ProperIntegers ==
    /\ \A type \in UnsignedTypes : Proper(type) = {KindOf[type]} \X Unsigned(BitsOf[type])
    /\ \A type \in SignedTypes : Proper(type) = {KindOf[type]} \X Signed(BitsOf[type])
<1>1. ASSUME NEW type \in UnsignedTypes
      PROVE  Proper(type) = {KindOf[type]} \X Unsigned(BitsOf[type])
  <2> DEFINE kind == KindOf[type]
  <2>1. kind \in UnsignedKinds /\ IntegerKinds[kind] = Unsigned(BitsOf[type])
    BY DEF UnsignedTypes, KindOf, UnsignedKinds, IntegerKinds, BitsOf
  <2> HIDE DEF kind
  <2>2. kind \in DOMAIN IntegerKinds /\ kind \notin DOMAIN FloatKinds \cup {"string", "bytes", "bool"}
    BY <2>1, Kinds DEF UnsignedKinds
  <2>3. Proper(type) = {kind} \X IntegerKinds[kind]
    BY <2>2 DEF Proper, kind
  <2> QED
    BY <2>1, <2>3 DEF kind
<1>2. ASSUME NEW type \in SignedTypes
      PROVE  Proper(type) = {KindOf[type]} \X Signed(BitsOf[type])
  <2> DEFINE kind == KindOf[type]
  <2>1. kind \in SignedKinds /\ IntegerKinds[kind] = Signed(BitsOf[type])
    BY DEF SignedTypes, KindOf, SignedKinds, IntegerKinds, BitsOf
  <2> HIDE DEF kind
  <2>2. kind \in DOMAIN IntegerKinds /\ kind \notin DOMAIN FloatKinds \cup {"string", "bytes", "bool"}
    BY <2>1, Kinds DEF SignedKinds
  <2>3. Proper(type) = {kind} \X IntegerKinds[kind]
    BY <2>2 DEF Proper, kind
  <2> QED
    BY <2>1, <2>3 DEF kind
<1> QED
  BY <1>1, <1>2

LEMMA ProperInteger ==
    /\ \A type \in UnsignedTypes : \A n \in Unsigned(BitsOf[type]) :
          <<KindOf[type], n>> \in Proper(type)
    /\ \A type \in SignedTypes : \A n \in Signed(BitsOf[type]) :
          <<KindOf[type], n>> \in Proper(type)
BY ProperIntegers

LEMMA ReadAsUnsigned ==
    ASSUME NEW v, Holds(v), NEW type \in UnsignedTypes, NEW w \in ValueToType(v, type)
    PROVE  Right(v, type, w)
<1> DEFINE t == Truncated(Halves(v))
<1> DEFINE k == KindOf[type]
           m == Size[BitsOf[type]]
<1>1. PICK n \in ToUint64(v) : w = <<k, n % m>>
  <2>1. w \in {<<k, r>> : r \in {n % m : n \in ToUint64(v)}}
    BY Disjoint DEF ValueToType
  <2> HIDE DEF k, m
  <2> QED
    BY <2>1
<1>2. n \in Int /\ Halves(v) >= 0 /\ (t \in Wide => n = t) /\ BitsOf[type] \in Widths
  BY <1>1, UnsignedRead, Disjoint
<1>3. w \in Proper(type) /\ Congruent(BitsOf[type], w[2], n)
  BY <1>1, <1>2, Cast, ProperInteger
<1>4. t \in Wide => (w[2] - t) % Size[BitsOf[type]] = 0
  BY <1>2, <1>3, NoRemainder
<1> QED
  BY <1>2, <1>3, <1>4, Disjoint DEF Right

LEMMA ReadAsSigned ==
    ASSUME NEW v, Holds(v), NEW type \in SignedTypes, NEW w \in ValueToType(v, type)
    PROVE  Right(v, type, w)
<1> DEFINE t == Truncated(Halves(v))
<1>1. PICK n \in ToInt64(v) : w = <<KindOf[type], WrapSigned(BitsOf[type], n)>>
  BY Disjoint DEF ValueToType
<1>2. n \in Int /\ BitsOf[type] \in Widths
  BY <1>1, SignedIsInt, Disjoint
<1>3. w \in Proper(type)
  BY <1>1, <1>2, Wrapped, ProperInteger
<1>4. (v[1] = "float64" => t \in Signed(64)) => (w[2] - t) % Size[BitsOf[type]] = 0
  BY <1>1, <1>2, SignedRead, NoRemainder
<1> QED
  BY <1>3, <1>4, Disjoint DEF Right

\* Floats go as far as any number does.
LEMMA NumberInRange ==
    ASSUME NEW v, v[1] \in UnsignedKinds \cup SignedKinds \cup {"float32", "float64"}, Holds(v)
    PROVE  Halves(v) \in FloatRange
<1>1. CASE v[1] \in UnsignedKinds \cup SignedKinds
  <2>1. v[2] \in Wide /\ Halves(v) = 2 * v[2]
    BY <1>1, Kinds, IntegerHeld DEF Holds, Wide
  <2>2. Size[64] \in Nat /\ Size[64] \div 2 \in Nat /\ Size[64] = 2 * (Size[64] \div 2)
    BY Sizes DEF Widths
  <2> QED
    BY <2>1, <2>2 DEF Wide, Signed, Unsigned, FloatRange
<1>2. CASE v[1] \in {"float32", "float64"}
  BY <1>2, FloatHeld
<1> QED
  BY <1>1, <1>2

\* What a float32 or a float64 holds, a float64 holds.
LEMMA KeptByFloat64 ==
    ASSUME NEW p \in {32, 64}, NEW h \in FloatRange, Round[p][h] = h
    PROVE  Round[64][h] = h
<1>1. Round[64][Round[32][h]] = Round[32][h]
  BY ValuesAssumption
<1> QED
  BY <1>1

\* A number goes through a float64, and is kept if the type's float holds it.
LEMMA ReadAsFloat ==
    ASSUME NEW v, v[1] \in UnsignedKinds \cup SignedKinds \cup {"float32", "float64"}, Holds(v),
           NEW type \in {"Float32", "Float64"}, NEW w \in ValueToType(v, type)
    PROVE  Right(v, type, w)
<1> DEFINE n == Halves(v)
           b == BitsOf[type]
<1>1. w[2] = Round[b][Round[64][n]]
  <2>1. PICK f \in ToFloat64(v) : w = <<KindOf[type], Round[b][f]>>
    BY Disjoint DEF ValueToType, UnsignedTypes, SignedTypes
  <2>2. f = Round[64][n]
    BY <2>1 DEF ToFloat64
  <2> QED
    BY <2>1, <2>2
<1>2. Round[b][n] = n => w[2] = n
  <2>1. n \in FloatRange /\ b \in {32, 64}
    BY NumberInRange DEF BitsOf
  <2> HIDE DEF n, b
  <2> QED
    BY <1>1, <2>1, KeptByFloat64
<1> QED
  BY <1>2 DEF Right, IntegerTypes, UnsignedTypes, SignedTypes

LEMMA ReadAsBool ==
    ASSUME NEW v, v[1] \in UnsignedKinds \cup SignedKinds \cup {"float32", "float64"}, Holds(v),
           NEW w \in ValueToType(v, "Bool")
    PROVE  Right(v, "Bool", w)
<1>1. PICK b \in ToBool(v) : w = <<KindOf["Bool"], b>>
  BY DEF ValueToType, UnsignedTypes, SignedTypes
<1>2. v[1] \in {"int", "int64", "uint", "uint64"} /\ b = (v[2] # 0)
  BY <1>1 DEF ToBool, UnsignedKinds, SignedKinds
<1>3. Halves(v) = 2 * v[2] /\ v[2] \in Int
  BY <1>2, IntegerHeld DEF UnsignedKinds, SignedKinds
<1>4. Halves(v) # 0 <=> v[2] # 0
  BY <1>3
<1>5. w[2] = (v[2] # 0)
  BY <1>1, <1>2
<1>6. w[2] <=> Halves(v) # 0
  BY <1>4, <1>5, Zenon
<1> QED
  BY <1>6 DEF Right, IntegerTypes, UnsignedTypes, SignedTypes

\* Whatever ValueToType makes of a number is right.
LEMMA NumberConverted ==
    ASSUME NEW v, v[1] \in UnsignedKinds \cup SignedKinds \cup {"float32", "float64"}, Holds(v),
           NEW type \in Types, NEW w \in ValueToType(v, type)
    PROVE  Right(v, type, w)
<1>1. CASE type \in IntegerTypes
  BY <1>1, ReadAsUnsigned, ReadAsSigned, Disjoint
<1>2. CASE type \in {"Float32", "Float64"}
  BY <1>2, ReadAsFloat
<1>3. CASE type = "Bool"
  BY <1>3, ReadAsBool
<1>4. CASE type \notin IntegerTypes \cup {"Float32", "Float64", "Bool"}
  BY <1>4, Disjoint DEF Right
<1> QED
  BY <1>1, <1>2, <1>3, <1>4

\* Text and JSON make no number.
LEMMA NoNumber ==
    ASSUME NEW v, v[1] \in {"string", "json"}, NEW type \in IntegerTypes \cup {"Float32", "Float64", "Bool"}
    PROVE  ValueToType(v, type) = {}
BY DEF ValueToType, ToUint64, ToInt64, ToFloat64, ToBool, IntegerTypes, UnsignedTypes, SignedTypes

\* A value OPC UA reads has the kind of the type, and is the value of the node.
LEMMA ReadAsItIs ==
    ASSUME NEW v, v[1] \in {"int32", "uint16", "float64"}, Holds(v), NEW type \in Types,
           v[1] = KindOf[type], v = <<v[1], v[2]>>
    PROVE  Right(v, type, v)
<1>1. CASE type \in IntegerTypes
  <2>1. type \in {"Int32", "Uint16"}
    BY <1>1 DEF IntegerTypes, UnsignedTypes, SignedTypes, KindOf
  <2>2. v[2] \in Int /\ Truncated(Halves(v)) = v[2] /\ (v[1] = "uint16" => Halves(v) >= 0)
    BY <2>1, IntegerHeld DEF KindOf, UnsignedKinds, SignedKinds
  <2>3. v[2] - v[2] = 0 * Size[BitsOf[type]] /\ BitsOf[type] \in Widths
    BY <2>2, Sizes, <1>1, Disjoint
  <2>4. (v[2] - Truncated(Halves(v))) % Size[BitsOf[type]] = 0
    BY <2>2, <2>3, NoRemainder DEF Congruent
  <2>5. v \in Proper(type)
    BY <2>1, ProperInteger DEF Holds, KindOf, IntegerKinds, BitsOf, UnsignedTypes, SignedTypes
  <2>6. type \in UnsignedTypes => Halves(v) >= 0
    BY <2>1, <2>2 DEF UnsignedTypes, KindOf
  <2> QED
    BY <1>1, <2>4, <2>5, <2>6, Disjoint DEF Right
<1>2. CASE type \notin IntegerTypes
  <2>1. type = "Float64"
    BY <1>2 DEF IntegerTypes, UnsignedTypes, SignedTypes, KindOf, Types
  <2>2. Halves(v) = v[2]
    BY <2>1, FloatHeld DEF KindOf
  <2> QED
    BY <1>2, <2>1, <2>2, Disjoint DEF Right
<1> QED
  BY <1>1, <1>2

-----------------------------------------------------------------------------
LEMMA Adapters == DOMAIN Syntaxes = {"snmp", "opcua", "http", "push"}
BY DEF Syntaxes

LEMMA Rounding ==
    ASSUME NEW p \in {32, 64}, NEW h \in FloatRange
    PROVE  /\ Round[p][h] \in FloatRange /\ Round[p][Round[p][h]] = Round[p][h]
           /\ h >= 0 => Round[p][h] >= 0
BY ValuesAssumption

LEMMA FloatsInRange ==
    /\ Floats(32) \subseteq FloatRange /\ Floats(64) \subseteq FloatRange
    /\ \A f \in Floats(32) : Round[32][f] = f /\ Round[64][f] = f
    /\ \A f \in Floats(64) : Round[64][f] = f
BY Rounding, KeptByFloat64 DEF Floats

LEMMA DecodedHolds ==
    ASSUME ObjectInv
    PROVE  /\ Holds(Decoded) /\ Decoded[1] = Syntaxes[adapter][object[1]]
           /\ Decoded = <<Decoded[1], Decoded[2]>>
           /\ Numeric <=> Decoded[1] \in UnsignedKinds \cup SignedKinds \cup {"float32", "float64"}
<1> DEFINE k == Syntaxes[adapter][object[1]]
<1>1. Decoded[1] = k /\ Decoded = <<Decoded[1], Decoded[2]>>
  BY DEF Decoded
<1>2. Numeric <=> k \in UnsignedKinds \cup SignedKinds \cup {"float32", "float64"}
  BY <1>1, Kinds DEF Numeric
<1>3. CASE object[1] = "number"
  <2>1. k = "float64"
    BY <1>3 DEF ObjectInv, Syntaxes
  <2>2. object[2] \in FloatRange
    BY <2>1, FloatHeld DEF ObjectInv
  <2>3. Decoded = <<"float64", Round[64][object[2]]>>
    BY <1>3, <2>1 DEF Decoded
  <2>4. Holds(Decoded)
    BY <2>2, <2>3, Rounding, Kinds DEF Holds, UnsignedKinds, SignedKinds
  <2> QED
    BY <1>1, <1>2, <2>4
<1>4. CASE object[1] # "number"
  <2>1. Decoded = <<k, object[2]>>
    BY <1>4 DEF Decoded
  <2>2. Holds(Decoded)
    BY <1>4, <2>1 DEF ObjectInv
  <2> QED
    BY <1>1, <1>2, <2>2
<1> QED
  BY <1>3, <1>4

LEMMA InitObject == Init => ObjectInv
<1> SUFFICES ASSUME Init PROVE ObjectInv
  OBVIOUS
<1>1. adapter \in DOMAIN Syntaxes
  BY DEF Init
<1>2. PICK s \in DOMAIN Syntaxes[adapter] : object \in {s} \X Contents(adapter, s)
  BY DEF Init, Objects
<1>3. object[1] = s /\ object[2] \in Contents(adapter, s)
  BY <1>2
<1> DEFINE k == Syntaxes[adapter][s]
<1>4. ASSUME s \notin DOMAIN Ranges
      PROVE  Holds(<<k, object[2]>>)
  <2>1. CASE k \in DOMAIN IntegerKinds
    <3>1. k \notin DOMAIN FloatKinds \cup {"string", "bytes", "bool", "nil"}
      BY <2>1, Kinds DEF UnsignedKinds, SignedKinds
    <3>2. Contents(adapter, s) = IntegerKinds[k]
      BY <1>4, <2>1, <3>1 DEF Contents
    <3> QED
      BY <1>3, <2>1, <3>2 DEF Holds
  <2>2. CASE k \in DOMAIN FloatKinds
    <3>1. k \notin DOMAIN IntegerKinds \cup {"string", "bytes", "bool", "nil"}
      BY <2>2, Kinds DEF UnsignedKinds, SignedKinds
    <3>2. Contents(adapter, s) = FloatKinds[k]
      BY <1>4, <2>2, <3>1 DEF Contents
    <3>3. FloatKinds[k] \subseteq FloatRange
      BY <2>2, FloatsInRange DEF FloatKinds
    <3> QED
      BY <1>3, <2>2, <3>1, <3>2, <3>3 DEF Holds
  <2>3. CASE k \notin DOMAIN IntegerKinds \cup DOMAIN FloatKinds
    BY <2>3 DEF Holds
  <2> QED
    BY <2>1, <2>2, <2>3
<1>5. ASSUME s \in DOMAIN Ranges
      PROVE  Holds(<<k, object[2]>>)
  <2>1. object[2] \in Ranges[s]
    BY <1>3, <1>5 DEF Contents
  <2>2. CASE s = "Integer"
    <3>1. k = "int" /\ Ranges[s] = Signed(32)
      BY <1>1, <1>2, <2>2 DEF Syntaxes, Ranges, IntegerKinds
    <3>2. object[2] \in Signed(64)
      BY <2>1, <3>1, Wider DEF Widths
    <3> QED
      BY <3>1, <3>2 DEF Holds, IntegerKinds
  <2>3. CASE s = "Gauge32"
    <3>1. k = "uint" /\ Ranges[s] = Unsigned(32)
      BY <1>1, <1>2, <2>3 DEF Syntaxes, Ranges, IntegerKinds
    <3>2. object[2] \in Unsigned(64)
      BY <2>1, <3>1, Wider DEF Widths
    <3> QED
      BY <3>1, <3>2 DEF Holds, IntegerKinds
  <2>4. CASE s = "number"
    <3>1. k = "float64" /\ Ranges[s] = -2 * Size[64] .. 2 * Size[64]
      BY <1>1, <1>2, <2>4 DEF Syntaxes, Ranges
    <3>2. Size[64] \in Nat
      BY Sizes DEF Widths
    <3>3. object[2] \in FloatRange
      BY <2>1, <3>1, <3>2 DEF FloatRange
    <3> QED
      BY <3>1, <3>3, Kinds DEF Holds, UnsignedKinds, SignedKinds
  <2> QED
    BY <1>5, <2>2, <2>3, <2>4 DEF Ranges
<1> QED
  BY <1>1, <1>2, <1>3, <1>4, <1>5 DEF ObjectInv

-----------------------------------------------------------------------------
\* What the SDK may pass for a type.
LEMMA ProperHolds ==
    ASSUME NEW type \in Types, NEW v \in Proper(type)
    PROVE  /\ v[1] = KindOf[type] /\ v = <<v[1], v[2]>> /\ Holds(v)
           /\ type = "Bool" => v[2] \in BOOLEAN
           /\ type \in {"String", "Binary"} => v[2] \in Strings
           /\ type = "Float32" => v[2] \in Floats(32)
           /\ type = "Float64" => v[2] \in Floats(64)
           /\ type # "Float64Array"
<1> DEFINE k == KindOf[type]
<1>1. v[1] = k /\ v = <<v[1], v[2]>>
  BY DEF Proper
<1>2. CASE type \in IntegerTypes
  <2>1. k \in DOMAIN IntegerKinds /\ type \notin {"Bool", "String", "Binary", "Float32", "Float64", "Float64Array"}
    BY <1>2 DEF IntegerTypes, UnsignedTypes, SignedTypes, KindOf, IntegerKinds
  <2>2. k \notin DOMAIN FloatKinds \cup {"string", "bytes", "bool"}
    BY <2>1, Kinds DEF UnsignedKinds, SignedKinds
  <2>3. Proper(type) = {k} \X IntegerKinds[k]
    BY <2>1, <2>2 DEF Proper
  <2> QED
    BY <1>1, <2>1, <2>3 DEF Holds
<1>3. CASE type = "Float32"
  <2>1. k = "float32" /\ k \notin DOMAIN IntegerKinds \cup {"string", "bytes", "bool"} /\ k \in DOMAIN FloatKinds
    BY <1>3, Kinds DEF KindOf, UnsignedKinds, SignedKinds
  <2>2. Proper(type) = {k} \X FloatKinds[k]
    BY <2>1 DEF Proper
  <2>3. v[2] \in Floats(32)
    BY <2>1, <2>2 DEF FloatKinds
  <2> QED
    BY <1>1, <1>3, <2>1, <2>3, FloatsInRange DEF Holds
<1>4. CASE type = "Float64"
  <2>1. k = "float64" /\ k \notin DOMAIN IntegerKinds \cup {"string", "bytes", "bool"} /\ k \in DOMAIN FloatKinds
    BY <1>4, Kinds DEF KindOf, UnsignedKinds, SignedKinds
  <2>2. Proper(type) = {k} \X FloatKinds[k]
    BY <2>1 DEF Proper
  <2>3. v[2] \in Floats(64)
    BY <2>1, <2>2 DEF FloatKinds
  <2> QED
    BY <1>1, <1>4, <2>1, <2>3, FloatsInRange DEF Holds
<1>5. CASE type \in {"String", "Binary", "Bool", "Float64Array"}
  <2>1. /\ k = IF type = "String" THEN "string" ELSE IF type = "Binary" THEN "bytes"
               ELSE IF type = "Bool" THEN "bool" ELSE "[]float64"
        /\ k \notin DOMAIN IntegerKinds \cup DOMAIN FloatKinds
    BY <1>5, Kinds DEF KindOf, UnsignedKinds, SignedKinds
  <2>2. v[2] \in IF k \in {"string", "bytes"} THEN Strings ELSE IF k = "bool" THEN BOOLEAN ELSE {}
    BY <2>1 DEF Proper
  <2> QED
    BY <1>1, <1>5, <2>1, <2>2 DEF Holds
<1> QED
  BY <1>2, <1>3, <1>4, <1>5 DEF Types, KindOf, IntegerTypes, UnsignedTypes, SignedTypes

\* A value that was sent, as a member of the object's type.
LEMMA SentHolds ==
    ASSUME ObjectInv, adapter # "push", NEW type \in Types, adapter = "snmp" => type # "Int64",
           NEW v \in Proper(type), NEW new \in Sent(v, type), Takes(new)
    PROVE  new[1] \in DOMAIN Syntaxes[adapter] /\ Holds(<<Syntaxes[adapter][new[1]], new[2]>>)
<1>1. v[1] = KindOf[type] /\ Holds(v) /\ type # "Float64Array"
  BY ProperHolds
<1>2. CASE adapter = "snmp"
  <2>1. new = goValueToSnmpPDU(v) /\ new[1] \in DOMAIN Syntaxes[adapter]
    BY <1>2 DEF Sent, Takes, ObjectInv
  <2>2. CASE v[1] = "int32"
    <3>1. new = <<"Integer", v[2]>> /\ Syntaxes[adapter][new[1]] = "int"
      BY <1>2, <2>1, <2>2 DEF goValueToSnmpPDU, Syntaxes
    <3>2. v[2] \in Signed(64)
      BY <1>1, <2>2, Kinds DEF Holds, SignedKinds
    <3> QED
      BY <2>1, <3>1, <3>2 DEF Holds, IntegerKinds
  <2>3. CASE v[1] = "uint32"
    <3>1. new = <<"Gauge32", v[2]>> /\ Syntaxes[adapter][new[1]] = "uint"
      BY <1>2, <2>1, <2>3 DEF goValueToSnmpPDU, Syntaxes
    <3>2. v[2] \in Unsigned(64)
      BY <1>1, <2>3, Kinds DEF Holds, UnsignedKinds
    <3> QED
      BY <2>1, <3>1, <3>2 DEF Holds, IntegerKinds
  <2>4. CASE v[1] \in {"uint64", "float32", "float64"}
    <3>1. new[2] = v[2] /\ Syntaxes[adapter][new[1]] = v[1]
      BY <1>2, <2>1, <2>4 DEF goValueToSnmpPDU, Syntaxes
    <3> QED
      BY <1>1, <2>1, <3>1 DEF Holds
  <2>5. CASE v[1] = "bool"
    <3>1. new[1] = "Integer" /\ new[2] \in {0, 1} /\ Syntaxes[adapter][new[1]] = "int"
      BY <1>2, <2>1, <2>5 DEF goValueToSnmpPDU, Syntaxes
    <3>2. {0, 1} \subseteq Signed(64)
      BY Sizes DEF Signed, Widths
    <3> QED
      BY <2>1, <3>1, <3>2 DEF Holds, IntegerKinds
  <2>6. CASE v[1] \notin {"int32", "uint32", "uint64", "float32", "float64", "bool"}
    <3>1. new[1] = "OctetString" /\ Syntaxes[adapter][new[1]] = "bytes"
      BY <1>2, <2>1, <2>6 DEF goValueToSnmpPDU, Syntaxes
    <3> QED
      BY <2>1, <3>1, Kinds DEF Holds, UnsignedKinds, SignedKinds
  <2> QED
    BY <2>2, <2>3, <2>4, <2>5, <2>6
<1>3. CASE adapter = "opcua"
  <2>1. new \in convertForWrite(v, type) /\ new[1] \in DOMAIN Syntaxes[adapter]
    BY <1>3 DEF Sent, Takes, ObjectInv
  <2>2. type \in {"Float64", "Int32"}
    BY <2>1 DEF convertForWrite
  <2>3. new[2] = v[2] /\ Syntaxes[adapter][new[1]] = v[1]
    BY <1>1, <1>3, <2>1, <2>2 DEF convertForWrite, Syntaxes, KindOf
  <2> QED
    BY <1>1, <2>1, <2>3 DEF Holds
<1>4. CASE adapter = "http"
  <2>1. new = Marshal(v)
    BY <1>4 DEF Sent
  <2>2. CASE v[1] \in DOMAIN IntegerKinds \cup DOMAIN FloatKinds
    <3>1. new = <<"number", Halves(v)>>
      BY <2>1, <2>2, Kinds DEF Marshal, UnsignedKinds, SignedKinds
    <3>2. Halves(v) \in FloatRange
      BY <1>1, <2>2, Kinds, NumberInRange
    <3>3. new[1] \in DOMAIN Syntaxes[adapter] /\ Syntaxes[adapter][new[1]] = "float64"
      BY <1>4, <3>1 DEF Syntaxes
    <3> QED
      BY <3>1, <3>2, <3>3, Kinds DEF Holds, UnsignedKinds, SignedKinds
  <2>3. CASE v[1] \in {"string", "bytes", "bool"}
    <3>1. new[1] \in {"string", "boolean"}
      BY <2>1, <2>3, Kinds DEF Marshal, UnsignedKinds, SignedKinds
    <3>2. /\ new[1] \in DOMAIN Syntaxes[adapter] 
          /\ Syntaxes[adapter][new[1]] \notin DOMAIN IntegerKinds \cup DOMAIN FloatKinds
      BY <1>4, <3>1, Kinds DEF Syntaxes, UnsignedKinds, SignedKinds
    <3> QED
      BY <3>2 DEF Holds
  <2>4. v[1] \in DOMAIN IntegerKinds \cup DOMAIN FloatKinds \cup {"string", "bytes", "bool"}
    BY <1>1, Kinds DEF Types, KindOf, UnsignedKinds, SignedKinds
  <2> QED
    BY <2>2, <2>3, <2>4
<1> QED
  BY <1>2, <1>3, <1>4, Adapters DEF ObjectInv

-----------------------------------------------------------------------------
\* What one step does to the object, the write that is stored and the answer.

LEMMA ReadStep ==
    ASSUME ReadCommand
    PROVE  /\ UNCHANGED <<adapter, object, stored>> /\ adapter # "push"
           /\ \E type \in Types, shape \in Shapes \cup {"none"} :
                 /\ IF adapter = "http" THEN shape \in Shapes ELSE shape = "none"
                 /\ reply'.op = "read" /\ reply'.type = type /\ reply'.shape = shape
                 /\ \/ CommandValues(type, Read(type, shape)) = {} /\ reply'.out = "error"
                    \/ reply'.out = "ok" /\ reply'.value \in CommandValues(type, Read(type, shape))
<1>1. PICK type \in Types, shape \in IF adapter = "http" THEN Shapes ELSE {"none"} :
        Answer("read", type, shape, CommandValues(type, Read(type, shape)))
  BY DEF ReadCommand
<1> DEFINE results == CommandValues(type, Read(type, shape))
<1>2. /\ reply'.op = "read" /\ reply'.type = type /\ reply'.shape = shape
      /\ \/ results = {} /\ reply'.out = "error"
         \/ reply'.out = "ok" /\ reply'.value \in results
  <2> HIDE DEF results
  <2> QED
    BY <1>1 DEF Answer, results
<1>3. /\ shape \in Shapes \cup {"none"}
      /\ IF adapter = "http" THEN shape \in Shapes ELSE shape = "none"
  BY <1>1
<1> QED
  BY <1>2, <1>3 DEF ReadCommand

LEMMA WriteStep ==
    ASSUME WriteCommand
    PROVE  /\ adapter' = adapter /\ adapter # "push" /\ reply'.op = "write"
           /\ \/ UNCHANGED <<object, stored>>
              \/ \E type \in Types : \E v \in Proper(type) :
                    /\ adapter = "snmp" => type # "Int64"
                    /\ object' \in Sent(v, type) /\ Takes(object')
                    /\ stored' = [type |-> type, value |-> v]
<1>1. PICK type \in Types \ (IF adapter = "snmp" THEN {"Int64"} ELSE {}) : \E v \in Proper(type) :
        LET taken == {new \in Sent(v, type) : Takes(new)} IN
        /\ IF taken = {} THEN UNCHANGED <<object, stored>>
                         ELSE object' \in taken /\ stored' = [type |-> type, value |-> v]
        /\ reply'.op = "write"
  BY DEF WriteCommand
<1>2. type \in Types /\ (adapter = "snmp" => type # "Int64")
  OBVIOUS
<1> QED
  BY <1>1, <1>2 DEF WriteCommand

LEMMA ObjectStep == ObjectInv /\ [Next]_vars => ObjectInv'
<1> SUFFICES ASSUME ObjectInv, [Next]_vars PROVE ObjectInv'
  OBVIOUS
<1>1. CASE ReadCommand \/ PushedField \/ Done \/ UNCHANGED vars
  <2>1. UNCHANGED <<adapter, object>>
    BY <1>1 DEF ReadCommand, PushedField, Done, vars
  <2> QED
    BY <2>1 DEF ObjectInv, Holds
<1>2. CASE WriteCommand
  <2>1. CASE UNCHANGED <<object, stored>>
    BY <1>2, <2>1, WriteStep DEF ObjectInv, Holds
  <2>2. CASE \E type \in Types : \E v \in Proper(type) :
               /\ adapter = "snmp" => type # "Int64"
               /\ object' \in Sent(v, type) /\ Takes(object')
    <3>1. object'[1] \in DOMAIN Syntaxes[adapter]
          /\ Holds(<<Syntaxes[adapter][object'[1]], object'[2]>>)
      BY <1>2, <2>2, WriteStep, SentHolds
    <3> QED
      BY <1>2, <3>1, WriteStep DEF ObjectInv, Holds
  <2> QED
    BY <1>2, <2>1, <2>2, WriteStep
<1> QED
  BY <1>1, <1>2 DEF Next

-----------------------------------------------------------------------------
\* A number that is read, by any adapter and in any shape.
LEMMA ReadRight ==
    ASSUME ObjectInv, adapter # "push", Numeric, NEW type \in Types, NEW shape,
           NEW w \in CommandValues(type, Read(type, shape))
    PROVE  \/ Right(Decoded, type, w)
           \/ type \notin IntegerTypes \cup {"Float32", "Float64", "Bool"}
<1>1. w \in Read(type, shape) /\ w[1] = KindOf[type]
  BY DEF CommandValues
<1>2. Holds(Decoded) /\ Decoded[1] \in UnsignedKinds \cup SignedKinds \cup {"float32", "float64"}
  BY DecodedHolds
<1>3. CASE adapter = "snmp"
  BY <1>1, <1>2, <1>3, NumberConverted DEF Read
<1>4. CASE adapter = "http"
  <2>1. PICK v \in parseJSONValue(shape) : w \in ValueToType(v, type)
    BY <1>1, <1>4 DEF Read
  <2>2. v = Decoded \/ v[1] \in {"string", "json"}
    BY <2>1 DEF parseJSONValue
  <2> QED
    BY <1>2, <2>1, <2>2, NumberConverted, NoNumber
<1>5. CASE adapter = "opcua"
  <2>1. w = Decoded
    BY <1>1, <1>5 DEF Read
  <2>2. Decoded[1] \in {"int32", "uint16", "float64"}
    <3>1. Decoded[1] \in {"int32", "uint16", "float64", "string", "bool"}
      BY <1>5, DecodedHolds DEF ObjectInv, Syntaxes
    <3> QED
      BY <1>2, <3>1 DEF UnsignedKinds, SignedKinds
  <2> QED
    BY <1>1, <1>2, <2>1, <2>2, DecodedHolds, ReadAsItIs
<1> QED
  BY <1>3, <1>4, <1>5, Adapters DEF ObjectInv

\* Only a read gives an answer to which NumbersRight applies.
LEMMA NumbersStep == ObjectInv /\ NumbersRight /\ [Next]_vars => NumbersRight'
<1> SUFFICES ASSUME ObjectInv, NumbersRight, [Next]_vars PROVE NumbersRight'
  OBVIOUS
<1>1. CASE ReadCommand
  <2> SUFFICES ASSUME Replied("read")', Numeric'
               PROVE  NumbersRight'
    BY DEF NumbersRight
  <2>1. UNCHANGED <<adapter, object>> /\ adapter # "push"
    BY <1>1, ReadStep
  <2>2. PICK type \in Types, shape \in Shapes \cup {"none"} :
          reply'.type = type /\ reply'.value \in CommandValues(type, Read(type, shape))
    BY <1>1, ReadStep DEF Replied
  <2>3. Numeric /\ Decoded' = Decoded /\ Number' = Number
    BY <2>1 DEF Numeric, Decoded, Number
  <2> DEFINE w == reply'.value
  <2>4. \/ Right(Decoded, type, w)
        \/ type \notin IntegerTypes \cup {"Float32", "Float64", "Bool"}
    BY <2>1, <2>2, <2>3, ReadRight
  <2>5. CASE Right(Decoded, type, w)
    <3>1. /\ type \in IntegerTypes /\ Truncated(Number) \in Signed(64) \cup Unsigned(64)
             /\ (Decoded[1] = "float64" /\ type \in SignedTypes
                   => Truncated(Number) \in Signed(64))
             => (w[2] - Truncated(Number)) % Size[BitsOf[type]] = 0
          /\ type \in IntegerTypes => w \in Proper(type)
          /\ type \in UnsignedTypes => Number >= 0
          /\ type \in {"Float32", "Float64"} /\ Round[BitsOf[type]][Number] = Number => w[2] = Number
          /\ type = "Bool" => (w[2] <=> Number # 0)
      BY <2>5 DEF Right, Wide, Number
    <3> QED
      BY <2>1, <2>2, <2>3, <3>1 DEF NumbersRight
  <2>6. CASE type \notin IntegerTypes \cup {"Float32", "Float64", "Bool"}
    BY <2>2, <2>6, Disjoint DEF NumbersRight
  <2> QED
    BY <2>4, <2>5, <2>6
<1>2. CASE WriteCommand \/ PushedField
  <2>1. reply'.op # "read"
    BY <1>2, WriteStep DEF PushedField, Answer
  <2> QED
    BY <2>1 DEF NumbersRight, Replied
<1>3. CASE Done
  BY <1>3 DEF Done, NumbersRight, Replied
<1>4. CASE UNCHANGED vars
  BY <1>4 DEF vars, NumbersRight, Replied, Numeric, Number, Decoded
<1> QED
  BY <1>1, <1>2, <1>3, <1>4 DEF Next

\* A number that is read, through any of the adapters and conversions, is the
\* device's (of one in JSON, the float64 nearest to it): cut to a whole one, or
\* kept modulo the type's size, or refused.
THEOREM NumbersReadRight == Spec => []NumbersRight
<1>1. Init => NumbersRight
  BY DEF Init, NumbersRight, Replied
<1> QED
  BY <1>1, InitObject, ObjectStep, NumbersStep, PTL DEF Spec

-----------------------------------------------------------------------------
\* A field the profile has no type for becomes what it is in the JSON: a float
\* or a Boolean the same, anything else its text.
LEMMA InferredField ==
    ASSUME NEW v, NEW type, type = resolveFieldType(NoType, v),
           NEW w \in FieldValues(NoType, v)
    PROVE  \/ v[1] = "float64" /\ type = "Float64" /\ w[2] = v[2]
           \/ v[1] = "bool" /\ type = "Bool" /\ w[2] = v[2]
           \/ v[1] \notin {"float64", "bool"} /\ type = "String" /\ w[2] = Text(v)
<1>1. type = InferredType(v)
  BY DEF resolveFieldType
<1>2. w = <<KindOf[type], IF v[1] \in {"float64", "bool"} THEN v[2] ELSE Text(v)>>
  BY <1>1 DEF FieldValues
<1>3. w[2] = IF v[1] \in {"float64", "bool"} THEN v[2] ELSE Text(v)
  BY <1>2
<1> QED
  BY <1>1, <1>3 DEF InferredType

\* One whose type is declared is converted to the kinds of a few types; of the
\* others it is refused unless it has their kind already.
LEMMA DeclaredField ==
    ASSUME NEW v, NEW type \in Types,
           NEW w \in CommandValues(type, convertValue(v, type))
    PROVE  \/ /\ type = "Int32" /\ v[1] = "float64"
              /\ w[2] \in FromFloat(v[2], IntegerKinds.int32)
           \/ type = "String" /\ w[2] = Text(v)
           \/ type = "Bool" /\ v[1] = "float64" /\ w[2] = (v[2] # 0)
           \/ /\ type = "Bool" /\ v[1] = "string"
              /\ w[2] = (v[2] \in {<<"text", "true">>, <<"number", 2>>})
           \/ type # "String" /\ v[1] = KindOf[type] /\ w[2] = v[2]
<1> DEFINE converted == {"Int32", "Int16", "Uint16", "Uint32", "Uint64"}
           whole == FromFloat(v[2], IntegerKinds.int32)
<1>1. w \in convertValue(v, type) /\ w[1] = KindOf[type]
  BY DEF CommandValues
<1>2. CASE type \in converted /\ v[1] = "float64"
  <2>1. w \in {<<"int32", n>> : n \in whole}
    BY <1>1, <1>2 DEF convertValue
  <2>2. PICK n \in whole : w = <<"int32", n>>
    BY <2>1
  <2>3. type = "Int32"
    BY <1>1, <1>2, <2>2 DEF KindOf
  <2> QED
    BY <1>2, <2>2, <2>3
<1>3. CASE type = "String"
  BY <1>1, <1>3 DEF convertValue
<1>4. CASE type = "Bool" /\ v[1] = "float64"
  BY <1>1, <1>4 DEF convertValue
<1>5. CASE type = "Bool" /\ v[1] = "string"
  BY <1>1, <1>5 DEF convertValue
<1>6. CASE /\ ~(type \in converted /\ v[1] = "float64")
           /\ type # "String" /\ ~(type = "Bool" /\ v[1] \in {"float64", "string"})
  <2>1. w = v
    BY <1>1, <1>6 DEF convertValue
  <2> QED
    BY <1>1, <1>6, <2>1
<1> QED
  BY <1>2, <1>3, <1>4, <1>5, <1>6

\* The answer to the push of a field that holds v: what PushedRight says of it.
LEMMA FieldPushed ==
    ASSUME NEW v, v[1] \in JSONKinds, NEW declared \in Types \cup {NoType},
           NEW type, type = resolveFieldType(declared, v),
           NEW w \in CommandValues(type, FieldValues(declared, v))
    PROVE  /\ type \in {"Float64", "Float32"} => w[2] = v[2]
           /\ type \in IntegerTypes /\ Truncated(v[2]) \in IntegerKinds.int32
                 => w[2] = Truncated(v[2])
           /\ type = "String" => w[2] = Text(v)
           /\ type = "Bool" /\ v[1] = "bool" => w[2] = v[2]
           /\ type = "Bool" /\ v[1] = "float64" => w[2] = (v[2] # 0)
           /\ type = "Bool" /\ v[1] \notin {"bool", "float64"}
                 => w[2] = (v[2] \in {<<"text", "true">>, <<"number", 2>>})
<1>1. CASE declared = NoType
  <2>1. w \in FieldValues(NoType, v)
    BY <1>1 DEF CommandValues
  <2> QED
    BY <1>1, <2>1, InferredField DEF IntegerTypes, UnsignedTypes, SignedTypes
<1>2. CASE declared # NoType
  <2>1. type = declared /\ type \in Types
    BY <1>2 DEF resolveFieldType
  <2>2. w \in CommandValues(type, convertValue(v, type))
    BY <1>2, <2>1 DEF FieldValues
  <2>3. CASE /\ type = "Int32" /\ v[1] = "float64"
             /\ w[2] \in FromFloat(v[2], IntegerKinds.int32)
    BY <2>3 DEF FromFloat
  <2>4. CASE type = "String" /\ w[2] = Text(v)
    BY <2>4 DEF IntegerTypes, UnsignedTypes, SignedTypes
  <2>5. CASE type = "Bool" /\ v[1] = "float64" /\ w[2] = (v[2] # 0)
    BY <2>5 DEF IntegerTypes, UnsignedTypes, SignedTypes
  <2>6. CASE /\ type = "Bool" /\ v[1] = "string"
             /\ w[2] = (v[2] \in {<<"text", "true">>, <<"number", 2>>})
    BY <2>6 DEF IntegerTypes, UnsignedTypes, SignedTypes
  <2>7. CASE type # "String" /\ v[1] = KindOf[type] /\ w[2] = v[2]
    <3>1. type \notin IntegerTypes
      BY <2>7 DEF JSONKinds, KindOf, IntegerTypes, UnsignedTypes, SignedTypes
    <3>2. type = "Bool" => v[1] = "bool"
      BY <2>7 DEF KindOf
    <3> QED
      BY <2>7, <3>1, <3>2
  <2> QED
    BY <2>1, <2>2, <2>3, <2>4, <2>5, <2>6, <2>7, DeclaredField
<1> QED
  BY <1>1, <1>2

LEMMA InitPush == Init => PushInv
<1> SUFFICES ASSUME Init
             PROVE  PushInv
  OBVIOUS
<1>1. ~Replied("push")
  BY DEF Init, Replied
<1>2. adapter = "push" => Decoded[1] \in JSONKinds
  <2> SUFFICES ASSUME adapter = "push"
               PROVE  Decoded[1] \in JSONKinds
    OBVIOUS
  <2>1. object[1] \in {"number", "string", "boolean", "null"}
    BY DEF Init, Objects, Syntaxes
  <2> QED
    BY <2>1 DEF Decoded, Syntaxes, JSONKinds
<1> QED
  BY <1>1, <1>2 DEF PushInv, PushedRight

LEMMA PushedFieldKeeps ==
    ASSUME PushInv, PushedField
    PROVE  PushInv'
<1>1. adapter = "push" /\ UNCHANGED <<adapter, object>> /\ Decoded' = Decoded
  BY DEF PushedField, Decoded
<1>2. PICK declared \in Types \cup {NoType} :
        LET type == resolveFieldType(declared, Decoded) IN
        Answer("push", type, "none", CommandValues(type, FieldValues(declared, Decoded)))
  BY DEF PushedField
<1> DEFINE v == Decoded
           type == resolveFieldType(declared, v)
           results == CommandValues(type, FieldValues(declared, v))
<1>3. PushedRight'
  <2>1. CASE reply'.out = "error"
    BY <2>1 DEF PushedRight, Replied
  <2>2. ASSUME NEW w \in results,
               reply' = [op |-> "push", type |-> type, shape |-> "none", out |-> "ok", value |-> w]
        PROVE  PushedRight'
    <3> DEFINE truth == CASE v[1] = "bool" -> v[2]
                          [] v[1] = "float64" -> v[2] # 0
                          [] OTHER -> v[2] \in {<<"text", "true">>, <<"number", 2>>}
    <3>1. reply'.type = type /\ reply'.value = w
      BY <2>2
    <3>2. v[1] \in JSONKinds
      BY <1>1 DEF PushInv
    <3>3. /\ type \in {"Float64", "Float32"} => w[2] = v[2]
          /\ type \in IntegerTypes /\ Truncated(v[2]) \in IntegerKinds.int32
                => w[2] = Truncated(v[2])
          /\ type = "String" => w[2] = Text(v)
          /\ type = "Bool" /\ v[1] = "bool" => w[2] = v[2]
          /\ type = "Bool" /\ v[1] = "float64" => w[2] = (v[2] # 0)
          /\ type = "Bool" /\ v[1] \notin {"bool", "float64"}
                => w[2] = (v[2] \in {<<"text", "true">>, <<"number", 2>>})
      BY <3>2, FieldPushed
    <3> HIDE DEF type, v
    <3>4. type = "Bool" => (w[2] <=> truth)
      <4>1. CASE v[1] = "bool"
        BY <3>3, <4>1, Zenon
      <4>2. CASE v[1] = "float64"
        BY <3>3, <4>2, Zenon
      <4>3. CASE v[1] \notin {"bool", "float64"}
        <5> DEFINE bool == v[2] \in {<<"text", "true">>, <<"number", 2>>}
        <5>1. type = "Bool" => w[2] = bool
          BY <3>3, <4>3
        <5>2. truth <=> bool
          BY <4>3, Zenon
        <5> HIDE DEF bool, truth
        <5> QED
          BY <5>1, <5>2
      <4> QED
        BY <4>1, <4>2, <4>3
    <3> USE DEF type, v
    <3> QED
      BY <1>1, <3>1, <3>3, <3>4, Zenon DEF PushedRight
  <2> QED
    BY <1>2, <2>1, <2>2 DEF Answer
<1> QED
  BY <1>1, <1>3 DEF PushInv

LEMMA PushStep == PushInv /\ [Next]_vars => PushInv'
<1> SUFFICES ASSUME PushInv, [Next]_vars
             PROVE  PushInv'
  OBVIOUS
<1>1. CASE ReadCommand
  <2>1. adapter # "push" /\ adapter' = adapter /\ reply'.op = "read"
    BY <1>1 DEF ReadCommand, Answer
  <2> QED
    BY <2>1 DEF PushInv, PushedRight, Replied
<1>2. CASE WriteCommand
  <2>1. adapter # "push" /\ adapter' = adapter /\ reply'.op = "write"
    BY <1>2 DEF WriteCommand
  <2> QED
    BY <2>1 DEF PushInv, PushedRight, Replied
<1>3. CASE PushedField
  BY <1>3, PushedFieldKeeps
<1>4. CASE Done
  <2>1. adapter' = adapter /\ Decoded' = Decoded /\ ~Replied("push")'
    BY <1>4 DEF Done, Decoded, Replied
  <2> QED
    BY <2>1 DEF PushInv, PushedRight
<1>5. CASE UNCHANGED vars
  BY <1>5 DEF vars, PushInv, PushedRight, Replied, Decoded
<1> QED
  BY <1>1, <1>2, <1>3, <1>4, <1>5 DEF Next

\* A pushed field that becomes a value has lost at most a fraction, whatever the
\* sizes of integers, the rounding of floats and the texts.
THEOREM PushedFieldsRight == Spec => []PushedRight
<1>1. PushInv => PushedRight
  BY DEF PushInv
<1> QED
  BY <1>1, InitPush, PushStep, PTL DEF Spec

-----------------------------------------------------------------------------
LEMMA StoredStep == StoredInv /\ [Next]_vars => StoredInv'
<1> SUFFICES ASSUME StoredInv, [Next]_vars PROVE StoredInv'
  OBVIOUS
<1>1. CASE UNCHANGED <<adapter, object, stored>>
  BY <1>1 DEF StoredInv, Sent
<1>2. CASE WriteCommand /\ ~UNCHANGED <<object, stored>>
  <2>1. PICK type \in Types : \E v \in Proper(type) :
          /\ adapter = "snmp" => type # "Int64"
          /\ object' \in Sent(v, type) /\ stored' = [type |-> type, value |-> v]
    BY <1>2, WriteStep
  <2>2. PICK v \in Proper(type) :
          /\ adapter = "snmp" => type # "Int64"
          /\ object' \in Sent(v, type) /\ stored' = [type |-> type, value |-> v]
    BY <2>1
  <2>3. adapter' = adapter /\ adapter # "push" /\ stored'.type = type /\ stored'.value = v
    BY <1>2, <2>2, WriteStep
  <2> QED
    BY <2>2, <2>3 DEF StoredInv, Sent
<1> QED
  BY <1>1, <1>2, WriteStep DEF Next, vars, ReadCommand, PushedField, Done

\* A read has an answer, and that is v unless JSON has rounded it.
Recovers(results, type, v) ==
    /\ CommandValues(type, results) # {}
    /\ Exact => \A w \in CommandValues(type, results) : w = v

LEMMA UnsignedRecovers ==
    ASSUME NEW type \in UnsignedTypes, NEW v \in Proper(type), NEW d, ToUint64(d) # {},
           Exact => \A n \in ToUint64(d) : n = v[2]
    PROVE  Recovers(ValueToType(d, type), type, v)
<1> DEFINE k == KindOf[type]
           m == Size[BitsOf[type]]
<1>1. ValueToType(d, type) = {<<k, r>> : r \in {n % m : n \in ToUint64(d)}}
  BY Disjoint DEF ValueToType
<1>2. v = <<k, v[2]>> /\ v[2] % m = v[2]
  <2>1. v = <<k, v[2]>> /\ v[2] \in Unsigned(BitsOf[type])
    BY ProperIntegers
  <2>2. v[2] \in Int
    BY <2>1, Sizes, Disjoint DEF Unsigned
  <2> QED
    BY <2>1, <2>2, Cast, Disjoint
<1> HIDE DEF k, m
<1>3. CommandValues(type, ValueToType(d, type)) = {<<k, n % m>> : n \in ToUint64(d)}
  BY <1>1 DEF CommandValues, k
<1> QED
  BY <1>2, <1>3 DEF Recovers

LEMMA SignedRecovers ==
    ASSUME NEW type \in SignedTypes, NEW v \in Proper(type), NEW d, ToInt64(d) # {},
           Exact => \A n \in ToInt64(d) : n = v[2]
    PROVE  Recovers(ValueToType(d, type), type, v)
<1> DEFINE k == KindOf[type]
           b == BitsOf[type]
<1>1. ValueToType(d, type) = {<<k, r>> : r \in {WrapSigned(b, n) : n \in ToInt64(d)}}
  BY Disjoint DEF ValueToType
<1>2. v = <<k, v[2]>> /\ WrapSigned(b, v[2]) = v[2]
  <2>1. v = <<k, v[2]>> /\ v[2] \in Signed(b)
    BY ProperIntegers
  <2>2. v[2] \in Int
    BY <2>1, Sizes, Disjoint DEF Signed
  <2> QED
    BY <2>1, <2>2, Wrapped, Disjoint
<1> HIDE DEF k, b
<1>3. CommandValues(type, ValueToType(d, type)) = {<<k, WrapSigned(b, n)>> : n \in ToInt64(d)}
  BY <1>1 DEF CommandValues, k
<1> QED
  BY <1>2, <1>3 DEF Recovers

\* A float that is read is rounded to a float64 and then to the type.
LEMMA FloatRecovers ==
    ASSUME NEW type \in {"Float32", "Float64"}, NEW v \in Proper(type), NEW d,
           d[1] \in {"float32", "float64"}, Exact => Round[64][d[2]] = v[2]
    PROVE  Recovers(ValueToType(d, type), type, v)
<1> DEFINE k == KindOf[type]
           b == BitsOf[type]
           f == Round[64][d[2]]
<1>1. ValueToType(d, type) = {<<k, Round[b][f]>>}
  <2>1. ToFloat64(d) = {f}
    <3>1. Halves(d) = d[2]
      BY Kinds DEF Halves, UnsignedKinds, SignedKinds
    <3> QED
      BY <3>1 DEF ToFloat64
  <2>2. ValueToType(d, type) = {<<k, r>> : r \in {Round[b][g] : g \in ToFloat64(d)}}
    BY DEF ValueToType, UnsignedTypes, SignedTypes
  <2> QED
    BY <2>1, <2>2
<1>2. v = <<k, v[2]>> /\ Round[b][v[2]] = v[2]
  BY ProperHolds, FloatsInRange DEF Types, KindOf, BitsOf
<1> HIDE DEF k, b, f
<1>3. CommandValues(type, ValueToType(d, type)) = {<<k, Round[b][f]>>}
  BY <1>1 DEF CommandValues, k
<1> QED
  BY <1>2, <1>3 DEF Recovers, f

LEMMA StringRecovers ==
    ASSUME NEW v \in Proper("String"), NEW d, d[1] \in {"string", "bytes"}, d[2] = v[2]
    PROVE  Recovers(ValueToType(d, "String"), "String", v)
<1>1. v = <<"string", v[2]>>
  BY ProperHolds DEF Types, KindOf
<1>2. Text(d) = v[2]
  BY Kinds DEF Text, UnsignedKinds, SignedKinds
<1>3. ValueToType(d, "String") = {<<"string", Text(d)>>}
  BY DEF ValueToType, UnsignedTypes, SignedTypes, KindOf
<1> QED
  BY <1>1, <1>2, <1>3 DEF Recovers, CommandValues, KindOf

LEMMA BinaryRecovers ==
    ASSUME NEW v \in Proper("Binary"), NEW d, d[1] = "bytes", d[2] = v[2]
    PROVE  Recovers(ValueToType(d, "Binary"), "Binary", v)
<1>1. v = <<"bytes", v[2]>>
  BY ProperHolds DEF Types, KindOf
<1>2. ValueToType(d, "Binary") = {<<"bytes", d[2]>>}
  BY DEF ValueToType, UnsignedTypes, SignedTypes, KindOf, ToBinary
<1> QED
  BY <1>1, <1>2 DEF Recovers, CommandValues, KindOf

LEMMA BoolRecovers ==
    ASSUME NEW v \in Proper("Bool"), NEW d,
           d = <<"bool", v[2]>> \/ d = <<"int", IF v[2] THEN 1 ELSE 0>>
    PROVE  Recovers(ValueToType(d, "Bool"), "Bool", v)
<1>1. v = <<"bool", v[2]>> /\ v[2] \in BOOLEAN
  BY ProperHolds DEF Types, KindOf
<1>2. ToBool(d) = {v[2]}
  <2>1. CASE d = <<"bool", v[2]>>
    BY <2>1 DEF ToBool
  <2>2. CASE d = <<"int", IF v[2] THEN 1 ELSE 0>> /\ v[2] = TRUE
    <3>1. d = <<"int", 1>>
      BY <2>2
    <3>2. ToBool(d) = {TRUE}
      <4>1. ToBool(d) = {d[2] # 0}
        BY <3>1 DEF ToBool
      <4>2. (d[2] # 0) = TRUE
        BY <3>1
      <4> QED
        BY <4>1, <4>2, Zenon
    <3> QED
      BY <2>2, <3>2
  <2>3. CASE d = <<"int", IF v[2] THEN 1 ELSE 0>> /\ v[2] = FALSE
    <3>1. d = <<"int", 0>>
      BY <2>3
    <3>2. ToBool(d) = {FALSE}
      <4>1. ToBool(d) = {d[2] # 0}
        BY <3>1 DEF ToBool
      <4>2. (d[2] # 0) = FALSE
        BY <3>1
      <4> QED
        BY <4>1, <4>2, Zenon
    <3> QED
      BY <2>3, <3>2
  <2> QED
    BY <1>1, <2>1, <2>2, <2>3
<1>3. ValueToType(d, "Bool") = {<<"bool", r>> : r \in ToBool(d)}
  BY DEF ValueToType, UnsignedTypes, SignedTypes, KindOf
<1>4. ValueToType(d, "Bool") = {v}
  BY <1>1, <1>2, <1>3
<1> QED
  BY <1>1, <1>4 DEF Recovers, CommandValues, KindOf

\* An SNMP agent reports what it was sent in the type it was sent in.
LEMMA SNMPRecovers ==
    ASSUME ObjectInv, StoredInv, stored # Nothing, adapter = "snmp", stored.type \notin Lost, NEW shape
    PROVE  Recovers(Read(stored.type, shape), stored.type, stored.value)
<1> DEFINE type == stored.type
           v == stored.value
           d == Decoded
<1>1. /\ type \in Types /\ v \in Proper(type) /\ v[1] = KindOf[type] /\ v = <<v[1], v[2]>>
      /\ type \in {"Int32", "Uint32", "Uint64", "Float32", "Float64", "Bool", "String", "Binary"}
  <2>1. type \in Types /\ type # "Int64" /\ v \in Proper(type)
    BY DEF StoredInv
  <2>2. v[1] = KindOf[type] /\ v = <<v[1], v[2]>> /\ type # "Float64Array"
    BY <2>1, ProperHolds
  <2>3. type \notin {"Uint8", "Uint16", "Int8", "Int16"}
    BY DEF Lost
  <2> QED
    BY <2>1, <2>2, <2>3 DEF Types, KindOf
<1>2. Read(type, shape) = ValueToType(d, type)
  BY DEF Read
<1>3. object = goValueToSnmpPDU(v) /\ object[1] \in DOMAIN Syntaxes.snmp
  BY DEF StoredInv, Sent, ObjectInv
<1>4. d = <<Syntaxes.snmp[object[1]], object[2]>>
  <2>1. object[1] # "number"
    BY <1>3 DEF Syntaxes
  <2> QED
    BY <2>1 DEF Decoded
<1> HIDE DEF type, v, d
<1>5. CASE type \in {"Uint32", "Uint64"}
  <2>1. d[1] \in {"uint", "uint64"} /\ d[2] = v[2]
    BY <1>1, <1>3, <1>4, <1>5 DEF goValueToSnmpPDU, Syntaxes, KindOf
  <2>2. ToUint64(d) = {v[2]}
    BY <2>1 DEF ToUint64
  <2> QED
    BY <1>1, <1>2, <1>5, <2>2, UnsignedRecovers DEF UnsignedTypes, type, v
<1>6. CASE type = "Int32"
  <2>1. d[1] = "int" /\ d[2] = v[2]
    BY <1>1, <1>3, <1>4, <1>6 DEF goValueToSnmpPDU, Syntaxes, KindOf
  <2>2. ToInt64(d) = {v[2]}
    BY <2>1 DEF ToInt64
  <2> QED
    BY <1>1, <1>2, <1>6, <2>2, SignedRecovers DEF SignedTypes, type, v
<1>7. CASE type \in {"Float32", "Float64"}
  <2>1. d = v /\ d[1] \in {"float32", "float64"}
    BY <1>1, <1>3, <1>4, <1>7 DEF goValueToSnmpPDU, Syntaxes, KindOf
  <2>2. Round[64][v[2]] = v[2]
    BY <1>1, <1>7, ProperHolds, FloatsInRange
  <2> QED
    BY <1>1, <1>2, <1>7, <2>1, <2>2, FloatRecovers DEF type, v
<1>8. CASE type = "Bool"
  <2>1. d = <<"int", IF v[2] THEN 1 ELSE 0>>
    <3>1. v[1] = "bool"
      BY <1>1, <1>8 DEF KindOf
    <3>2. object = <<"Integer", IF v[2] THEN 1 ELSE 0>>
      BY <1>3, <3>1, Zenon DEF goValueToSnmpPDU
    <3>3. object[1] = "Integer" /\ object[2] = IF v[2] THEN 1 ELSE 0
      BY <3>2
    <3>4. Syntaxes.snmp["Integer"] = "int"
      BY DEF Syntaxes
    <3> QED
      BY <1>4, <3>3, <3>4
  <2> QED
    BY <1>1, <1>2, <1>8, <2>1, BoolRecovers DEF type, v
<1>9. CASE type \in {"String", "Binary"}
  <2>1. d[1] = "bytes" /\ d[2] = v[2]
    <3>1. Text(v) = v[2] /\ v[1] \in {"string", "bytes"}
      BY <1>1, <1>9, Kinds DEF Text, KindOf, UnsignedKinds, SignedKinds
    <3>2. object = <<"OctetString", v[2]>>
      BY <1>3, <3>1 DEF goValueToSnmpPDU
    <3>3. Syntaxes.snmp["OctetString"] = "bytes"
      BY DEF Syntaxes
    <3> QED
      BY <1>4, <3>2, <3>3
  <2> QED
    BY <1>1, <1>2, <1>9, <2>1, StringRecovers, BinaryRecovers DEF type, v
<1> QED
  BY <1>1, <1>5, <1>6, <1>7, <1>8, <1>9 DEF type, v

\* A node of an OPC UA server has the type of the value it took.
LEMMA OPCUARecovers ==
    ASSUME ObjectInv, StoredInv, stored # Nothing, adapter = "opcua", NEW shape
    PROVE  Recovers(Read(stored.type, shape), stored.type, stored.value)
<1> DEFINE type == stored.type
           v == stored.value
<1>1. type \in Types /\ v \in Proper(type) /\ object \in convertForWrite(v, type)
  BY DEF StoredInv, Sent
<1>2. v[1] = KindOf[type] /\ v = <<v[1], v[2]>>
  BY <1>1, ProperHolds
<1> HIDE DEF type, v
<1>3. type \in {"Float64", "Int32"}
  BY <1>1 DEF convertForWrite
<1>4. object[1] # "number" /\ object[2] = v[2] /\ Syntaxes.opcua[object[1]] = v[1]
  BY <1>1, <1>2, <1>3 DEF convertForWrite, Syntaxes, KindOf
<1>5. Decoded = v
  BY <1>2, <1>4 DEF Decoded
<1>6. Read(type, shape) = {v}
  BY <1>5 DEF Read
<1> QED
  BY <1>2, <1>6 DEF Recovers, CommandValues, type, v

\* An HTTP server returns the JSON it was sent; a number in it goes through a
\* float64.
LEMMA HTTPRecovers ==
    ASSUME ObjectInv, StoredInv, stored # Nothing, adapter = "http", stored.type \notin Lost,
           NEW shape \in {"named", "single"}
    PROVE  Recovers(Read(stored.type, shape), stored.type, stored.value)
<1> DEFINE type == stored.type
           v == stored.value
           d == Decoded
           f == Round[64][object[2]]
<1>1. /\ type \in Types /\ v \in Proper(type) /\ v[1] = KindOf[type] /\ v = <<v[1], v[2]>>
      /\ Holds(v) /\ type # "Float64Array" /\ type # "Binary"
  <2>1. type \in Types /\ v \in Proper(type)
    BY DEF StoredInv
  <2>2. type # "Binary"
    BY DEF Lost
  <2> QED
    BY <2>1, <2>2, ProperHolds
<1>2. Read(type, shape) = ValueToType(d, type)
  BY DEF Read, parseJSONValue
<1>3. object = Marshal(v) /\ d = <<Syntaxes.http[object[1]], IF object[1] = "number" THEN f ELSE object[2]>>
  BY DEF StoredInv, Sent, Decoded
<1> HIDE DEF type, v, d, f
<1>5. CASE type \in IntegerTypes \cup {"Float32", "Float64"}
  <2>1. v[1] \in DOMAIN IntegerKinds \cup DOMAIN FloatKinds
    BY <1>1, <1>5, Kinds DEF IntegerTypes, UnsignedTypes, SignedTypes, KindOf, UnsignedKinds, SignedKinds
  <2>2. object = <<"number", Halves(v)>>
    BY <1>3, <2>1, Kinds DEF Marshal, UnsignedKinds, SignedKinds
  <2>3. d = <<"float64", f>>
    BY <1>3, <2>2 DEF Syntaxes
  <2>4. Exact => f = Halves(v)
    BY <2>2 DEF Exact, f
  <2>5. Halves(v) \in FloatRange
    BY <2>2, <2>3, FloatHeld DEF ObjectInv, Syntaxes
  <2>6. f \in Int /\ (Halves(v) >= 0 => f >= 0)
    BY <2>2, <2>5, Rounding, Sizes DEF f, FloatRange, Widths
  <2>7. CASE type \in UnsignedTypes
    <3>1. v[2] \in Unsigned(64) /\ v[2] \in Int /\ v[2] >= 0 /\ Halves(v) = 2 * v[2]
      <4>1. v[1] \in UnsignedKinds
        BY <1>1, <2>7 DEF UnsignedTypes, KindOf, UnsignedKinds
      <4> QED
        BY <1>1, <4>1, IntegerHeld, Kinds DEF Holds
    <3>2. ToUint64(d) = FromFloat(f, Unsigned(64))
      <4>1. ~(f < 0)
        BY <2>6, <3>1
      <4> QED
        BY <2>3, <4>1 DEF ToUint64, IntegerKinds
    <3>3. ToUint64(d) # {}
      BY <3>1, <3>2 DEF FromFloat
    <3>4. Exact => ToUint64(d) = {v[2]}
      <4>1. Exact => Truncated(f) = v[2]
        BY <2>4, <3>1, Whole
      <4> QED
        BY <3>1, <3>2, <4>1 DEF FromFloat
    <3> QED
      BY <1>1, <1>2, <2>7, <3>3, <3>4, UnsignedRecovers DEF type, v
  <2>8. CASE type \in SignedTypes
    <3>1. v[2] \in Signed(64) /\ v[2] \in Int /\ Halves(v) = 2 * v[2]
      <4>1. v[1] \in SignedKinds
        BY <1>1, <2>8 DEF SignedTypes, KindOf, SignedKinds
      <4> QED
        BY <1>1, <4>1, IntegerHeld, Kinds DEF Holds
    <3>2. ToInt64(d) = FromFloat(f, Signed(64))
      BY <2>3 DEF ToInt64, IntegerKinds
    <3>3. ToInt64(d) # {}
      BY <3>1, <3>2 DEF FromFloat
    <3>4. Exact => ToInt64(d) = {v[2]}
      <4>1. Exact => Truncated(f) = v[2]
        BY <2>4, <3>1, Whole
      <4> QED
        BY <3>1, <3>2, <4>1 DEF FromFloat
    <3> QED
      BY <1>1, <1>2, <2>8, <3>3, <3>4, SignedRecovers DEF type, v
  <2>9. CASE type \in {"Float32", "Float64"}
    <3>1. Halves(v) = v[2] /\ v[2] \in FloatRange
      BY <1>1, <2>9, FloatHeld DEF KindOf
    <3>2. Exact => Round[64][d[2]] = v[2]
      <4>1. object[2] \in FloatRange /\ d[2] = f
        BY <2>2, <2>3, <2>5
      <4>2. Round[64][f] = f
        BY <4>1, Rounding DEF f
      <4> QED
        BY <2>4, <3>1, <4>1, <4>2
    <3> QED
      BY <1>1, <1>2, <2>3, <2>9, <3>2, FloatRecovers DEF type, v
  <2> QED
    BY <1>5, <2>7, <2>8, <2>9, Disjoint
<1>6. CASE type = "String"
  <2>1. object = <<"string", v[2]>>
    BY <1>1, <1>3, <1>6, Kinds DEF Marshal, KindOf, UnsignedKinds, SignedKinds
  <2>2. d[1] = "string" /\ d[2] = v[2]
    BY <1>3, <2>1 DEF Syntaxes
  <2> QED
    BY <1>1, <1>2, <1>6, <2>2, StringRecovers DEF type, v
<1>7. CASE type = "Bool"
  <2>1. object = <<"boolean", v[2]>>
    BY <1>1, <1>3, <1>7, Kinds DEF Marshal, KindOf, UnsignedKinds, SignedKinds
  <2>2. d = <<"bool", v[2]>>
    BY <1>3, <2>1 DEF Syntaxes
  <2> QED
    BY <1>1, <1>2, <1>7, <2>2, BoolRecovers DEF type, v
<1>8. type \in IntegerTypes \cup {"Float32", "Float64", "String", "Bool"}
  BY <1>1 DEF Types, KindOf, IntegerTypes, UnsignedTypes, SignedTypes
<1> QED
  BY <1>5, <1>6, <1>7, <1>8 DEF type, v

\* A read after a write, by the adapter that is in use.
LEMMA WritesStep == ObjectInv /\ StoredInv /\ WritesReadBack /\ [Next]_vars => WritesReadBack'
<1> SUFFICES ASSUME ObjectInv, StoredInv, WritesReadBack, [Next]_vars PROVE WritesReadBack'
  OBVIOUS
<1>1. CASE ReadCommand
  <2>1. PICK type \in Types, shape \in Shapes \cup {"none"} :
          /\ IF adapter = "http" THEN shape \in Shapes ELSE shape = "none"
          /\ reply'.type = type /\ reply'.shape = shape
          /\ \/ CommandValues(type, Read(type, shape)) = {} /\ reply'.out = "error"
             \/ reply'.out = "ok" /\ reply'.value \in CommandValues(type, Read(type, shape))
    BY <1>1, ReadStep
  <2>2. UNCHANGED <<adapter, object, stored>>
    BY <1>1, ReadStep
  <2> SUFFICES ASSUME stored # Nothing, type = stored.type, stored.type \notin Lost,
                      shape \in {"none", "named", "single"}
               PROVE  reply'.out = "ok" /\ (Exact => reply'.value = stored.value)
    BY <2>1, <2>2 DEF WritesReadBack, Lost, Exact
  <2>3. Recovers(Read(type, shape), type, stored.value)
    <3>1. adapter \in {"snmp", "opcua", "http"}
      BY Adapters DEF ObjectInv, StoredInv
    <3>2. adapter = "http" => shape \in {"named", "single"}
      BY <2>1 DEF Shapes
    <3> QED
      BY <3>1, <3>2, SNMPRecovers, OPCUARecovers, HTTPRecovers
  <2> QED
    BY <2>1, <2>3 DEF Recovers
<1>2. CASE WriteCommand \/ PushedField
  <2>1. reply'.op # "read"
    BY <1>2, WriteStep DEF PushedField, Answer
  <2> QED
    BY <2>1 DEF WritesReadBack
<1>3. CASE Done
  BY <1>3 DEF Done, WritesReadBack
<1>4. CASE UNCHANGED vars
  BY <1>4 DEF vars, WritesReadBack, Lost, Exact
<1> QED
  BY <1>1, <1>2, <1>3, <1>4 DEF Next

\* A value that a device has taken in one of the types that survive reads back as
\* what was written, whichever adapter wrote it.
THEOREM WritesAreReadBack == Spec => []WritesReadBack
<1>1. Init => StoredInv /\ WritesReadBack
  BY DEF Init, StoredInv, WritesReadBack
<1> QED
  BY <1>1, InitObject, ObjectStep, StoredStep, WritesStep, PTL DEF Spec

=============================================================================

------------------------------- MODULE Values -------------------------------
(***************************************************************************)
(* The type of a value on its way between a device and the SDK:            *)
(*   pkg/conv/reflect.go       ValueToType, for values read by SNMP and    *)
(*                             HTTP                                        *)
(*   pkg/adapter/*             what each adapter makes of a value it reads *)
(*                             or writes                                   *)
(*   internal/driver/drive.go  convertValue, for values devices push       *)
(* (Those of Modbus are in Registers.)                                     *)
(*                                                                         *)
(* A Go value is a pair of its kind and what it is.  A float is counted in *)
(* halves, so that it may have a fraction; a text is the text of a number, *)
(* of a Boolean, of nothing, or one that is none of these.                 *)
(* How many integers there are of each width, and how floats round, are    *)
(* parameters.                                                             *)
(***************************************************************************)
EXTENDS Integers

CONSTANTS
    Size,     \* how many integers there are of 8, 16, 32 and 64 bits
    Round,    \* the float of 32 or 64 bits nearest to a number of halves
    Texts     \* what texts say that are no number

\* Floats lie within the 64-bit integers and well beyond them.
FloatRange == -4 * Size[64] .. 4 * Size[64]

\* Sizes are even and divide the larger ones.  A float is its own nearest float,
\* one of 32 bits is one of 64 bits too, and rounding leaves the sign alone.
ASSUME ValuesAssumption ==
    /\ Size \in [{8, 16, 32, 64} -> Nat \ {0}]
    /\ \A a \in {8, 16, 32, 64} : Size[a] > 2 /\ Size[a] % 2 = 0
    /\ \A a, b \in {8, 16, 32, 64} : a <= b => Size[b] % Size[a] = 0
    /\ Round \in [{32, 64} -> [FloatRange -> FloatRange]]
    /\ \A p \in {32, 64}, h \in FloatRange :
          /\ Round[p][Round[p][h]] = Round[p][h]
          /\ Round[64][Round[32][h]] = Round[32][h]
          /\ h >= 0 => Round[p][h] >= 0

VARIABLES
    adapter,   \* "snmp", "opcua" or "http", or "push" for a device that pushes
    object,    \* what the device holds: its type there, and the value
    stored,    \* the write the device has last carried out
    reply      \* the command that has been carried out and what came of it

vars == <<adapter, object, stored, reply>>

-----------------------------------------------------------------------------
\* Arithmetic on integers of some bits.
Unsigned(bits) == 0 .. Size[bits] - 1
Signed(bits) == -(Size[bits] \div 2) .. Size[bits] \div 2 - 1
WrapSigned(bits, n) == ((n + Size[bits] \div 2) % Size[bits]) - Size[bits] \div 2

Truncated(h) == IF h < 0 THEN -((-h) \div 2) ELSE h \div 2

Floats(bits) == {Round[bits][h] : h \in FloatRange}

\* What a Go value of each kind may be.
IntegerKinds == [uint8 |-> Unsigned(8), uint16 |-> Unsigned(16),
                 uint32 |-> Unsigned(32), uint64 |-> Unsigned(64),
                 uint |-> Unsigned(64), int8 |-> Signed(8),
                 int16 |-> Signed(16), int32 |-> Signed(32),
                 int64 |-> Signed(64), int |-> Signed(64)]
FloatKinds == [float32 |-> Floats(32), float64 |-> Floats(64)]
Strings == {<<"text", t>> : t \in Texts} \cup {<<"number", 2>>}

Halves(v) == IF v[1] \in DOMAIN IntegerKinds THEN 2 * v[2] ELSE v[2]

\* %v
Text(v) ==
    CASE v[1] \in DOMAIN IntegerKinds \cup DOMAIN FloatKinds -> <<"number", Halves(v)>>
      [] v[1] \in {"string", "bytes"} -> v[2]
      [] OTHER -> v

\* The EdgeX types and the kinds they stand for; of those that ValueToType
\* leaves alone there is one.
KindOf == [Uint8 |-> "uint8", Uint16 |-> "uint16", Uint32 |-> "uint32", Uint64 |-> "uint64",
           Int8 |-> "int8", Int16 |-> "int16", Int32 |-> "int32", Int64 |-> "int64",
           Float32 |-> "float32", Float64 |-> "float64", String |-> "string", Bool |-> "bool",
           Binary |-> "bytes", Float64Array |-> "[]float64"]
Types == DOMAIN KindOf
UnsignedTypes == {"Uint8", "Uint16", "Uint32", "Uint64"}
SignedTypes == {"Int8", "Int16", "Int32", "Int64"}
IntegerTypes == UnsignedTypes \cup SignedTypes

\* The values the SDK may pass for a type.
Proper(type) ==
    LET kind == KindOf[type] IN
    {kind} \X CASE kind \in DOMAIN IntegerKinds -> IntegerKinds[kind]
                [] kind \in DOMAIN FloatKinds -> FloatKinds[kind]
                [] kind \in {"string", "bytes"} -> Strings
                [] kind = "bool" -> BOOLEAN
                [] OTHER -> {}

-----------------------------------------------------------------------------
\* ValueToType.  A conversion gives the set of its possible results, empty for
\* an error; Go leaves that of a float out of the integer's range to the platform.
FromFloat(h, range) == IF Truncated(h) \in range THEN {Truncated(h)} ELSE range

\* Faulty variant: a negative number is cast like any other.
ToUint64_Casts(v) ==
    CASE v[1] \in {"uint64", "uint", "uint32", "uint16", "uint8"} -> {v[2]}
      [] v[1] \in {"int", "int64", "int32"} -> {v[2] % Size[64]}
      [] v[1] = "float64" -> FromFloat(v[2], IntegerKinds.uint64)
      [] OTHER -> {}

ToUint64(v) ==
    CASE v[1] \in {"uint64", "uint", "uint32", "uint16", "uint8"} -> {v[2]}
      [] v[1] \in {"int", "int64", "int32"} -> IF v[2] < 0 THEN {} ELSE {v[2]}
      [] v[1] = "float64" -> IF v[2] < 0 THEN {} ELSE FromFloat(v[2], IntegerKinds.uint64)
      [] OTHER -> {}

ToInt64(v) ==
    CASE v[1] \in {"int64", "int", "int32", "int16", "int8"} -> {v[2]}
      [] v[1] \in {"uint64", "uint", "uint32"} -> {WrapSigned(64, v[2])}
      [] v[1] = "float64" -> FromFloat(v[2], IntegerKinds.int64)
      [] OTHER -> {}

ToFloat64(v) ==
    IF v[1] \in {"float64", "float32", "int", "int64", "uint", "uint64"}
    THEN {Round[64][Halves(v)]} ELSE {}

ToBool(v) ==
    CASE v[1] = "bool" -> {v[2]}
      [] v[1] \in {"int", "int64", "uint", "uint64"} -> {v[2] # 0}
      [] OTHER -> {}

ToBinary(v) == IF v[1] \in {"string", "bytes"} THEN {v[2]} ELSE {}

\* The bits a number of the type keeps.
BitsOf == [Uint8 |-> 8, Uint16 |-> 16, Uint32 |-> 32, Uint64 |-> 64, Int8 |-> 8, Int16 |-> 16,
           Int32 |-> 32, Int64 |-> 64, Float32 |-> 32, Float64 |-> 64]

ValueToType(v, type) ==
    LET typed(results) == {<<KindOf[type], r>> : r \in results} IN
    CASE type \in UnsignedTypes -> typed({n % Size[BitsOf[type]] : n \in ToUint64(v)})
      [] type \in SignedTypes -> typed({WrapSigned(BitsOf[type], n) : n \in ToInt64(v)})
      [] type \in {"Float32", "Float64"} -> typed({Round[BitsOf[type]][f] : f \in ToFloat64(v)})
      [] type = "String" -> typed({Text(v)})
      [] type = "Bool" -> typed(ToBool(v))
      [] type = "Binary" -> typed(ToBinary(v))
      [] OTHER -> {v}

\* NewCommandValue (external) refuses a value that has not the type's kind.
CommandValues(type, results) == {v \in results : v[1] = KindOf[type]}

-----------------------------------------------------------------------------
\* The types objects have on a device (external), and the kind of Go value the
\* library of the adapter makes of each.
Syntaxes == [
    snmp |-> [Integer |-> "int", Gauge32 |-> "uint", TimeTicks |-> "uint32", Counter64 |-> "uint64",
              OpaqueFloat |-> "float32", OpaqueDouble |-> "float64", OctetString |-> "bytes",
              ObjectIdentifier |-> "string", Null |-> "nil"],
    opcua |-> [Int32 |-> "int32", UInt16 |-> "uint16", Double |-> "float64", String |-> "string",
               Boolean |-> "bool"],
    http |-> [number |-> "float64", string |-> "string", boolean |-> "bool", null |-> "nil"],
    push |-> [number |-> "float64", string |-> "string", boolean |-> "bool", null |-> "nil"]]

\* What an object of a type may be.  An Integer has 32 bits; the digits of a
\* number in JSON are not rounded.
Ranges == [Integer |-> IntegerKinds.int32, Gauge32 |-> IntegerKinds.uint32,
           number |-> -2 * Size[64] .. 2 * Size[64]]

Contents(a, syntax) ==
    LET kind == Syntaxes[a][syntax] IN
    IF syntax \in DOMAIN Ranges THEN Ranges[syntax]
    ELSE CASE kind \in DOMAIN IntegerKinds -> IntegerKinds[kind]
           [] kind \in DOMAIN FloatKinds -> FloatKinds[kind]
           [] kind \in {"string", "bytes"} -> Strings
           [] kind = "bool" -> BOOLEAN
           [] kind = "nil" -> {0}

Objects(a) == UNION {{s} \X Contents(a, s) : s \in DOMAIN Syntaxes[a]}

\* The value the library reads.
Decoded == <<Syntaxes[adapter][object[1]],
             IF object[1] = "number" THEN Round[64][object[2]] ELSE object[2]>>

\* How an HTTP server wraps it: in an object under the name of the resource, in
\* one with a single or with several other fields, in an array, not at all, or
\* with nothing to be found in it.
Shapes == {"named", "single", "several", "array", "plain", "empty", "malformed"}

parseJSONValue(shape) ==
    CASE shape \in {"named", "single"} -> {Decoded}
      [] shape \in {"several", "array"} -> {<<"json", shape>>}
      [] shape = "plain" -> {<<"string", Text(Decoded)>>}
      [] OTHER -> {}

\* ReadSingle and ReadBatch, for one point.
Read(type, shape) ==
    CASE adapter = "snmp" -> ValueToType(Decoded, type)
      [] adapter = "http" -> UNION {ValueToType(v, type) : v \in parseJSONValue(shape)}
      [] adapter = "opcua" -> {Decoded}

NoReply == [op |-> "none"]
Nothing == [type |-> "none"]

\* The results of a command, none of them for an error.
Answer(op, type, shape, results) ==
    \/ /\ results = {}
       /\ reply' = [op |-> op, type |-> type, shape |-> shape, out |-> "error"]
    \/ \E v \in results :
          reply' = [op |-> op, type |-> type, shape |-> shape, out |-> "ok", value |-> v]

ReadCommand ==
    /\ reply = NoReply /\ adapter # "push"
    /\ \E type \in Types, shape \in IF adapter = "http" THEN Shapes ELSE {"none"} :
          Answer("read", type, shape, CommandValues(type, Read(type, shape)))
    /\ UNCHANGED <<adapter, object, stored>>

-----------------------------------------------------------------------------
\* Faulty variant: an uint64 goes as a Gauge32.
goValueToSnmpPDU_Gauge(v) ==
    CASE v[1] = "int32" -> <<"Integer", v[2]>>
      [] v[1] \in {"uint32", "uint64"} -> <<"Gauge32", v[2] % Size[32]>>
      [] v[1] = "float32" -> <<"OpaqueFloat", v[2]>>
      [] v[1] = "float64" -> <<"OpaqueDouble", v[2]>>
      [] v[1] = "bool" -> <<"Integer", IF v[2] THEN 1 ELSE 0>>
      [] OTHER -> <<"OctetString", Text(v)>>

\* Kinds it does not name go as text: those of 8 and 16 bits.  (What the library
\* makes of an int64 in a Counter64 is not modelled.)
goValueToSnmpPDU(v) ==
    CASE v[1] = "int32" -> <<"Integer", v[2]>>
      [] v[1] = "uint32" -> <<"Gauge32", v[2]>>
      [] v[1] = "uint64" -> <<"Counter64", v[2]>>
      [] v[1] = "float32" -> <<"OpaqueFloat", v[2]>>
      [] v[1] = "float64" -> <<"OpaqueDouble", v[2]>>
      [] v[1] = "bool" -> <<"Integer", IF v[2] THEN 1 ELSE 0>>
      [] OTHER -> <<"OctetString", Text(v)>>

\* convertForWrite takes two types and leaves their values as they are.
convertForWrite(v, type) ==
    CASE type = "Float64" -> {<<"Double", v[2]>>}
      [] type = "Int32" -> {<<"Int32", v[2]>>}
      [] OTHER -> {}

\* json.Marshal; bytes are written in base64.
Marshal(v) ==
    CASE v[1] \in DOMAIN IntegerKinds \cup DOMAIN FloatKinds -> <<"number", Halves(v)>>
      [] v[1] = "bytes" -> <<"string", <<"base64", v[2]>>>>
      [] v[1] = "string" -> <<"string", v[2]>>
      [] v[1] = "bool" -> <<"boolean", v[2]>>

\* What is sent to the device.
Sent(v, type) ==
    CASE adapter = "snmp" -> {goValueToSnmpPDU(v)}
      [] adapter = "opcua" -> convertForWrite(v, type)
      [] adapter = "http" -> {Marshal(v)}

\* The device (external) takes a value of the type its object has, an HTTP
\* server any.
Takes(new) == adapter = "http" \/ new[1] = object[1]

\* The refusal of an SNMP agent is in the packet, at which nothing looks.
WriteCommand ==
    /\ reply = NoReply /\ adapter # "push"
    /\ \E type \in Types \ (IF adapter = "snmp" THEN {"Int64"} ELSE {}) : \E v \in Proper(type) :
        LET taken == {new \in Sent(v, type) : Takes(new)} IN
        /\ IF taken = {} THEN UNCHANGED <<object, stored>>
                         ELSE object' \in taken /\ stored' = [type |-> type, value |-> v]
        /\ reply' = [op |-> "write", type |-> type, shape |-> "none",
                     out |-> IF taken = {} /\ adapter # "snmp" THEN "error" ELSE "ok", value |-> v]
    /\ UNCHANGED adapter

-----------------------------------------------------------------------------
\* Without a profile, or with none for the field.
NoType == "none"

\* Faulty variant: any other text is true.
convertValue_AnyText(v, type) ==
    CASE type \in {"Int32", "Int16", "Uint16", "Uint32", "Uint64"} /\ v[1] = "float64" ->
            {<<"int32", n>> : n \in FromFloat(v[2], IntegerKinds.int32)}
      [] type = "String" -> {<<"string", Text(v)>>}
      [] type = "Bool" /\ v[1] = "float64" -> {<<"bool", v[2] # 0>>}
      [] type = "Bool" /\ v[1] = "string" -> {<<"bool", v[2] # <<"text", "false">>>>}
      [] OTHER -> {v}

\* convertValue: a number for an integer type becomes an int32, whichever the
\* type is; floats stay of 64 bits.
convertValue(v, type) ==
    CASE type \in {"Int32", "Int16", "Uint16", "Uint32", "Uint64"} /\ v[1] = "float64" ->
            {<<"int32", n>> : n \in FromFloat(v[2], IntegerKinds.int32)}
      [] type = "String" -> {<<"string", Text(v)>>}
      [] type = "Bool" /\ v[1] = "float64" -> {<<"bool", v[2] # 0>>}
      [] type = "Bool" /\ v[1] = "string" -> {<<"bool", v[2] \in {<<"text", "true">>, <<"number", 2>>}>>}
      [] OTHER -> {v}

\* resolveFieldType: the profile's type, or one inferred from the JSON.
InferredType(v) ==
    CASE v[1] = "float64" -> "Float64"
      [] v[1] = "bool" -> "Bool"
      [] OTHER -> "String"

resolveFieldType(declared, v) == IF declared = NoType THEN InferredType(v) ELSE declared

FieldValues(declared, v) ==
    IF declared = NoType
    THEN {<<KindOf[InferredType(v)], IF v[1] \in {"float64", "bool"} THEN v[2] ELSE Text(v)>>}
    ELSE convertValue(v, declared)

\* A field of a payload; buildCommandValues skips it if its value is refused.
PushedField ==
    /\ reply = NoReply /\ adapter = "push"
    /\ \E declared \in Types \cup {NoType} :
          LET type == resolveFieldType(declared, Decoded) IN
          Answer("push", type, "none", CommandValues(type, FieldValues(declared, Decoded)))
    /\ UNCHANGED <<adapter, object, stored>>

\* The command is over.
Done == reply # NoReply /\ reply' = NoReply /\ UNCHANGED <<adapter, object, stored>>

Init ==
    /\ adapter \in DOMAIN Syntaxes
    /\ object \in Objects(adapter)
    /\ stored = Nothing /\ reply = NoReply

Next == ReadCommand \/ WriteCommand \/ PushedField \/ Done

Spec == Init /\ [][Next]_vars

-----------------------------------------------------------------------------
Replied(op) == reply # NoReply /\ reply.op = op /\ reply.out = "ok"

\* The number the object is, in halves, or of one in JSON the float64 nearest to
\* it; and whether that is the number itself, as it is of all others.
Numeric == Decoded[1] \in DOMAIN IntegerKinds \cup DOMAIN FloatKinds
Number == Halves(Decoded)
Exact == object[1] = "number" => Round[64][object[2]] = object[2]

\* A number that is read as an integer is the object's number without its
\* fraction, and where it does not fit the type, that number modulo the type's
\* width, within its range: it is never clamped, and a negative number is never
\* read as an unsigned one.  Read as a float it is the object's, if the float can
\* hold it.  So a Counter64 beyond what a float64 holds reads exactly as an Uint64.
\* (Of a number in JSON the float64 nearest to it is meant; floats beyond 64
\* bits, and beyond the signed ones for a signed type, excepted.)
NumbersRight ==
    Replied("read") /\ Numeric =>
        /\ reply.type \in IntegerTypes /\ Truncated(Number) \in Signed(64) \cup Unsigned(64)
              /\ (Decoded[1] = "float64" /\ reply.type \in SignedTypes
                    => Truncated(Number) \in Signed(64))
           => (reply.value[2] - Truncated(Number)) % Size[BitsOf[reply.type]] = 0
        /\ reply.type \in IntegerTypes => reply.value \in Proper(reply.type)
        /\ reply.type \in UnsignedTypes => Number >= 0
        /\ reply.type \in {"Float32", "Float64"} /\ Round[BitsOf[reply.type]][Number] = Number
           => reply.value[2] = Number
        /\ reply.type = "Bool" => (reply.value[2] <=> Number # 0)

\* Types that do not survive a write: over SNMP the integers of 8 and 16 bits,
\* which are sent as text, and over HTTP bytes, which come back in base64.
Lost == IF adapter = "snmp" THEN {"Uint8", "Uint16", "Int8", "Int16"}
        ELSE IF adapter = "http" THEN {"Binary"} ELSE {}

\* A value the device has taken reads back in its own type as what was written:
\* over SNMP and OPC UA always, over HTTP if a float64 holds the number.
WritesReadBack ==
    reply # NoReply /\ reply.op = "read" /\ stored # Nothing /\ reply.type = stored.type
    /\ stored.type \notin Lost /\ reply.shape \in {"none", "named", "single"} =>
        /\ reply.out = "ok"
        /\ Exact => reply.value = stored.value

\* A pushed field that becomes a value has become it without a loss other than
\* that of a fraction: numbers stay what they are, as long as an int32 holds
\* them, and only "true", "1" and numbers other than 0 are true.
PushedRight ==
    Replied("push") =>
        /\ reply.type \in {"Float64", "Float32"} => reply.value[2] = Decoded[2]
        /\ reply.type \in IntegerTypes /\ Truncated(Decoded[2]) \in IntegerKinds.int32
              => reply.value[2] = Truncated(Decoded[2])
        /\ reply.type = "String" => reply.value[2] = Text(Decoded)
        /\ reply.type = "Bool" => (reply.value[2] <=>
              CASE Decoded[1] = "bool" -> Decoded[2]
                [] Decoded[1] = "float64" -> Decoded[2] # 0
                [] OTHER -> Decoded[2] \in {<<"text", "true">>, <<"number", 2>>})

-----------------------------------------------------------------------------
\* Inductive invariants, from which the properties follow.

\* A Go value that is a number has one of its kind.
Holds(v) ==
    IF v[1] \in DOMAIN IntegerKinds THEN v[2] \in IntegerKinds[v[1]]
    ELSE v[1] \in DOMAIN FloatKinds => v[2] \in FloatRange

\* An object has a type its device knows, and if that is a number, one of it.
ObjectInv ==
    /\ adapter \in DOMAIN Syntaxes
    /\ object[1] \in DOMAIN Syntaxes[adapter]
    /\ Holds(<<Syntaxes[adapter][object[1]], object[2]>>)

\* What the device holds since a write: what was sent of a value that the SDK
\* may pass for the type.
StoredInv ==
    stored = Nothing \/
      /\ adapter # "push" /\ stored.type \in Types /\ stored.value \in Proper(stored.type)
      /\ adapter = "snmp" => stored.type # "Int64"
      /\ object \in Sent(stored.value, stored.type)

\* What JSON may hold.
JSONKinds == {"float64", "string", "bool", "nil"}

\* Only a device that pushes answers a push, with a field of JSON; and what has
\* been said of an answer stays true, since the object it was made of does.
PushInv ==
    /\ adapter = "push" => Decoded[1] \in JSONKinds
    /\ adapter # "push" => ~Replied("push")
    /\ PushedRight

=============================================================================

------------------------------ MODULE Registers ------------------------------
(***************************************************************************)
(* From a command to the tables of a Modbus device and back: the resources *)
(* of a command become points (pkg/model/resource.go), the connector       *)
(* decodes and encodes their values (pkg/protocol/connector.go,            *)
(* pkg/parser, pkg/conv), and the Modbus adapter reads or writes them in   *)
(* one request (pkg/adapter/modbus).                                       *)
(*                                                                         *)
(* Addresses and lengths are uint16 in the code; Modulus stands for 2^16.  *)
(* A value is the Go type it has and the registers or bits it is made of:  *)
(* a uint32, a MAC or an IPv4 address keeps its two, three or two words,   *)
(* the first one being the high one.                                       *)
(***************************************************************************)
EXTENDS Integers, Sequences, SequencesExt

CONSTANTS
    Modulus,
    Resources,    \* the resources a command may name
    MaxBatch,     \* bound on the resources in a command
    ReadLimit,    \* most cells of a table one request may read (2000 bits, 125 words)
    WriteLimit,   \* and write (1968 bits, 123 words)
    Values,       \* the values a write may carry
    Factory,      \* what the tables hold at first
    Outcomes      \* what the device may do with a request: on a read all but "answers" are an error

Tables == {"COILS", "DISCRETES", "HOLDING_REGISTERS", "INPUT_REGISTERS"}
Bits == {"COILS", "DISCRETES"}
Addresses == 0 .. Modulus - 1
Types == {"Bool", "BoolArray", "Uint16", "Uint16Array", "Uint32", "String"}

\* An address of 2^16, whose conversion to uint16 Go leaves to the platform, is
\* not among the resources.
ASSUME RegistersAssumption ==
    /\ Modulus \in Nat /\ Modulus > 1
    /\ MaxBatch \in Nat \ {0}
    /\ \A r \in Resources :
          r.address \in 1 .. Modulus - 1 /\ r.length \in Addresses /\ r.type \in Types
    /\ Values \subseteq [kind : Types, words : Seq(Nat)]
    /\ Factory \in [Tables -> [Addresses -> Nat]]
    /\ ReadLimit \in [Tables -> Nat] /\ WriteLimit \in [Tables -> Nat]
    /\ Outcomes \subseteq {"answers", "fails", "late"}

VARIABLES
    memory,   \* the tables of the device
    reply     \* the command that has been carried out and what came of it

vars == <<memory, reply>>

NoReply == [op |-> "none"]
Value(kind, words) == [kind |-> kind, words |-> words]
Nil == Value("nil", <<>>)
Error == Value("error", <<>>)

Commands == UNION {[1 .. n -> Resources] : n \in 1 .. MaxBatch}

\* The tables hold words; a reply has a value per resource at most, each of a
\* type the SDK knows.
TypeOK ==
    /\ memory \in [Tables -> [Addresses -> Nat]]
    /\ reply # NoReply =>
        /\ reply.op \in {"read", "write"} /\ reply.reqs \in Commands
        /\ reply.out \in {"ok", "error", "panic"}
        /\ reply.values \in Seq([kind : Types, words : Seq(Nat)])
        /\ Len(reply.values) <= Len(reply.reqs)
        /\ reply.op = "write" => reply.params \in [DOMAIN reply.reqs -> Values]

Init == memory = Factory /\ reply = NoReply

-----------------------------------------------------------------------------
\* getTableType: without a known primaryTable, holding registers.
getTableType(r) == IF r.table \in Tables THEN r.table ELSE "HOLDING_REGISTERS"

\* calculateBatchSpan, in uint16 arithmetic.
MinAddr(points) == Min({Modulus - 1} \cup {points[i].address : i \in DOMAIN points})

EndAddr(p) == (p.address + p.length) % Modulus

\* Faulty variant: the span ends where the last point ends.
Quantity_ToLast(points) == (EndAddr(points[Len(points)]) - MinAddr(points)) % Modulus

Quantity(points) ==
    LET maxEnd == Max({0} \cup {EndAddr(points[i]) : i \in DOMAIN points})
    IN (maxEnd - MinAddr(points)) % Modulus

\* The protocol counts from 0, the resources from 1.
Protocol(addr) == (addr - 1) % Modulus

\* extractRegisterValue: one cell is a scalar, more of them a slice.
extractRegisterValue(table, cells, length) ==
    IF length > 1
    THEN Value(IF table \in Bits THEN "BoolArray" ELSE "Uint16Array", cells)
    ELSE Value(IF table \in Bits THEN "Bool" ELSE "Uint16", <<cells[1]>>)

\* Faulty variant of the offset: from the protocol address of the span.
Offset_Protocol(p, points) == (p.address - Protocol(MinAddr(points))) % Modulus

Offset(p, points) == (p.address - MinAddr(points)) % Modulus

\* assignResValues: the point's part of the cells read, nil if they fall short.
assignResValue(p, points, table, cells) ==
    LET offset == Offset(p, points) IN
    IF offset + p.length <= Len(cells)
    THEN extractRegisterValue(table, SubSeq(cells, offset + 1, offset + p.length), p.length)
    ELSE Nil

\* A point without a length passes the check on the slice, and the first cell
\* of an empty slice is taken.
AssignPanics(points, cells) == \E i \in DOMAIN points :
    points[i].length = 0 /\ Offset(points[i], points) <= Len(cells)

\* What the library refuses to ask for, and (external) the device's answer.
Allowed(addr, quantity, limit) == quantity \in 1 .. limit /\ addr + quantity <= Modulus
Cells(table, addr, quantity) == [k \in 1 .. quantity |-> memory[table][addr + k - 1]]

-----------------------------------------------------------------------------
\* DecodeRData: the decoders, the words each takes, and the type each returns.
Decoders == [decodeMACAddress |-> Value("String", 3), decodeIPv4Address |-> Value("String", 2),
             toUint32 |-> Value("Uint32", 2)]

DecodeRData(name, raw) ==
    IF name \in DOMAIN Decoders /\ raw.kind = "Uint16Array" /\ Len(raw.words) >= Decoders[name].words
    THEN Value(Decoders[name].kind, SubSeq(raw.words, 1, Decoders[name].words))
    ELSE Error

\* EncodeWData, the other way round.
Encoders == [encodeMACAddress |-> Value("String", 3), encodeIPv4Address |-> Value("String", 2),
             toUint16Slice |-> Value("Uint32", 2)]

\* Faulty variant: the low word first.
EncodeWData_LowFirst(name, v) ==
    IF name \in DOMAIN Encoders /\ v.kind = Encoders[name].kind /\ Len(v.words) = Encoders[name].words
    THEN Value("Uint16Array", Reverse(v.words))
    ELSE Error

EncodeWData(name, v) ==
    IF name \in DOMAIN Encoders /\ v.kind = Encoders[name].kind /\ Len(v.words) = Encoders[name].words
    THEN Value("Uint16Array", v.words)
    ELSE Error

\* Faulty variant: the type is not compared.
CommandValue_AnyType(r, raw) == IF r.decoder = "" THEN raw ELSE DecodeRData(r.decoder, raw)

\* Decoding, then NewCommandValue (external), which wants the resource's type.
CommandValue(r, raw) ==
    LET v == IF r.decoder = "" THEN raw ELSE DecodeRData(r.decoder, raw)
    IN IF v.kind = r.type THEN v ELSE Error

\* A batch ends at the first value that fails; those before it are returned.
FirstError(values) == SelectInSeq(values, LAMBDA v : v = Error)

ReadReply(reqs, outcome, out, values) ==
    [op |-> "read", reqs |-> reqs, params |-> <<>>, outcome |-> outcome, out |-> out,
     values |-> values]

\* HandleReadSingle over ReadSingle.
HandleReadSingle(reqs, outcome) ==
    LET r == reqs[1]  t == getTableType(r)  a == Protocol(r.address) IN
    IF outcome # "answers" \/ ~Allowed(a, r.length, ReadLimit[t])
    THEN ReadReply(reqs, outcome, "error", <<>>)
    ELSE LET v == CommandValue(r, extractRegisterValue(t, Cells(t, a, r.length), r.length))
         IN IF v = Error THEN ReadReply(reqs, outcome, "error", <<>>) ELSE ReadReply(reqs, outcome, "ok", <<v>>)

\* HandleReadBatch over ReadBatch: one request, to the table of the first point.
HandleReadBatch(reqs, outcome) ==
    LET t == getTableType(reqs[1])  a == Protocol(MinAddr(reqs))  q == Quantity(reqs) IN
    IF outcome # "answers" \/ ~Allowed(a, q, ReadLimit[t])
    THEN ReadReply(reqs, outcome, "error", <<>>)
    ELSE LET cells == Cells(t, a, q)
             values == [i \in DOMAIN reqs |->
                           CommandValue(reqs[i], assignResValue(reqs[i], reqs, t, cells))]
             failed == FirstError(values)
         IN IF AssignPanics(reqs, cells) THEN ReadReply(reqs, outcome, "panic", <<>>)
            ELSE IF failed = 0 THEN ReadReply(reqs, outcome, "ok", values)
            ELSE ReadReply(reqs, outcome, "error", SubSeq(values, 1, failed - 1))

HandleRead(reqs, outcome) ==
    IF Len(reqs) = 1 THEN HandleReadSingle(reqs, outcome) ELSE HandleReadBatch(reqs, outcome)

Read(reqs, outcome) ==
    /\ reply = NoReply
    /\ reply' = HandleRead(reqs, outcome)
    /\ UNCHANGED memory

-----------------------------------------------------------------------------
\* The cells a value is written to: ToBool, ToBoolSlice and ToUint16Slice take
\* a scalar or a slice of their type and nothing else.
Convertible(table, v, single) ==
    CASE table = "COILS" -> v.kind = "Bool" \/ (~single /\ v.kind = "BoolArray")
      [] table = "HOLDING_REGISTERS" -> v.kind \in {"Uint16", "Uint16Array"}
      [] OTHER -> FALSE

\* The device is sent one request, or none when the library refuses it.  A late
\* device stores the values after the adapter's timeout.
Store(table, addr, cells, outcome) ==
    memory' = IF outcome = "fails" THEN memory
              ELSE [memory EXCEPT ![table] = [a \in Addresses |->
                       IF a \in addr .. addr + Len(cells) - 1 THEN cells[a - addr + 1] ELSE @[a]]]

WriteReply(reqs, params, outcome, out) ==
    [op |-> "write", reqs |-> reqs, params |-> params, outcome |-> outcome, out |-> out,
     values |-> <<>>]

Refuse(reqs, params, outcome) ==
    reply' = WriteReply(reqs, params, outcome, "error") /\ UNCHANGED memory

Send(reqs, params, table, addr, cells, outcome) ==
    IF Allowed(addr, Len(cells), WriteLimit[table])
    THEN /\ Store(table, addr, cells, outcome)
         /\ reply' = WriteReply(reqs, params, outcome, IF outcome = "answers" THEN "ok" ELSE "error")
    ELSE Refuse(reqs, params, outcome)

\* HandleWriteSingle over WriteSingle.  With an encoder, EncodeWData is called
\* with the name of the decoder and a pointer to the whole command value.
HandleWriteSingle(reqs, params, outcome) ==
    LET r == reqs[1]
        t == getTableType(r)
        v == IF r.encoder = "" THEN params[1] ELSE EncodeWData(r.decoder, Value("*CommandValue", <<>>))
    IN IF Convertible(t, v, TRUE)
       THEN Send(reqs, params, t, Protocol(r.address), v.words, outcome)
       ELSE Refuse(reqs, params, outcome)

Encoded(reqs, params) == [i \in DOMAIN reqs |->
    IF reqs[i].encoder = "" THEN params[i] ELSE EncodeWData(reqs[i].encoder, params[i])]

\* Faulty variant: a request per point, the device late after the first.
HandleWriteBatch_OneByOne(reqs, params, outcome) ==
    LET t == getTableType(reqs[1])  vs == Encoded(reqs, params) IN
    IF \A i \in DOMAIN vs : Convertible(t, vs[i], FALSE)
    THEN Send(reqs, params, t, Protocol(MinAddr(reqs)),
              IF outcome = "late" THEN vs[1].words ELSE FlattenSeq([i \in DOMAIN vs |-> vs[i].words]),
              outcome)
    ELSE Refuse(reqs, params, outcome)

\* HandleWriteBatch over WriteBatch: the values one after the other from the
\* lowest address, in the order of the request, to the table of the first point.
HandleWriteBatch(reqs, params, outcome) ==
    LET t == getTableType(reqs[1])  vs == Encoded(reqs, params) IN
    IF \A i \in DOMAIN vs : Convertible(t, vs[i], FALSE)
    THEN Send(reqs, params, t, Protocol(MinAddr(reqs)),
              FlattenSeq([i \in DOMAIN vs |-> vs[i].words]), outcome)
    ELSE Refuse(reqs, params, outcome)

\* The SDK passes values of the types the resources declare.
Write(reqs, params, outcome) ==
    /\ reply = NoReply
    /\ \A i \in DOMAIN reqs : params[i].kind = reqs[i].type
    /\ IF Len(reqs) = 1 THEN HandleWriteSingle(reqs, params, outcome)
                        ELSE HandleWriteBatch(reqs, params, outcome)

\* The command is over.
Done == reply # NoReply /\ reply' = NoReply /\ UNCHANGED memory

Next ==
    \/ \E reqs \in Commands, outcome \in Outcomes :
          \/ Read(reqs, outcome)
          \/ \E params \in [DOMAIN reqs -> Values] : Write(reqs, params, outcome)
    \/ Done

Spec == Init /\ [][Next]_vars

-----------------------------------------------------------------------------
OneTable(reqs) == \A i, j \in DOMAIN reqs : getTableType(reqs[i]) = getTableType(reqs[j])

\* The registers of a resource, by their addresses and nothing else.
Registers(r) == [k \in 1 .. r.length |-> memory[getTableType(r)][r.address + k - 2]]

\* A value a read returns, alone or in a batch, in full or in the part before
\* an error, is made of the registers of its own resource and has its type,
\* whatever the order, overlap and gaps of the batch, and also where addresses
\* wrap around 2^16.
ReadRight ==
    reply.op = "read" /\ OneTable(reply.reqs) =>
        \A i \in DOMAIN reply.values :
            LET r == reply.reqs[i]  v == reply.values[i] IN
            /\ v.kind = r.type
            /\ r.address + r.length <= Modulus + 1
            /\ IsPrefix(v.words, Registers(r)) /\ v.words # <<>>

\* The type a resource has suits its table, length and decoder.
WellTyped(r) ==
    /\ r.length >= 1
    /\ LET raw == extractRegisterValue(getTableType(r), [k \in 1 .. r.length |-> 0], r.length)
       IN CommandValue(r, raw) # Error

\* The span of a batch, in unbounded arithmetic.
Within(reqs, limit) == \A i, j \in DOMAIN reqs :
    reqs[i].address + reqs[i].length - reqs[j].address <= limit

Readable(reqs) ==
    /\ OneTable(reqs) /\ \A i \in DOMAIN reqs : WellTyped(reqs[i])
    /\ Within(reqs, ReadLimit[getTableType(reqs[1])])

\* A read that the device answers returns every value, if the resources are
\* well typed, share a table, lie within the limit of a request and end below
\* the last register.
ReadWhole ==
    reply.op = "read" /\ reply.outcome = "answers" /\ Readable(reply.reqs)
    /\ (\A i \in DOMAIN reply.reqs : reply.reqs[i].address + reply.reqs[i].length < Modulus)
        => reply.out = "ok"

\* The values of the command fill the registers from the first address up.
Adjacent(reqs, params) == LET vs == Encoded(reqs, params) IN
    /\ OneTable(reqs)
    /\ \A i \in DOMAIN reqs \ {1} :
          reqs[i].address = reqs[i - 1].address + Len(vs[i - 1].words)

\* The tables with each value stored at the address of its own resource.
Stored(reqs, params) == LET vs == Encoded(reqs, params) IN
    [memory EXCEPT ![getTableType(reqs[1])] = [a \in Addresses |->
        IF \E i \in DOMAIN reqs : a - reqs[i].address + 2 \in DOMAIN vs[i].words
        THEN LET i == CHOOSE i \in DOMAIN reqs : a - reqs[i].address + 2 \in DOMAIN vs[i].words
             IN vs[i].words[a - reqs[i].address + 2]
        ELSE @[a]]]

\* A write of adjacent resources puts each value at its own address and changes
\* nothing else, or changes nothing: also when the device fails or is late, no
\* part of a command is written without the rest.
WriteAllOrNothing ==
    [][reply'.op = "write" /\ Adjacent(reply'.reqs, reply'.params) =>
          \/ memory' = Stored(reply'.reqs, reply'.params)
          \/ memory' = memory /\ reply'.out # "ok"]_vars

\* The decoder undoes the encoder.
Inverses(r) == <<r.encoder, r.decoder>> \in
    {<<"", "">>, <<"encodeMACAddress", "decodeMACAddress">>,
     <<"encodeIPv4Address", "decodeIPv4Address">>, <<"toUint16Slice", "toUint32">>}

\* Strengthening the proof rests on: what a command has written is in the tables
\* until the next one.
WrittenInv ==
    reply.op = "write" =>
        /\ \A i \in DOMAIN reply.reqs : reply.params[i].kind = reply.reqs[i].type
        /\ reply.out = "ok" /\ Adjacent(reply.reqs, reply.params) =>
              \A i \in DOMAIN reply.reqs :
                LET r == reply.reqs[i]  v == Encoded(reply.reqs, reply.params)[i] IN
                /\ v # Error
                /\ \A k \in DOMAIN v.words : memory[getTableType(r)][r.address + k - 2] = v.words[k]

\* What a command wrote to resources that are adjacent, fit their values and
\* have the decoders of their encoders, the same resources read back.
ReadsBack ==
    reply.op = "write" /\ reply.out = "ok" /\ Adjacent(reply.reqs, reply.params)
    /\ Readable(reply.reqs)
    /\ (\A i \in DOMAIN reply.reqs : LET r == reply.reqs[i] IN
           /\ Inverses(r) /\ Len(Encoded(reply.reqs, reply.params)[i].words) = r.length
           /\ r.address + r.length < Modulus)
        => HandleRead(reply.reqs, "answers").values = reply.params

=============================================================================

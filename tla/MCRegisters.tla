----------------------------- MODULE MCRegisters -----------------------------
(* Eight addresses with resources at the bottom, in the middle and at the top, *)
(* of every table, and limits that spans of theirs exceed.                     *)
EXTENDS Registers

\* Every cell of a table starts with a value of its own.
Distinct == [t \in Tables |-> [a \in Addresses |->
    a + (CASE t = "COILS" -> 10 [] t = "DISCRETES" -> 30
           [] t = "HOLDING_REGISTERS" -> 50 [] OTHER -> 70)]]

Res(table, address, length, type, decoder, encoder) ==
    [table |-> table, address |-> address, length |-> length, type |-> type,
     decoder |-> decoder, encoder |-> encoder]

Word(t, a) == Res(t, a, 1, "Uint16", "", "")
Double(t, a) == Res(t, a, 2, "Uint32", "toUint32", "toUint16Slice")
Mac(t, a) == Res(t, a, 3, "String", "decodeMACAddress", "encodeMACAddress")
Mistyped(t, a) == Res(t, a, 2, "Uint16", "", "")
Bare(t, a) == Res(t, a, 0, "Uint16", "", "")
Coil(a) == Res("COILS", a, 1, "Bool", "", "")
Flags(a) == Res("DISCRETES", a, 2, "BoolArray", "", "")

\* What can be written is few, for the tables it makes are many ("none" stands
\* for holding registers); reads vary over the tables that cannot be.
Writable == {Word("HOLDING_REGISTERS", 1), Double("none", 2), Mac("HOLDING_REGISTERS", 2),
             Coil(2)}
ReadOnly == LET t == "INPUT_REGISTERS" IN
    {Word(t, 7), Double(t, 1), Mac(t, 2), Mistyped(t, 2), Bare(t, 2), Flags(6)}
All == Writable \cup ReadOnly

SmallLimits == [t \in Tables |-> IF t \in Bits THEN 5 ELSE 4]

OneOfEach == {Value("Uint16", <<90>>), Value("Uint32", <<91, 92>>),
              Value("String", <<93, 94, 95>>), Value("Bool", <<1>>)}
=============================================================================

----------------------------- MODULE MCCommands -----------------------------
(* Devices whose protocols change between commands.  MovedOffJoined: the     *)
(* same protocol moved to another endpoint, disabled and joined by a second  *)
(* one.  MovedPaired: it moves, stays enabled and is joined by one that      *)
(* shares the old endpoint, both written in either order.  Moved: it only    *)
(* moves.  MaxSize 1 leaves the pool full after the first connection, unless *)
(* two commands dial at the same time.                                       *)
EXTENDS Commands, TLC

CONSTANTS w1, w2, d1, e1, e2, c1, c2

TwoWorkers == {w1, w2}
OneDevice == {d1}
TwoEndpoints == {e1, e2}
\* No more are ever dialed: with MaxSize 1 a dial starts from a pool without an
\* entry.
TwoConns == {c1, c2}

At(e) == [endpoint |-> e, disabled |-> FALSE]
Off(e) == [endpoint |-> e, disabled |-> TRUE]

MovedOffJoined == {"modbus-tcp" :> At(e1), "modbus-tcp" :> Off(e2) @@ "bacnet" :> At(e1)}
MovedPaired == {"modbus-tcp" :> At(e1), "modbus-tcp" :> At(e2) @@ "snmp" :> At(e1)}
Moved == {"modbus-tcp" :> At(e1), "modbus-tcp" :> At(e2)}
=============================================================================

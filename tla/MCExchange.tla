----------------------------- MODULE MCExchange -----------------------------
(* Two commands at two addresses; batches in both orders, with a point twice,  *)
(* with a value that does not convert after one that does, with an OID         *)
(* without the dot, and with a text.                                           *)
EXTENDS Exchange

CONSTANTS c1, c2, a1, a2

TwoCommands == {c1, c2}
TwoAddresses == {a1, a2}
Good(a) == [address |-> a, converts |-> TRUE, dotted |-> TRUE, text |-> FALSE]
Bad(a) == [Good(a) EXCEPT !.converts = FALSE]
Bare(a) == [Good(a) EXCEPT !.dotted = FALSE]
Text(a) == [Good(a) EXCEPT !.text = TRUE]

MCBatches == {<<Good(a1)>>, <<Good(a1), Text(a2)>>, <<Bare(a1), Good(a2)>>,
              <<Good(a1), Bad(a2)>>, <<Good(a2), Good(a1), Good(a2)>>}
=============================================================================

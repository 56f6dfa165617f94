----------------------------- MODULE MCIngest -----------------------------
(* Channels of one place, so that every one of them is found full and empty; *)
(* three events fill both and the hand of the consumer.  The traps come from *)
(* the host of a device that is known only once it has been discovered.      *)
EXTENDS Ingest, TLC

CONSTANTS m1, a1, h1, s2

OneDevice == {m1}
OneAddr == {a1}
MCHostOf == a1 :> h1
\* One of Discover's two devices.
FoundDevice == {[name |-> s2, address |-> h1]}
=============================================================================

----------------------------- MODULE MCSessions -----------------------------
(* Two callers, and up to three sessions at the HTTP server, so that one that is *)
(* lost or ended is followed by another.                                         *)
EXTENDS Sessions
CONSTANTS c1, c2
TwoCallers == {c1, c2}
=============================================================================

------------------------------ MODULE MCPolls ------------------------------
(* A pool of one with endpoints to spare, so that the limit is met and passed. *)
EXTENDS Polls, TLC

CONSTANTS w1, w2, w3, e1, e2, e3, d1, d2, d3, d4

TwoWorkers == {w1, w2}
ThreeWorkers == {w1, w2, w3}
TwoEndpoints == {e1, e2}
ThreeEndpoints == {e1, e2, e3}
FourConns == {d1, d2, d3, d4}
ThreeConns == {d1, d2, d3}

\* Neither workers nor connections are told apart; endpoints are, by NoConfig.
PoolSymmetry == Permutations(Conns) \cup Permutations(Workers)
=============================================================================

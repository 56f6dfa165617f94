------------------------------ MODULE MCValues ------------------------------
(* Integers of 2 to 5 bits, so that every one of every kind occurs; floats   *)
(* that do not hold the largest of them, and some far beyond them.           *)
EXTENDS Values, TLC

MCSize == 8 :> 4 @@ 16 :> 8 @@ 32 :> 16 @@ 64 :> 32

\* The bits of the mantissas of the floats of 32 and 64 bits.
Precision == 32 :> 3 @@ 64 :> 4

\* The nearest number with so many bits; between two, the even one.
Nearest(bits, h) ==
    LET a == IF h < 0 THEN -h ELSE h
        k == CHOOSE k \in 0 .. a : a < 2^(bits + k) /\ \A j \in 0 .. k - 1 : a >= 2^(bits + j)
        q == a \div 2^k  r == a % 2^k
        up == IF 2 * r > 2^k \/ (2 * r = 2^k /\ q % 2 = 1) THEN 1 ELSE 0
    IN IF h < 0 THEN -(q + up) * 2^k ELSE (q + up) * 2^k

MCRound == [p \in {32, 64} |-> [h \in -4 * 32 .. 4 * 32 |-> Nearest(Precision[p], h)]]
=============================================================================

----------------------------- MODULE WriteOnce -----------------------------
(***************************************************************************)
(* What the cache of protocol configurations promises to the callers of    *)
(* ResolveProtocolConfig: for every key one value is chosen, by the first  *)
(* answer, and every answer for that key, to whichever caller, is that     *)
(* value.  How concurrent callers agree is left to the implementation      *)
(* (module ProtocolConfig).                                                *)
(***************************************************************************)
CONSTANTS Callers, Keys, Props, NoProps

VARIABLES
    chosen,  \* the value of every key, NoProps until the first answer
    told     \* the answer each caller holds, NoAnswer when it holds none

vars == <<chosen, told>>

NoAnswer == [key |-> NoProps, value |-> NoProps]

TypeOK ==
    /\ chosen \in [Keys -> Props \cup {NoProps}]
    /\ told \in [Callers -> [key : Keys, value : Props] \cup {NoAnswer}]

Init ==
    /\ chosen = [k \in Keys |-> NoProps]
    /\ told = [c \in Callers |-> NoAnswer]

\* Caller c asks for key k offering p: p is chosen if nothing was, and the
\* answer is what is chosen.
Answer(c, k, p) ==
    /\ told[c] = NoAnswer
    /\ chosen' = IF chosen[k] = NoProps THEN [chosen EXCEPT ![k] = p] ELSE chosen
    /\ told' = [told EXCEPT ![c] = [key |-> k, value |-> chosen'[k]]]

\* The caller is done with its answer.
Forget(c) ==
    /\ told' = [told EXCEPT ![c] = NoAnswer]
    /\ UNCHANGED chosen

Next == \E c \in Callers :
    \/ \E k \in Keys, p \in Props : Answer(c, k, p)
    \/ Forget(c)

Spec == Init /\ [][Next]_vars

=============================================================================

------------------------------ MODULE Bridge ------------------------------
(***************************************************************************)
(* What the passive side of the service promises of the events it accepts: *)
(* a bounded queue between the listeners and the EdgeX SDK, which delivers *)
(* in the order of acceptance, neither loses nor repeats anything, and     *)
(* leaves out only events that cannot be forwarded.  Events that find it   *)
(* full are refused, not queued.                                           *)
(***************************************************************************)
EXTENDS Integers, Sequences, SequencesExt

CONSTANTS
    Events,
    Forwardable(_),   \* may the event be left out?  Not if it is forwardable
    Capacity

VARIABLES
    pending,    \* accepted and not delivered yet, oldest first
    delivered   \* handed to the SDK, oldest first

vars == <<pending, delivered>>

Init == pending = <<>> /\ delivered = <<>>

Accept(e) ==
    /\ Len(pending) < Capacity
    /\ pending' = Append(pending, e)
    /\ UNCHANGED delivered

LeaveOut(i) ==
    /\ ~Forwardable(pending[i])
    /\ pending' = RemoveAt(pending, i)
    /\ UNCHANGED delivered

Deliver ==
    /\ pending # <<>>
    /\ delivered' = Append(delivered, Head(pending))
    /\ pending' = Tail(pending)

Next ==
    \/ \E e \in Events : Accept(e)
    \/ \E i \in DOMAIN pending : LeaveOut(i)
    \/ Deliver

Spec == Init /\ [][Next]_vars

=============================================================================

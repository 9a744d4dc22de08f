---------------------------- MODULE EventDelivery ----------------------------
(***************************************************************************)
(* What the context bus promises, without its lock, its poller, its        *)
(* attempts or its crashes: each event is delivered to its subscribers     *)
(* once each and in registration order, and then it is published.          *)
(* ContextBus implements it (see ContextBus!ImplementsDelivery).           *)
(***************************************************************************)
EXTENDS Naturals, Sequences

CONSTANTS Event, Subscriber, Subs

VARIABLES
    status,   \* status[e]: "ABSENT", "PENDING" or "PUBLISHED"
    done      \* the deliveries <<e, s>> that have completed

vars == <<status, done>>

Init ==
    /\ status = [e \in Event |-> "ABSENT"]
    /\ done = {}

Emit(e) ==
    /\ status[e] = "ABSENT"
    /\ status' = [status EXCEPT ![e] = "PENDING"]
    /\ UNCHANGED done

Deliver(e, i) ==
    /\ status[e] = "PENDING"
    /\ \A j \in 1..(i - 1) : <<e, Subs[e][j]>> \in done
    /\ <<e, Subs[e][i]>> \notin done
    /\ done' = done \cup {<<e, Subs[e][i]>>}
    /\ UNCHANGED status

Publish(e) ==
    /\ status[e] = "PENDING"
    /\ \A i \in DOMAIN Subs[e] : <<e, Subs[e][i]>> \in done
    /\ status' = [status EXCEPT ![e] = "PUBLISHED"]
    /\ UNCHANGED done

Next == \E e \in Event :
            \/ Emit(e)
            \/ \E i \in DOMAIN Subs[e] : Deliver(e, i)
            \/ Publish(e)

Spec == Init /\ [][Next]_vars
=============================================================================

--------------------------- MODULE EventDelivery ----------------------------
(***************************************************************************)
(* What the durable event bus promises, whatever processes do the work: an *)
(* event is recorded before any of its handlers takes effect; it is        *)
(* reported delivered only when all of them have; delivered and abandoned  *)
(* are final, and nothing happens on behalf of a delivered or abandoned    *)
(* event.  An event that could not be recorded is never reported at all.   *)
(***************************************************************************)
CONSTANTS Events, Handlers, HandlersOf

VARIABLES
  outcome,  \* outcome[e]: "unrecorded", "open", "delivered" or "abandoned"
  done      \* done[e]: the handlers that have taken effect for e

vars == <<outcome, done>>

Init == /\ outcome = [e \in Events |-> "unrecorded"]
        /\ done = [e \in Events |-> {}]

Record(e) == /\ outcome[e] = "unrecorded"
             /\ done[e] = {}
             /\ outcome' = [outcome EXCEPT ![e] = "open"]
             /\ UNCHANGED done

\* Handlers take effect, also when the process that ran them dies.
Handle(e, S) == /\ outcome[e] \in {"unrecorded", "open"}
                /\ done' = [done EXCEPT ![e] = @ \cup S]
                /\ UNCHANGED outcome

Deliver(e) == /\ outcome[e] = "open"
              /\ HandlersOf[e] \subseteq done[e]
              /\ outcome' = [outcome EXCEPT ![e] = "delivered"]
              /\ UNCHANGED done

Abandon(e) == /\ outcome[e] = "open"
              /\ outcome' = [outcome EXCEPT ![e] = "abandoned"]
              /\ UNCHANGED done

Next == \E e \in Events :
          \/ Record(e) \/ Deliver(e) \/ Abandon(e)
          \/ \E S \in SUBSET HandlersOf[e] : Handle(e, S)

Spec == Init /\ [][Next]_vars
=============================================================================

--------------------------- MODULE MCDomainEvents ---------------------------
(* Two events share a handler name space: one with two handlers, one with   *)
(* one, and one event nobody listens to.                                    *)
EXTENDS DomainEvents

CONSTANTS e1, e2, unheard, h1, h2

MCHandlersOf == [e \in Events |-> IF e = e1 THEN {h1, h2}
                                  ELSE IF e = e2 THEN {h1} ELSE {}]
=============================================================================

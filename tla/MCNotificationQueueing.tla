----------------------- MODULE MCNotificationQueueing -----------------------
(* Two requests of one institute, to a group of two and to one of its      *)
(* members, and an answer to the other, which no limit and no STOP holds   *)
(* back.                                                                   *)
EXTENDS NotificationQueueing

CONSTANTS q1, q2, answer, p1, p2

MCGroup == [q \in Requests |-> IF q = q1 THEN {p1, p2}
                              ELSE IF q = q2 THEN {p1} ELSE {p2}]
=============================================================================

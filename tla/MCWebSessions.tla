--------------------------- MODULE MCWebSessions ---------------------------
(* Two tabs of one browser *)
EXTENDS WebSessions

CONSTANTS t1, t2

MCTabs == {t1, t2}
=============================================================================

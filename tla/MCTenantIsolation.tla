------------------------- MODULE MCTenantIsolation -------------------------
(* Two tenants, two tasks, and a connection more than the tasks hold *)
EXTENDS TenantIsolation, TLC

CONSTANTS a, b, r1, r2, t1, t2, k1, k2, k3

MCCoachings == {a, b}
MCRows == {r1, r2}
MCTasks == {t1, t2}
MCConns == {k1, k2, k3}

Alike == Permutations(MCCoachings) \cup Permutations(MCRows) \cup Permutations(MCTasks) \cup Permutations(MCConns)
=============================================================================

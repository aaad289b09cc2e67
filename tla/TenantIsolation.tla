-------------------------- MODULE TenantIsolation --------------------------
(***************************************************************************)
(* How each coaching's rows stay apart from the others': the Prisma        *)
(* extension (database/prisma/tenant-prisma.extension.ts), which rewrites  *)
(* every statement by the tenant in the request context, and PostgreSQL's  *)
(* row-level security (migration 20260923000100), which looks at settings  *)
(* that each transaction puts on its connection.  Statements of the ORM    *)
(* pass both; raw SQL and nested connects slip past the first.  The rows   *)
(* are those of tenant-scoped models with soft deletion.                   *)
(***************************************************************************)
EXTENDS FiniteSets

CONSTANTS
    Coachings,   \* the tenants
    Rows,        \* ids of rows
    Tasks,       \* requests, jobs and event handlers
    Conns,       \* connections of the pool
    System,      \* the scope of runAsSystem
    None         \* no tenant, no connection

ASSUME ScopeAssumption == None \notin Coachings /\ System \notin Coachings /\ System # None
ASSUME ConnAssumption == None \notin Conns

VARIABLES
    enforced,   \* is the database role an ordinary one, subject to row-level security?
    table,      \* the committed rows
    conn,       \* the connection of each task's interactive transaction, or None
    scope,      \* the scope that transaction was begun in
    pending,    \* what it has written
    setting     \* app.current_coaching_id and app.rls_bypass on each connection

tenancyVars == <<enforced, table, conn, scope, pending, setting>>

Scopes == Coachings \cup {System, None}

\* by: on whose behalf the row was written last
Contents == [coaching: Coachings \cup {None}, deleted: BOOLEAN, by: Scopes]
Absent == [coaching |-> None, deleted |-> FALSE, by |-> None]
Untouched == [coaching |-> None, deleted |-> TRUE, by |-> None]

Settings == [tenant: Coachings \cup {None}, bypass: BOOLEAN]
Unset == [tenant |-> None, bypass |-> FALSE]

\* where and data: the coaching that the statement's filter or data names, if any;
\* deleted: it names deletedAt, or is an upsert; slips: raw SQL or a nested connect
Statements == [where: Coachings \cup {None}, data: Coachings \cup {None},
               deleted: BOOLEAN, slips: BOOLEAN]

TenancyTypeOK ==
    /\ enforced \in BOOLEAN
    /\ table \in [Rows -> Contents]
    /\ conn \in [Tasks -> Conns \cup {None}]
    /\ scope \in [Tasks -> Scopes]
    /\ pending \in [Tasks -> [Rows -> Contents]]
    /\ setting \in [Conns -> Settings]

TenancyInit ==
    /\ enforced \in BOOLEAN
    /\ table = [r \in Rows |-> Absent]
    /\ conn = [t \in Tasks |-> None]
    /\ scope = [t \in Tasks |-> None]
    /\ pending = [t \in Tasks |-> [r \in Rows |-> Untouched]]
    /\ setting = [k \in Conns |-> Unset]

-----------------------------------------------------------------------------
(* The context of a statement and the settings of its connection *)

\* Mutant: a query that the callback returns runs when it is awaited, outside
StartedOutside(inner, outer) == outer

\* startInsideContext: Prisma queries are lazy, and runForTenant and runAsSystem
\* start the one their callback returns while still in its scope
StartedIn(inner, outer) == inner

\* tenantTransactionStorage: the statement runs on the transaction's connection
JoinsTransaction(t) == conn[t] # None

Idle(k) == \A t \in Tasks : conn[t] # k

\* rlsSettingStatement; bypass is never switched off
Applied(s, set) ==
    [tenant |-> IF s \in Coachings THEN s ELSE set.tenant,
     bypass |-> s = System \/ set.bypass]

\* Mutant: set_config(..., false) lasts as long as the connection
EndedSession(set) == set

\* set_config(..., true) ends with the transaction
Ended(set) == Unset

-----------------------------------------------------------------------------
(* The two layers *)

\* Without a scope a statement is refused; one of a tenant may name no other coaching
Allowed(s, st) ==
    /\ s # None
    /\ s \in Coachings => st.where \in {None, s} /\ st.data \in {None, s}

\* Raw SQL relies on the second layer: production does not start without it
Passes(s, st) == IF st.slips THEN enforced ELSE Allowed(s, st)

\* The caller's filter, the tenant's, and deletedAt = null unless the caller names it
ScopeWhere(s, st, row) ==
    /\ st.where # None => row.coaching = st.where
    /\ s \in Coachings => row.coaching = s
    /\ ~st.deleted => ~row.deleted

\* The coaching of a new row; the system has to name it
Stamped(s, st) == IF s \in Coachings /\ ~st.slips THEN s ELSE st.data

\* tenant_isolation_policy, which is USING and WITH CHECK alike
Policy(set, row) ==
    /\ row.coaching # None
    /\ enforced => set.bypass \/ row.coaching = set.tenant

\* May a statement in scope s, under these settings, read or change the row?
Matches(s, set, st, row) ==
    /\ Passes(s, st)
    /\ st.slips \/ ScopeWhere(s, st, row)
    /\ Policy(set, row)

\* What a create, or an upsert that finds nothing, may leave
Created(s, set, st, who) ==
    {row \in {[coaching |-> Stamped(s, st), deleted |-> FALSE, by |-> who]} :
        Passes(s, st) /\ Policy(set, row)}

\* What an update may leave; it may set or clear deletedAt
Updated(s, set, st, who, old) ==
    {row \in [coaching: {IF st.data = None THEN old.coaching ELSE st.data},
              deleted: BOOLEAN, by: {who}] :
        Matches(s, set, st, old) /\ Policy(set, row)}

Written(s, set, st, who, old) ==
    IF old = Absent THEN Created(s, set, st, who) ELSE Updated(s, set, st, who, old)

\* A row that another transaction has written is locked
Free(t, r) == \A u \in Tasks \ {t} : pending[u][r] = Untouched

-----------------------------------------------------------------------------
(* Statements on their own: withRls wraps each in a transaction *)

Outer(s) == {s, System}

OnPool(k) == Idle(k) /\ setting' = [setting EXCEPT ![k] = Ended(setting[k])]

Statement(t, k, r) ==
    /\ ~JoinsTransaction(t)
    /\ OnPool(k)
    /\ Free(t, r)
    /\ \E s \in Scopes : \E o \in Outer(s), st \in Statements :
         LET run == StartedIn(s, o)
         IN \E row \in Written(run, Applied(run, setting[k]), st, s, table[r]) :
              table' = [table EXCEPT ![r] = row]
    /\ UNCHANGED <<enforced, conn, scope, pending>>

\* Mutant: delete is not refused in a transaction
DeletesAnywhere(t) == TRUE

\* delete is refused in a transaction, which its update would escape
Deletes(t) == ~JoinsTransaction(t)

\* A delete filters as an update does and names no data
Deletions == [where: Coachings \cup {None}, data: {None}, deleted: BOOLEAN, slips: {FALSE}]

\* Within a transaction's callback withRls adds no settings
DeleteScopes(t) == IF JoinsTransaction(t) THEN {scope[t]} ELSE Scopes
DeleteSetting(t, k, s) == IF JoinsTransaction(t) THEN setting[k] ELSE Applied(s, setting[k])

\* delete and deleteMany: an update of deletedAt on the client without the extension
SoftDelete(t, k, r) ==
    /\ Deletes(t)
    /\ OnPool(k)
    /\ Free(t, r)
    /\ \E s \in DeleteScopes(t), st \in Deletions :
         \E row \in Updated(s, DeleteSetting(t, k, s), st, s, table[r]) :
           row.deleted /\ table' = [table EXCEPT ![r] = row]
    /\ UNCHANGED <<enforced, conn, scope, pending>>

-----------------------------------------------------------------------------
(* Interactive transactions: the settings are made once, on their connection *)

\* One inside another is refused
BeginTransaction(t, k) ==
    /\ conn[t] = None
    /\ Idle(k)
    /\ \E s \in Scopes :
         /\ scope' = [scope EXCEPT ![t] = s]
         /\ setting' = [setting EXCEPT ![k] = Applied(s, @)]
    /\ conn' = [conn EXCEPT ![t] = k]
    /\ UNCHANGED <<enforced, table, pending>>

View(t, r) == IF pending[t][r] = Untouched THEN table[r] ELSE pending[t][r]

StatementWithin(t, r) ==
    /\ JoinsTransaction(t)
    /\ Free(t, r)
    /\ \E st \in Statements :
         \E row \in Written(scope[t], setting[conn[t]], st, scope[t], View(t, r)) :
           pending' = [pending EXCEPT ![t][r] = row]
    /\ UNCHANGED <<enforced, table, conn, scope, setting>>

Finish(t) ==
    /\ conn[t] # None
    /\ setting' = [setting EXCEPT ![conn[t]] = Ended(@)]
    /\ conn' = [conn EXCEPT ![t] = None]
    /\ scope' = [scope EXCEPT ![t] = None]
    /\ pending' = [pending EXCEPT ![t] = [r \in Rows |-> Untouched]]
    /\ UNCHANGED enforced

Commit(t) == Finish(t) /\ table' = [r \in Rows |-> View(t, r)]

Rollback(t) == Finish(t) /\ UNCHANGED table

TenancyNext ==
    \E t \in Tasks :
        \/ \E k \in Conns : BeginTransaction(t, k) \/ \E r \in Rows : Statement(t, k, r) \/ SoftDelete(t, k, r)
        \/ \E r \in Rows : StatementWithin(t, r)
        \/ Commit(t) \/ Rollback(t)

TenancySpec == TenancyInit /\ [][TenancyNext]_tenancyVars

-----------------------------------------------------------------------------
(* Properties *)

\* What somebody in scope s should get to see: rows of their own coaching, and
\* deleted ones only for the asking
Due(s, st, row) ==
    /\ s = System \/ row.coaching = s
    /\ row.deleted => st.slips \/ st.deleted

\* No statement reads another tenant's row, or a deleted one unasked: not with a
\* role that skips row-level security, not when it slips past the extension, not
\* when its query was built in a callback of another scope, and not on a connection
\* that another tenant's transaction has just left.
ReadsStayHome ==
    \A st \in Statements, r \in Rows :
        /\ \A k \in Conns, s \in Scopes : Idle(k) =>
             \A o \in Outer(s) :
               LET run == StartedIn(s, o)
               IN Matches(run, Applied(run, setting[k]), st, table[r]) => Due(s, st, table[r])
        /\ \A t \in Tasks : conn[t] # None =>
             (Matches(scope[t], setting[conn[t]], st, View(t, r)) => Due(scope[t], st, View(t, r)))

\* What is done for a tenant touches rows of that tenant only and leaves them its
\* own, at once or when a transaction commits; nothing is written without a scope.
WritesStayHome ==
    [][\A r \in Rows : LET who == table'[r].by IN
         table'[r] # table[r] =>
           /\ who # None
           /\ who \in Coachings => table[r].coaching \in {None, who} /\ table'[r].coaching = who]_tenancyVars

\* Nothing that is done in an interactive transaction is seen before it commits:
\* while every task is in one, no row changes.
TransactionsAreWhole ==
    [][(\A t \in Tasks : conn[t] # None /\ conn'[t] # None) => table' = table]_tenancyVars
=============================================================================

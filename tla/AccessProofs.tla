---------------------------- MODULE AccessProofs ----------------------------
(***************************************************************************)
(* Proofs about who gets at the records of an institute: WebSessions,      *)
(* TenantIsolation and ClassRecords, each for any values of its constants. *)
(*                                                                         *)
(* Sessions: a token is replayed only after a loss, a sign-out holds, and  *)
(* the cookie of an undisturbed session is its one live token.  Tenants:   *)
(* the inductive invariant says which settings each connection carries,    *)
(* and that what a transaction has written but not committed is its own    *)
(* tenant's, on rows that no other one has written.  Records: a teacher    *)
(* stays in the assigned batches; test, marks and roster stay consistent.  *)
(***************************************************************************)
EXTENDS TenantIsolation, ClassRecords, WebSessions, FiniteSetTheorems, SequenceTheorems, TLAPS

-----------------------------------------------------------------------------
(* TenantIsolation.                                                        *)

\* A connection of the pool carries no settings, one in a transaction its scope's
SettingsFit ==
    /\ \A k \in Conns : Idle(k) => setting[k] = Unset
    /\ \A t \in Tasks : conn[t] # None => setting[conn[t]] = Applied(scope[t], Unset)
    /\ \A t, u \in Tasks : conn[t] = conn[u] /\ conn[t] # None => t = u

\* A write of somebody in scope s over old that leaves row
Home(s, old, row) ==
    /\ row.by = s /\ s # None
    /\ s \in Coachings => old.coaching \in {None, s} /\ row.coaching = s

PendingIsHome ==
    /\ \A t \in Tasks, r \in Rows : pending[t][r] # Untouched =>
         conn[t] # None /\ Home(scope[t], table[r], pending[t][r])
    /\ \A t, u \in Tasks, r \in Rows :
         pending[t][r] # Untouched /\ pending[u][r] # Untouched => t = u

TenancyInv == TenancyTypeOK /\ SettingsFit /\ PendingIsHome

-----------------------------------------------------------------------------
(* The two layers, for a statement under the settings of its own scope *)

\* What a statement can read or change is its own coaching's, unless it is the
\* system's: by the filter if the extension rewrites it, by the policy otherwise
LEMMA MatchesHome ==
    ASSUME NEW s \in Scopes, NEW st \in Statements, NEW row,
           Matches(s, Applied(s, Unset), st, row)
    PROVE  s # None /\ (s = System \/ row.coaching = s) /\ row.coaching # None
  <1>1. CASE st.slips
    BY <1>1, ScopeAssumption DEF Matches, Passes, Policy, Applied, Unset, Scopes
  <1>2. CASE ~st.slips
    BY <1>2, ScopeAssumption DEF Matches, Passes, Policy, Allowed, ScopeWhere, Scopes
  <1>3. QED
    BY <1>1, <1>2

LEMMA CreatedHome ==
    ASSUME NEW s \in Scopes, NEW st \in Statements,
           NEW row \in Created(s, Applied(s, Unset), st, s)
    PROVE  row \in Contents /\ Home(s, Absent, row)
  <1>1. /\ row = [coaching |-> Stamped(s, st), deleted |-> FALSE, by |-> s]
        /\ Passes(s, st) /\ Policy(Applied(s, Unset), row)
    BY DEF Created
  <1>2. row.coaching = Stamped(s, st) /\ row.by = s
    BY <1>1
  <1>3. Stamped(s, st) \in Coachings \cup {None}
    BY DEF Stamped, Statements
  <1>4. CASE st.slips
    <2>1. row.coaching # None /\ (s = System \/ row.coaching = Applied(s, Unset).tenant)
      BY <1>1, <1>4, ScopeAssumption DEF Passes, Policy, Applied, Unset
    <2>2. s = System \/ (s \in Coachings /\ row.coaching = s)
      BY <2>1 DEF Applied, Unset, Scopes
    <2>3. QED
      BY <1>1, <1>2, <1>3, <2>2, ScopeAssumption DEF Home, Absent, Contents
  <1>5. CASE ~st.slips
    <2>1. s # None
      BY <1>1, <1>5 DEF Passes, Allowed
    <2>2. s \in Coachings => row.coaching = s
      BY <1>2, <1>5 DEF Stamped
    <2>3. QED
      BY <1>1, <1>2, <1>3, <2>1, <2>2 DEF Home, Absent, Contents
  <1>6. QED
    BY <1>4, <1>5

LEMMA UpdatedHome ==
    ASSUME NEW s \in Scopes, NEW st \in Statements, NEW old \in Contents,
           NEW row \in Updated(s, Applied(s, Unset), st, s, old)
    PROVE  row \in Contents /\ Home(s, old, row)
  <1>1. /\ row \in [coaching: {IF st.data = None THEN old.coaching ELSE st.data},
                    deleted: BOOLEAN, by: {s}]
        /\ Matches(s, Applied(s, Unset), st, old) /\ Policy(Applied(s, Unset), row)
    BY DEF Updated
  <1>2. /\ row.coaching = IF st.data = None THEN old.coaching ELSE st.data
        /\ row.by = s
    BY <1>1
  <1>3. row \in Contents
    BY <1>1 DEF Contents, Statements
  <1>4. s # None /\ (s = System \/ old.coaching = s)
    BY <1>1, MatchesHome
  <1>5. s \in Coachings => row.coaching = s
    <2>1. CASE st.slips
      BY <1>1, <2>1, ScopeAssumption DEF Matches, Passes, Policy, Applied, Unset
    <2>2. CASE ~st.slips
      BY <1>1, <1>2, <1>4, <2>2, ScopeAssumption DEF Matches, Passes, Allowed
    <2>3. QED
      BY <2>1, <2>2
  <1>6. QED
    BY <1>2, <1>3, <1>4, <1>5, ScopeAssumption DEF Home

LEMMA WrittenHome ==
    ASSUME NEW s \in Scopes, NEW st \in Statements, NEW old \in Contents,
           NEW row \in Written(s, Applied(s, Unset), st, s, old)
    PROVE  row \in Contents /\ Home(s, old, row)
  BY CreatedHome, UpdatedHome DEF Written

LEMMA HomeIsTouched ==
    ASSUME NEW s, NEW old, NEW row, Home(s, old, row)
    PROVE  row # Untouched
  BY DEF Home, Untouched

-----------------------------------------------------------------------------
(* What the steps do *)

\* A row of the table becomes row, by a task that is in no transaction
Puts(t, k, r, s, row) ==
    /\ conn[t] = None /\ Idle(k) /\ Free(t, r)
    /\ row \in Contents /\ Home(s, table[r], row)
    /\ table' = [table EXCEPT ![r] = row]
    /\ setting' = [setting EXCEPT ![k] = Unset]
    /\ UNCHANGED <<enforced, conn, scope, pending>>

LEMMA StatementPuts ==
    ASSUME TenancyInv, NEW t \in Tasks, NEW k \in Conns, NEW r \in Rows, Statement(t, k, r)
    PROVE  \E s \in Scopes, row \in Contents : Puts(t, k, r, s, row)
  <1>1. conn[t] = None /\ Idle(k) /\ Free(t, r)
    BY DEF Statement, JoinsTransaction, OnPool
  <1>2. setting[k] = Unset
    BY <1>1 DEF TenancyInv, SettingsFit
  <1>3. PICK s \in Scopes : \E o \in Outer(s), st \in Statements :
          \E row \in Written(StartedIn(s, o), Applied(StartedIn(s, o), setting[k]), st, s, table[r]) :
            table' = [table EXCEPT ![r] = row]
    BY DEF Statement
  <1>4. PICK st \in Statements : \E row \in Written(s, Applied(s, Unset), st, s, table[r]) :
          table' = [table EXCEPT ![r] = row]
    BY <1>2, <1>3 DEF StartedIn
  <1>5. PICK row \in Written(s, Applied(s, Unset), st, s, table[r]) :
          table' = [table EXCEPT ![r] = row]
    BY <1>4
  <1>6. table[r] \in Contents
    BY DEF TenancyInv, TenancyTypeOK
  <1>7. row \in Contents /\ Home(s, table[r], row)
    BY <1>5, <1>6, WrittenHome
  <1>8. setting' = [setting EXCEPT ![k] = Unset] /\ UNCHANGED <<enforced, conn, scope, pending>>
    BY DEF Statement, OnPool, Ended
  <1>9. QED
    BY <1>1, <1>5, <1>7, <1>8 DEF Puts

LEMMA SoftDeletePuts ==
    ASSUME TenancyInv, NEW t \in Tasks, NEW k \in Conns, NEW r \in Rows, SoftDelete(t, k, r)
    PROVE  \E s \in Scopes, row \in Contents : Puts(t, k, r, s, row)
  <1>1. conn[t] = None /\ Idle(k) /\ Free(t, r)
    BY DEF SoftDelete, Deletes, JoinsTransaction, OnPool
  <1>2. setting[k] = Unset
    BY <1>1 DEF TenancyInv, SettingsFit
  <1>3. DeleteScopes(t) = Scopes /\ \A s \in Scopes : DeleteSetting(t, k, s) = Applied(s, Unset)
    BY <1>1, <1>2 DEF DeleteScopes, DeleteSetting, JoinsTransaction
  <1>4. PICK s \in Scopes, st \in Deletions :
          \E row \in Updated(s, Applied(s, Unset), st, s, table[r]) :
            table' = [table EXCEPT ![r] = row]
    BY <1>3 DEF SoftDelete
  <1>5. PICK row \in Updated(s, Applied(s, Unset), st, s, table[r]) :
          table' = [table EXCEPT ![r] = row]
    BY <1>4
  <1>6. table[r] \in Contents /\ st \in Statements
    BY DEF TenancyInv, TenancyTypeOK, Statements, Deletions
  <1>7. row \in Contents /\ Home(s, table[r], row)
    BY <1>5, <1>6, UpdatedHome
  <1>8. setting' = [setting EXCEPT ![k] = Unset] /\ UNCHANGED <<enforced, conn, scope, pending>>
    BY DEF SoftDelete, OnPool, Ended
  <1>9. QED
    BY <1>1, <1>5, <1>7, <1>8 DEF Puts

LEMMA PutsKeeps ==
    ASSUME TenancyInv, NEW t \in Tasks, NEW k \in Conns, NEW r \in Rows,
           NEW s \in Scopes, NEW row \in Contents, Puts(t, k, r, s, row)
    PROVE  TenancyInv'
  <1>1. TenancyTypeOK'
    BY DEF TenancyInv, TenancyTypeOK, Puts, Settings, Unset
  <1>2. SettingsFit'
    BY DEF TenancyInv, TenancyTypeOK, SettingsFit, Puts, Idle
  <1>3. \A u \in Tasks : pending[u][r] = Untouched
    BY DEF TenancyInv, PendingIsHome, Puts, Free
  <1>4. \A q \in Rows : q # r => table'[q] = table[q]
    BY DEF Puts, TenancyInv, TenancyTypeOK
  <1>5. PendingIsHome'
    BY <1>3, <1>4 DEF TenancyInv, PendingIsHome, Puts, Home
  <1>6. QED
    BY <1>1, <1>2, <1>5 DEF TenancyInv

LEMMA BeginKeeps ==
    ASSUME TenancyInv, NEW t \in Tasks, NEW k \in Conns, BeginTransaction(t, k)
    PROVE  TenancyInv'
  <1>1. PICK s \in Scopes : /\ scope' = [scope EXCEPT ![t] = s]
                            /\ setting' = [setting EXCEPT ![k] = Applied(s, setting[k])]
    BY DEF BeginTransaction
  <1>2. setting[k] = Unset /\ Idle(k) /\ conn[t] = None /\ conn' = [conn EXCEPT ![t] = k]
    BY DEF BeginTransaction, TenancyInv, SettingsFit
  <1>3. Applied(s, Unset) \in Settings
    BY DEF Applied, Settings, Unset
  <1>4. TenancyTypeOK'
    BY <1>1, <1>2, <1>3 DEF TenancyInv, TenancyTypeOK, BeginTransaction
  <1>5. SettingsFit'
    BY <1>1, <1>2, ConnAssumption DEF TenancyInv, TenancyTypeOK, SettingsFit, Idle
  <1>6. PendingIsHome'
    <2>1. \A r \in Rows : pending[t][r] = Untouched
      BY <1>2 DEF TenancyInv, PendingIsHome
    <2>2. QED
      BY <1>1, <1>2, <2>1 DEF TenancyInv, TenancyTypeOK, PendingIsHome, Home, BeginTransaction
  <1>7. QED
    BY <1>4, <1>5, <1>6 DEF TenancyInv

LEMMA StatementWithinKeeps ==
    ASSUME TenancyInv, NEW t \in Tasks, NEW r \in Rows, StatementWithin(t, r)
    PROVE  TenancyInv'
  <1>1. conn[t] # None /\ Free(t, r) /\ UNCHANGED <<enforced, table, conn, scope, setting>>
    BY DEF StatementWithin, JoinsTransaction
  <1>2. scope[t] \in Scopes /\ setting[conn[t]] = Applied(scope[t], Unset) /\ View(t, r) \in Contents
    BY <1>1 DEF TenancyInv, TenancyTypeOK, SettingsFit, View
  <1>3. PICK st \in Statements : \E w \in Written(scope[t], Applied(scope[t], Unset), st, scope[t], View(t, r)) :
          pending' = [pending EXCEPT ![t][r] = w]
    BY <1>2 DEF StatementWithin
  <1>4. PICK row \in Written(scope[t], Applied(scope[t], Unset), st, scope[t], View(t, r)) :
          pending' = [pending EXCEPT ![t][r] = row]
    BY <1>3
  <1>5. row \in Contents /\ Home(scope[t], View(t, r), row)
    BY <1>2, <1>4, WrittenHome
  <1>6. Home(scope[t], table[r], row)
    BY <1>5 DEF View, TenancyInv, PendingIsHome, Home
  <1>7. TenancyTypeOK'
    BY <1>1, <1>4, <1>5 DEF TenancyInv, TenancyTypeOK
  <1>8. SettingsFit'
    BY <1>1 DEF TenancyInv, SettingsFit, Idle
  <1>9. \A u \in Tasks, q \in Rows :
          pending'[u][q] = IF u = t /\ q = r THEN row ELSE pending[u][q]
    BY <1>4 DEF TenancyInv, TenancyTypeOK
  <1>10. PendingIsHome'
    BY <1>1, <1>6, <1>9 DEF TenancyInv, PendingIsHome, Free, Home
  <1>11. QED
    BY <1>7, <1>8, <1>10 DEF TenancyInv

LEMMA FinishKeeps ==
    ASSUME TenancyInv, NEW t \in Tasks, Commit(t) \/ Rollback(t)
    PROVE  TenancyInv'
  <1>1. Finish(t) /\ conn[t] # None /\ conn[t] \in Conns
    BY DEF Commit, Rollback, Finish, TenancyInv, TenancyTypeOK
  <1>2. \A r \in Rows : table'[r] = table[r] \/ (pending[t][r] # Untouched /\ table'[r] = pending[t][r])
    BY DEF Commit, Rollback, View
  <1>3. TenancyTypeOK'
    <2>1. table' \in [Rows -> Contents]
      BY DEF Commit, Rollback, View, TenancyInv, TenancyTypeOK
    <2>2. Untouched \in Contents /\ Unset \in Settings /\ None \in Scopes
      BY DEF Untouched, Contents, Unset, Settings, Scopes
    <2>3. QED
      BY <1>1, <2>1, <2>2 DEF TenancyInv, TenancyTypeOK, Finish, Ended
  <1>4. SettingsFit'
    BY <1>1, ConnAssumption DEF TenancyInv, TenancyTypeOK, SettingsFit, Finish, Ended, Idle
  <1>5. \A u \in Tasks, r \in Rows :
          pending'[u][r] = IF u = t THEN Untouched ELSE pending[u][r]
    BY <1>1 DEF Finish, TenancyInv, TenancyTypeOK
  <1>6. PendingIsHome'
    <2>1. \A u \in Tasks, r \in Rows : pending'[u][r] # Untouched =>
            u # t /\ pending'[u][r] = pending[u][r] /\ table'[r] = table[r]
              /\ conn'[u] = conn[u] /\ scope'[u] = scope[u]
      BY <1>1, <1>2, <1>5 DEF TenancyInv, TenancyTypeOK, PendingIsHome, Finish
    <2>2. QED
      BY <2>1 DEF TenancyInv, PendingIsHome, Home
  <1>7. QED
    BY <1>3, <1>4, <1>6 DEF TenancyInv

LEMMA InvInit == TenancyInit => TenancyInv
  <1> SUFFICES ASSUME TenancyInit PROVE TenancyInv
    OBVIOUS
  <1>1. Absent \in Contents /\ Untouched \in Contents /\ Unset \in Settings /\ None \in Scopes
    BY DEF Absent, Untouched, Contents, Unset, Settings, Scopes
  <1>2. TenancyTypeOK
    BY <1>1 DEF TenancyInit, TenancyTypeOK
  <1>3. QED
    BY <1>2 DEF TenancyInit, TenancyInv, SettingsFit, PendingIsHome

LEMMA InvNext == TenancyInv /\ [TenancyNext]_tenancyVars => TenancyInv'
  <1> SUFFICES ASSUME TenancyInv, [TenancyNext]_tenancyVars PROVE TenancyInv'
    OBVIOUS
  <1>1. ASSUME NEW t \in Tasks, NEW k \in Conns, BeginTransaction(t, k) PROVE TenancyInv'
    BY <1>1, BeginKeeps
  <1>2. ASSUME NEW t \in Tasks, NEW k \in Conns, NEW r \in Rows, Statement(t, k, r) PROVE TenancyInv'
    BY <1>2, StatementPuts, PutsKeeps
  <1>3. ASSUME NEW t \in Tasks, NEW k \in Conns, NEW r \in Rows, SoftDelete(t, k, r) PROVE TenancyInv'
    BY <1>3, SoftDeletePuts, PutsKeeps
  <1>4. ASSUME NEW t \in Tasks, NEW r \in Rows, StatementWithin(t, r) PROVE TenancyInv'
    BY <1>4, StatementWithinKeeps
  <1>5. ASSUME NEW t \in Tasks, Commit(t) \/ Rollback(t) PROVE TenancyInv'
    BY <1>5, FinishKeeps
  <1>6. CASE UNCHANGED tenancyVars
    BY <1>6 DEF tenancyVars, TenancyInv, TenancyTypeOK, SettingsFit, PendingIsHome, Home, Idle
  <1>7. QED
    BY <1>1, <1>2, <1>3, <1>4, <1>5, <1>6 DEF TenancyNext

\* Types, for every number of tenants, rows, tasks and connections
THEOREM TenancyIsTyped == TenancySpec => []TenancyTypeOK
  <1>1. TenancyInv => TenancyTypeOK
    BY DEF TenancyInv
  <1>2. QED
    BY <1>1, InvInit, InvNext, PTL DEF TenancySpec

-----------------------------------------------------------------------------
(* The properties *)

LEMMA MatchesDue ==
    ASSUME NEW s \in Scopes, NEW st \in Statements, NEW row \in Contents,
           Matches(s, Applied(s, Unset), st, row)
    PROVE  Due(s, st, row)
  <1>1. s = System \/ row.coaching = s
    BY MatchesHome
  <1>2. row.deleted => st.slips \/ st.deleted
    BY DEF Matches, ScopeWhere
  <1>3. QED
    BY <1>1, <1>2 DEF Due

LEMMA InvReads == TenancyInv => ReadsStayHome
  <1> SUFFICES ASSUME TenancyInv, NEW st \in Statements, NEW r \in Rows
               PROVE  /\ \A k \in Conns, s \in Scopes : Idle(k) =>
                           \A o \in Outer(s) :
                             Matches(s, Applied(s, setting[k]), st, table[r]) => Due(s, st, table[r])
                      /\ \A t \in Tasks : conn[t] # None =>
                           (Matches(scope[t], setting[conn[t]], st, View(t, r))
                              => Due(scope[t], st, View(t, r)))
    BY DEF ReadsStayHome, StartedIn
  <1>1. table[r] \in Contents /\ \A t \in Tasks : View(t, r) \in Contents /\ scope[t] \in Scopes
    BY DEF TenancyInv, TenancyTypeOK, View
  <1>2. ASSUME NEW k \in Conns, NEW s \in Scopes, Idle(k), Matches(s, Applied(s, setting[k]), st, table[r])
        PROVE  Due(s, st, table[r])
    <2>1. setting[k] = Unset
      BY <1>2 DEF TenancyInv, SettingsFit
    <2>2. QED
      BY <1>1, <1>2, <2>1, MatchesDue
  <1>3. ASSUME NEW t \in Tasks, conn[t] # None, Matches(scope[t], setting[conn[t]], st, View(t, r))
        PROVE  Due(scope[t], st, View(t, r))
    <2>1. setting[conn[t]] = Applied(scope[t], Unset)
      BY <1>3 DEF TenancyInv, SettingsFit
    <2>2. QED
      BY <1>1, <1>3, <2>1, MatchesDue
  <1>4. QED
    BY <1>2, <1>3

\* No statement, rewritten or raw, in a transaction or on its own, reads a row of
\* another coaching than its scope's, or a deleted row unasked.
THEOREM ReadsHome == TenancySpec => []ReadsStayHome
  BY InvInit, InvNext, InvReads, PTL DEF TenancySpec

\* What one row may become
RowStep(r) ==
    table'[r] # table[r] =>
      /\ table'[r].by # None
      /\ table'[r].by \in Coachings =>
           table[r].coaching \in {None, table'[r].by} /\ table'[r].coaching = table'[r].by

LEMMA HomeRowStep ==
    ASSUME NEW s \in Scopes, NEW r \in Rows, Home(s, table[r], table'[r])
    PROVE  RowStep(r)
  BY DEF Home, RowStep

LEMMA NextRowStep ==
    ASSUME TenancyInv, [TenancyNext]_tenancyVars, NEW r \in Rows
    PROVE  RowStep(r)
  <1>1. ASSUME NEW t \in Tasks, NEW k \in Conns, NEW q \in Rows,
               NEW s \in Scopes, NEW row \in Contents, Puts(t, k, q, s, row)
        PROVE  RowStep(r)
    <2>1. table'[r] = table[r] \/ (r = q /\ table'[r] = row /\ Home(s, table[r], row))
      BY <1>1 DEF Puts, TenancyInv, TenancyTypeOK
    <2>2. QED
      BY <2>1, HomeRowStep DEF RowStep
  <1>2. ASSUME NEW t \in Tasks, Commit(t) PROVE RowStep(r)
    <2>1. table'[r] = table[r]
            \/ (scope[t] \in Scopes /\ Home(scope[t], table[r], table'[r]))
      BY <1>2 DEF Commit, View, TenancyInv, TenancyTypeOK, PendingIsHome
    <2>2. QED
      BY <2>1, HomeRowStep DEF RowStep
  <1>3. CASE UNCHANGED table
    BY <1>3 DEF RowStep
  <1>4. QED
    BY <1>1, <1>2, <1>3, StatementPuts, SoftDeletePuts
       DEF TenancyNext, BeginTransaction, StatementWithin, Rollback, tenancyVars

\* What is done for a coaching changes rows of that coaching only, which remain its
\* own, whichever of the two layers stands alone.
THEOREM WritesHome == TenancySpec => WritesStayHome
  <1>1. TenancyInv /\ [TenancyNext]_tenancyVars => \A r \in Rows : RowStep(r)
    BY NextRowStep
  <1>2. (\A r \in Rows : RowStep(r)) =>
          \A r \in Rows : LET who == table'[r].by IN
            table'[r] # table[r] =>
              /\ who # None
              /\ who \in Coachings => table[r].coaching \in {None, who} /\ table'[r].coaching = who
    BY DEF RowStep
  <1>3. QED
    BY <1>1, <1>2, InvInit, InvNext, PTL DEF TenancySpec, WritesStayHome

\* While all tasks are in interactive transactions no row changes: no statement of a
\* transaction takes effect outside it.
THEOREM Whole == TenancySpec => TransactionsAreWhole
  <1>1. TenancyInv /\ [TenancyNext]_tenancyVars =>
          ((\A t \in Tasks : conn[t] # None /\ conn'[t] # None) => table' = table)
    <2> SUFFICES ASSUME TenancyInv, [TenancyNext]_tenancyVars, \A t \in Tasks : conn[t] # None /\ conn'[t] # None
                 PROVE  table' = table
      OBVIOUS
    <2>1. ASSUME NEW t \in Tasks, Commit(t) PROVE FALSE
      <3>1. conn'[t] = None
        BY <2>1 DEF Commit, Finish, TenancyInv, TenancyTypeOK
      <3>2. QED
        BY <3>1
    <2>2. QED
      BY <2>1 DEF TenancyNext, tenancyVars, BeginTransaction, Statement, SoftDelete, Deletes, JoinsTransaction,
                  StatementWithin, Rollback
  <1>2. QED
    BY <1>1, InvInit, InvNext, PTL DEF TenancySpec, TransactionsAreWhole

-----------------------------------------------------------------------------
(* ClassRecords.                                                           *)

NoOpType == NoOp.kind = "none" /\ NoOp.by = "nobody"

LEMMA NoOpIsNone == NoOpType
  BY DEF NoOp, NoOpType

\* What every step of request r does to the requests
LEMMA GoTypes ==
    ASSUME TypeOK, NEW r \in Requests, NEW where \in Places,
           NEW h \in [row : Nat, to : Nat, role : BOOLEAN], GoWith(r, where, h)
    PROVE  /\ pc' \in [Requests -> Places] /\ op' \in [Requests -> Operations \cup {NoOp}]
           /\ held' \in [Requests -> [row : Nat, to : Nat, role : BOOLEAN]]
  <1>1. Nothing \in [row : Nat, to : Nat, role : BOOLEAN]
    BY DEF Nothing
  <1>2. QED
    BY <1>1 DEF TypeOK, GoWith

LEMMA WitnessTypes ==
    ASSUME TypeOK, Witness, teacherActive' \in BOOLEAN
    PROVE  entitled' \in [Requests -> BOOLEAN]
  BY DEF TypeOK, Witness

LEMMA RowsAreSequences ==
    ASSUME TypeOK, NEW s \in Students, NEW b \in Batches
    PROVE  /\ rows[s][b] \in Seq(BOOLEAN)
           /\ \A i \in Nat : Put(s, b, i) \in Seq(BOOLEAN) /\ Closed(s, b, i) \in Seq(BOOLEAN)
           /\ [i \in DOMAIN rows[s][b] |-> FALSE] \in Seq(BOOLEAN)
  <1>1. rows[s][b] \in Seq(BOOLEAN)
    BY DEF TypeOK
  <1>2. PICK n \in Nat : rows[s][b] \in [1..n -> BOOLEAN]
    BY <1>1, SeqDef
  <1>3. \A f \in [1..n -> BOOLEAN] : f \in Seq(BOOLEAN)
    BY <1>2, SeqDef
  <1>4. [i \in DOMAIN rows[s][b] |-> FALSE] \in Seq(BOOLEAN)
    BY <1>2, <1>3
  <1>5. ASSUME NEW i \in Nat
        PROVE  Put(s, b, i) \in Seq(BOOLEAN) /\ Closed(s, b, i) \in Seq(BOOLEAN)
    <2>1. [rows[s][b] EXCEPT ![i] = TRUE] \in [1..n -> BOOLEAN]
      BY <1>2
    <2>2. [rows[s][b] EXCEPT ![i] = FALSE] \in [1..n -> BOOLEAN]
      BY <1>2
    <2>3. Append(rows[s][b], TRUE) \in Seq(BOOLEAN)
      BY <1>1
    <2>4. QED
      BY <1>1, <1>3, <2>1, <2>2, <2>3 DEF Put, Closed
  <1>6. QED
    BY <1>1, <1>4, <1>5

-----------------------------------------------------------------------------
(* Types *)

\* A step of r that leaves the records and the access of the teacher alone
LEMMA MovesTyped ==
    ASSUME TypeOK, NEW r \in Requests, NEW where \in Places,
           NEW h \in [row : Nat, to : Nat, role : BOOLEAN], GoWith(r, where, h),
           Rest(<<records, access>>)
    PROVE  TypeOK'
  <1>1. UNCHANGED <<liveBatches, rows, test, marks, teacherActive, teaches, cached, clashed>> /\ Witness
    BY DEF Rest, records, access
  <1>2. QED
    BY <1>1, GoTypes, WitnessTypes DEF TypeOK

\* The operation of a request under way
LEMMA OpTyped ==
    ASSUME TypeOK, NEW r \in Requests, op[r].kind # "none"
    PROVE  op[r] \in Operations
  BY NoOpIsNone DEF TypeOK, NoOpType

LEMMA HeldTyped ==
    ASSUME TypeOK, NEW r \in Requests
    PROVE  held[r] \in [row : Nat, to : Nat, role : BOOLEAN]
  BY DEF TypeOK

LEMMA AdmitTyped ==
    ASSUME TypeOK, NEW r \in Requests, Admit(r)
    PROVE  TypeOK'
  <1>1. held[r] \in [row : Nat, to : Nat, role : BOOLEAN]
    BY HeldTyped
  <1>2. CASE ReadCache(r)
    BY <1>1, <1>2, MovesTyped DEF ReadCache, Go, Places
  <1>3. CASE LoadAccess(r)
    <2>1. Role(teacherActive) \in [row : Nat, to : Nat, role : BOOLEAN]
      BY DEF TypeOK, Role
    <2>2. QED
      BY <1>3, <2>1, MovesTyped DEF LoadAccess, Places
  <1>4. CASE FillCache(r)
    <2>1. UNCHANGED <<liveBatches, rows, test, marks, teacherActive, teaches, clashed>> /\ Witness
      BY <1>4 DEF FillCache, Rest, records
    <2>2. cached' \in {"none", "teacher", "nobody"}
      BY <1>4 DEF FillCache, TypeOK
    <2>3. Nothing \in [row : Nat, to : Nat, role : BOOLEAN]
      BY DEF Nothing
    <2>4. QED
      BY <1>4, <2>1, <2>2, <2>3, GoTypes, WitnessTypes DEF TypeOK, FillCache, Places
  <1>5. CASE Guard(r)
    BY <1>1, <1>5, MovesTyped DEF Guard, Go, Places
  <1>6. QED
    BY <1>2, <1>3, <1>4, <1>5 DEF Admit

LEMMA StaffTyped ==
    ASSUME TypeOK, NEW r \in Requests, Staff(r)
    PROVE  TypeOK'
  <1>1. held[r] \in [row : Nat, to : Nat, role : BOOLEAN]
    BY HeldTyped
  <1>2. CASE AssignTeacher(r)
    <2>1. UNCHANGED <<liveBatches, rows, test, marks, teacherActive, cached, clashed>> /\ Witness
      BY <1>2 DEF AssignTeacher, Rest, records
    <2>2. teaches' \subseteq Batches
      BY <1>2, OpTyped, OperationsAssumption DEF AssignTeacher, Does, TypeOK
    <2>3. QED
      BY <1>1, <1>2, <2>1, <2>2, GoTypes, WitnessTypes DEF TypeOK, AssignTeacher, Go, Places
  <1>3. CASE RemoveTeacher(r)
    <2>1. UNCHANGED <<liveBatches, rows, test, marks, teacherActive, cached, clashed>> /\ Witness
      BY <1>3 DEF RemoveTeacher, Rest, records
    <2>2. teaches' \subseteq Batches
      BY <1>3 DEF RemoveTeacher, TypeOK
    <2>3. QED
      BY <1>1, <1>3, <2>1, <2>2, GoTypes, WitnessTypes DEF TypeOK, RemoveTeacher, Go, Places
  <1>4. CASE SetActive(r)
    <2>1. UNCHANGED <<liveBatches, rows, test, marks, teaches, cached, clashed>> /\ Witness
      BY <1>4 DEF SetActive, Rest, records
    <2>2. teacherActive' \in BOOLEAN
      BY <1>4, OpTyped, OperationsAssumption DEF SetActive, Does
    <2>3. QED
      BY <1>1, <1>4, <2>1, <2>2, GoTypes, WitnessTypes DEF TypeOK, SetActive, Go, Places
  <1>5. CASE Invalidate(r)
    <2>1. UNCHANGED <<liveBatches, rows, test, marks, teacherActive, teaches, clashed>> /\ Witness
      BY <1>5 DEF Invalidate, Rest, records
    <2>2. cached' \in {"none", "teacher", "nobody"}
      BY <1>5 DEF Invalidate, TypeOK
    <2>3. QED
      BY <1>1, <1>5, <2>1, <2>2, GoTypes, WitnessTypes DEF TypeOK, Invalidate, Go, Places
  <1>6. QED
    BY <1>2, <1>3, <1>4, <1>5 DEF Staff

LEMMA RosterReadsTyped ==
    ASSUME TypeOK, NEW r \in Requests,
           \/ FindBatch(r) \/ FindRow(r) \/ FindTarget(r) \/ FindOpenRow(r) \/ Leave(r)
           \/ FindTargetRow(r) \/ Deadlocked(r) \/ FindEmpty(r) \/ FindTest(r)
    PROVE  TypeOK'
  <1>1. held[r] \in [row : Nat, to : Nat, role : BOOLEAN]
    BY HeldTyped
  <1>2. \A i \in Nat : /\ Found(i, 0) \in [row : Nat, to : Nat, role : BOOLEAN]
                       /\ Found(held[r].row, i) \in [row : Nat, to : Nat, role : BOOLEAN]
    BY <1>1 DEF Found
  <1>3. ASSUME NEW s \in Students, NEW b \in Batches
        PROVE  Seen(RowOf(s, b)) \subseteq Nat /\ Seen(ActiveRow(s, b)) \subseteq Nat
    <2>0. rows[s][b] \in Seq(BOOLEAN)
      BY RowsAreSequences
    <2>1. PICK n \in Nat : rows[s][b] \in [1..n -> BOOLEAN]
      BY <2>0, SeqDef
    <2>2. RowOf(s, b) = 1..n /\ ActiveRow(s, b) \subseteq 1..n
      BY <2>1 DEF RowOf, ActiveRow
    <2>3. QED
      BY <2>1, <2>2 DEF Seen
  <1>4. CASE FindBatch(r)
    <2>1. op[r].batch \in liveBatches => AfterBatch[op[r].kind] \in Places
      BY <1>4 DEF FindBatch, AfterBatch, Places
    <2>2. QED
      BY <1>1, <1>4, <2>1, MovesTyped DEF FindBatch, Go, Places
  <1>5. CASE FindRow(r)
    <2>1. op[r].student \in Students /\ op[r].batch \in Batches
      BY <1>5, OpTyped, OperationsAssumption DEF FindRow, Does
    <2>2. QED
      BY <1>2, <1>3, <1>5, <2>1, MovesTyped DEF FindRow, OwnRows, Places
  <1>6. CASE FindTarget(r)
    BY <1>1, <1>6, MovesTyped DEF FindTarget, Go, Places
  <1>7. CASE FindOpenRow(r)
    <2>1. op[r].student \in Students /\ op[r].batch \in Batches
      BY <1>7, OpTyped, OperationsAssumption DEF FindOpenRow, Does
    <2>2. QED
      BY <1>2, <1>3, <1>7, <2>1, MovesTyped DEF FindOpenRow, Places
  <1>8. CASE Leave(r)
    BY <1>1, <1>8, MovesTyped DEF Leave, Go, Places
  <1>9. CASE FindTargetRow(r)
    <2>1. op[r].student \in Students /\ op[r].to \in Batches
      BY <1>9, OpTyped, OperationsAssumption DEF FindTargetRow, Does
    <2>2. QED
      BY <1>2, <1>3, <1>9, <2>1, MovesTyped DEF FindTargetRow, Places
  <1>10. CASE Deadlocked(r)
    BY <1>1, <1>10, MovesTyped DEF Deadlocked, Go, Places
  <1>11. CASE FindEmpty(r)
    BY <1>1, <1>11, MovesTyped DEF FindEmpty, Go, Places
  <1>12. CASE FindTest(r)
    BY <1>1, <1>12, MovesTyped DEF FindTest, Go, Places
  <1>13. QED
    BY <1>4, <1>5, <1>6, <1>7, <1>8, <1>9, <1>10, <1>11, <1>12

LEMMA RosterWritesTyped ==
    ASSUME TypeOK, NEW r \in Requests,
           Enroll(r) \/ Withdraw(r) \/ Arrive(r) \/ DeleteBatch(r)
    PROVE  TypeOK'
  <1>1. held[r] \in [row : Nat, to : Nat, role : BOOLEAN]
    BY HeldTyped
  <1>2. Go(r, "done") /\ UNCHANGED <<test, marks, teacherActive, teaches, cached, clashed>> /\ Witness
    BY DEF Enroll, Withdraw, Arrive, DeleteBatch, Rest, access
  <1>3. CASE Enroll(r) \/ Withdraw(r)
    <2>1. op[r].student \in Students /\ op[r].batch \in Batches
      BY <1>3, OpTyped, OperationsAssumption DEF Enroll, Withdraw, Does
    <2>2. UNCHANGED liveBatches
      BY <1>3 DEF Enroll, Withdraw, Rest
    <2>3. \E q \in Seq(BOOLEAN) : rows' = [rows EXCEPT ![op[r].student][op[r].batch] = q]
      BY <1>1, <1>3, <2>1, RowsAreSequences DEF Enroll, Withdraw
    <2>4. rows' \in [Students -> [Batches -> Seq(BOOLEAN)]]
      BY <2>1, <2>3 DEF TypeOK
    <2>5. QED
      BY <1>1, <1>2, <2>2, <2>4, GoTypes, WitnessTypes DEF TypeOK, Go, Places
  <1>4. CASE Arrive(r)
    <2>1. op[r].student \in Students /\ op[r].batch \in Batches /\ op[r].to \in Batches
      BY <1>4, OpTyped, OperationsAssumption DEF Arrive, Does
    <2>2. UNCHANGED liveBatches
      BY <1>4 DEF Arrive, Rest
    <2>3. \E q, p \in Seq(BOOLEAN) :
            rows' = [rows EXCEPT ![op[r].student][op[r].batch] = q,
                                 ![op[r].student][op[r].to] = p]
      BY <1>1, <1>4, <2>1, RowsAreSequences DEF Arrive
    <2>4. PICK q \in Seq(BOOLEAN), p \in Seq(BOOLEAN) :
            rows' = [rows EXCEPT ![op[r].student][op[r].batch] = q,
                                 ![op[r].student][op[r].to] = p]
      BY <2>3
    <2>5. [rows EXCEPT ![op[r].student][op[r].batch] = q]
            \in [Students -> [Batches -> Seq(BOOLEAN)]]
      BY <2>1 DEF TypeOK
    <2>6. rows' = [[rows EXCEPT ![op[r].student][op[r].batch] = q]
                     EXCEPT ![op[r].student][op[r].to] = p]
      BY <2>4
    <2>7. rows' \in [Students -> [Batches -> Seq(BOOLEAN)]]
      BY <2>1, <2>5, <2>6
    <2>8. QED
      BY <1>1, <1>2, <2>2, <2>7, GoTypes, WitnessTypes DEF TypeOK, Go, Places
  <1>5. CASE DeleteBatch(r)
    <2>1. liveBatches' \subseteq Batches /\ UNCHANGED rows
      BY <1>5 DEF DeleteBatch, Rest, TypeOK
    <2>2. QED
      BY <1>1, <1>2, <2>1, GoTypes, WitnessTypes DEF TypeOK, Go, Places
  <1>6. QED
    BY <1>3, <1>4, <1>5

TestRow == [state : {"absent", "live", "deleted"}, total : Nat, pass : Nat]

LEMMA ChangedTyped ==
    ASSUME TypeOK, NEW o \in Operations, o.kind = "update"
    PROVE  /\ Changed(o.change) \in TestRow
           /\ Changed(o.change).state = test.state
  <1>1. test \in TestRow /\ DOMAIN test = {"state", "total", "pass"}
    BY DEF TypeOK, TestRow
  <1>2. DOMAIN o.change \subseteq {"total", "pass"}
    BY OperationsAssumption
  <1>3. \A f \in DOMAIN o.change : o.change[f] \in Nat
    <2>1. \A f \in DOMAIN o.change : o.change[f] \in Totals \cup {0}
      BY OperationsAssumption
    <2>2. \A n \in Totals \cup {0} : n \in Nat
      BY TotalsAssumption
    <2>3. QED
      BY <2>1, <2>2
  <1>4. Changed(o.change).state = test.state
    BY <1>1, <1>2 DEF Changed
  <1>5. Changed(o.change).total \in Nat /\ Changed(o.change).pass \in Nat
    BY <1>1, <1>3 DEF Changed, TestRow
  <1>6. Changed(o.change) = [state |-> test.state, total |-> Changed(o.change).total,
                             pass |-> Changed(o.change).pass]
    BY <1>1, <1>4 DEF Changed
  <1>7. QED
    BY <1>1, <1>4, <1>5, <1>6 DEF TestRow

LEMMA TestWritesTyped ==
    ASSUME TypeOK, NEW r \in Requests,
           CreateTest(r) \/ UpdateTest(r) \/ UploadMarks(r) \/ DeleteTest(r)
    PROVE  TypeOK'
  <1>1. held[r] \in [row : Nat, to : Nat, role : BOOLEAN]
    BY HeldTyped
  <1>2. /\ Go(r, "done") /\ UNCHANGED <<liveBatches, rows, teacherActive, teaches, cached, clashed>> /\ Witness
    BY DEF CreateTest, UpdateTest, UploadMarks, DeleteTest, Rest, access
  <1>3. op[r] \in Operations
    BY OpTyped DEF CreateTest, UpdateTest, UploadMarks, DeleteTest, Does
  <1>4. test' \in TestRow
    <2>1. CASE CreateTest(r)
      <3>1. op[r].total \in Totals \cup {0} /\ op[r].pass \in Totals \cup {0}
        BY <1>3, <2>1, OperationsAssumption DEF CreateTest, Does
      <3>2. \A n \in Totals \cup {0} : n \in Nat
        BY TotalsAssumption
      <3>3. op[r].total \in Nat /\ op[r].pass \in Nat
        BY <3>1, <3>2
      <3>4. QED
        BY <2>1, <3>3 DEF CreateTest, TypeOK, TestRow
    <2>2. CASE UpdateTest(r)
      BY <1>3, <2>2, ChangedTyped DEF UpdateTest, Does, TypeOK, TestRow
    <2>3. CASE UploadMarks(r)
      BY <2>3 DEF UploadMarks, Rest, TypeOK, TestRow
    <2>4. CASE DeleteTest(r)
      BY <2>4 DEF DeleteTest, TypeOK, TestRow
    <2>5. QED
      BY <2>1, <2>2, <2>3, <2>4
  <1>5. DOMAIN marks' \subseteq Students /\ marks' \in [DOMAIN marks' -> Nat]
    <2>1. CASE UploadMarks(r)
      <3>1. op[r].student \in Students /\ op[r].mark \in Nat
        BY <1>3, <2>1, OperationsAssumption DEF UploadMarks, Does
      <3>2. marks' \in [DOMAIN marks \cup {op[r].student} -> Nat]
        BY <2>1, <3>1 DEF UploadMarks, TypeOK
      <3>3. QED
        BY <3>1, <3>2 DEF TypeOK
    <2>2. CASE ~UploadMarks(r)
      BY <2>2 DEF CreateTest, UpdateTest, DeleteTest, Rest, TypeOK
    <2>3. QED
      BY <2>1, <2>2
  <1>6. QED
    BY <1>1, <1>2, <1>4, <1>5, GoTypes, WitnessTypes DEF TypeOK, TestRow, Go, Places

\* A step keeps the types
LEMMA TypesKept ==
    ASSUME TypeOK, [Next]_vars
    PROVE  TypeOK'
  <1>1. CASE UNCHANGED vars
    BY <1>1 DEF vars, records, access, handlers, TypeOK
  <1>2. ASSUME NEW r \in Requests, NEW o \in Operations, Begin(r, o)
        PROVE  TypeOK'
    <2>1. UNCHANGED <<liveBatches, rows, test, marks, teacherActive, teaches, cached, held>> /\ Witness
      BY <1>2 DEF Begin, records, access
    <2>2. /\ pc' \in [Requests -> Places] /\ op' \in [Requests -> Operations \cup {NoOp}]
          /\ clashed' \subseteq {"roster", "test", "staff"}
      BY <1>2 DEF Begin, TypeOK, Group, Places
    <2>3. QED
      BY <2>1, <2>2, WitnessTypes DEF TypeOK
  <1>3. CASE CacheExpires
    <2>1. UNCHANGED <<liveBatches, rows, test, marks, teacherActive, teaches, pc, op, held, clashed>> /\ Witness
      BY <1>3 DEF CacheExpires, Rest, records, handlers
    <2>2. QED
      BY <1>3, <2>1, WitnessTypes DEF CacheExpires, TypeOK
  <1>4. ASSUME NEW r \in Requests, Handle(r)
        PROVE  TypeOK'
    BY <1>4, AdmitTyped, StaffTyped, RosterReadsTyped, RosterWritesTyped, TestWritesTyped
       DEF Handle, Roster, Transfer, Testing
  <1>5. QED
    BY <1>1, <1>2, <1>3, <1>4 DEF Next

LEMMA TypesStart == Init => TypeOK
  <1>1. <<>> \in Seq(BOOLEAN) /\ <<TRUE>> \in Seq(BOOLEAN)
    OBVIOUS
  <1>2. ASSUME Init
        PROVE  TypeOK
    <2>1. rows \in [Students -> [Batches -> Seq(BOOLEAN)]]
      BY <1>1, <1>2 DEF Init
    <2>2. Nothing \in [row : Nat, to : Nat, role : BOOLEAN]
      BY DEF Nothing
    <2>3. QED
      BY <1>2, <2>1, <2>2, TestBatchAssumption DEF Init, TypeOK, NoTest, Places
  <1>3. QED
    BY <1>2

(* Rows, access and requests keep their types, for any institute.           *)
THEOREM RecordsAreTyped == Spec => []TypeOK
  BY TypesStart, TypesKept, PTL DEF Spec

-----------------------------------------------------------------------------
(* The teacher *)

\* A teacher's request that is past the guard was entitled at that moment
PastTheGuard ==
    \A r \in Requests : op[r].by = "teacher" /\ pc[r] \notin
                          {"idle", "lookup", "load", "fill", "guard", "done"} => entitled[r]

\* Only a request that is past the guard writes, and it moves when it does
LEMMA WritersArePastTheGuard ==
    ASSUME TypeOK, [Next]_vars, <<test, marks>>' # <<test, marks>>,
           NEW r \in Requests, pc'[r] # pc[r]
    PROVE  pc[r] \in {"find", "write"}
  <1>1. \A q \in Requests : ~Admit(q) /\ ~Staff(q) /\ ~Roster(q)
    <2>1. \A q \in Requests : ~Admit(q)
      BY DEF Admit, ReadCache, LoadAccess, FillCache, Guard, Rest, records
    <2>2. \A q \in Requests : ~Staff(q)
      BY DEF Staff, AssignTeacher, RemoveTeacher, SetActive, Invalidate, Rest, records
    <2>3. \A q \in Requests : ~Roster(q)
      BY DEF Roster, Transfer, FindBatch, FindRow, Enroll, Withdraw, FindTarget, FindOpenRow,
             Leave, FindTargetRow, Arrive, Deadlocked, FindEmpty, DeleteBatch, Rest, records
    <2>4. QED
      BY <2>1, <2>2, <2>3
  <1>2. /\ ~CacheExpires /\ ~UNCHANGED vars
        /\ \A q \in Requests, o \in Operations : ~Begin(q, o)
    BY DEF CacheExpires, Begin, Rest, vars, records
  <1>3. PICK q \in Requests : Testing(q)
    BY <1>1, <1>2 DEF Next, Handle
  <1>4. q = r
    <2>1. \E where : pc' = [pc EXCEPT ![q] = where]
      BY <1>3 DEF Testing, CreateTest, FindTest, UpdateTest, UploadMarks, DeleteTest, Go, GoWith
    <2>2. QED
      BY <2>1 DEF TypeOK
  <1>5. QED
    BY <1>3, <1>4 DEF Testing, CreateTest, FindTest, UpdateTest, UploadMarks, DeleteTest, Does

LEMMA PastTheGuardKept ==
    ASSUME TypeOK, PastTheGuard, [Next]_vars
    PROVE  PastTheGuard'
  <1>1. ASSUME NEW r \in Requests, op'[r].by = "teacher",
               pc'[r] \notin {"idle", "lookup", "load", "fill", "guard", "done"}
        PROVE  entitled'[r]
    <2>1. CASE UNCHANGED vars
      BY <1>1, <2>1 DEF vars, handlers, PastTheGuard
    <2>2. ASSUME Witness, op'[r] = op[r], pc'[r] = pc[r]
          PROVE  entitled'[r]
      BY <1>1, <2>2 DEF Witness, PastTheGuard
    <2>3. CASE CacheExpires
      BY <2>2, <2>3 DEF CacheExpires, Rest, handlers
    <2>4. ASSUME NEW q \in Requests, NEW o \in Operations, Begin(q, o)
          PROVE  entitled'[r]
      <3>1. CASE q = r
        <4>1. op'[r] = o /\ pc'[r] \in {"lookup", "find"}
              /\ (o.by = "teacher" => pc'[r] = "lookup")
          BY <2>4, <3>1 DEF Begin, TypeOK
        <4>2. QED
          BY <1>1, <4>1
      <3>2. CASE q # r
        BY <2>2, <2>4, <3>2 DEF Begin, TypeOK
      <3>3. QED
        BY <3>1, <3>2
    <2>5. ASSUME NEW q \in Requests, Handle(q)
          PROVE  entitled'[r]
      <3>1. Witness /\ \E where, h : GoWith(q, where, h)
        BY <2>5 DEF Handle, Admit, Staff, Roster, Transfer, Testing, ReadCache, LoadAccess,
             FillCache, Guard, AssignTeacher, RemoveTeacher, SetActive, Invalidate, FindBatch,
             FindRow, Enroll, Withdraw, FindTarget, FindOpenRow, Leave, FindTargetRow, Arrive,
             Deadlocked, FindEmpty, DeleteBatch, CreateTest, FindTest, UpdateTest, UploadMarks,
             DeleteTest, Rest, Go
      <3>2. CASE q # r
        BY <2>2, <3>1, <3>2 DEF GoWith, TypeOK
      <3>3. CASE q = r
        <4>1. op'[r] = op[r] \/ op'[r] = NoOp
          BY <3>1, <3>3 DEF GoWith, TypeOK
        <4>2. op[r].by = "teacher"
          BY <1>1, <4>1, NoOpIsNone DEF NoOpType
        <4>3. CASE Admit(r)
          <5>1. Guard(r) /\ Assigned /\ UNCHANGED <<teacherActive, teaches>>
            <6>1. pc'[r] # pc[r] /\ pc'[r] \in {"load", "guard", "done", "fill", "find"}
              BY <4>3 DEF Admit, ReadCache, LoadAccess, FillCache, Guard, Go, GoWith, TypeOK
            <6>2. pc'[r] = "find"
              BY <1>1, <6>1
            <6>3. Guard(r)
              BY <4>3, <6>2 DEF Admit, ReadCache, LoadAccess, FillCache, Go, GoWith, TypeOK
            <6>4. Assigned
              BY <6>2, <6>3 DEF Guard, Go, GoWith, TypeOK
            <6>5. QED
              BY <6>3, <6>4 DEF Guard, Rest, access
          <5>2. pc'[r] # "idle"
            BY <1>1
          <5>3. QED
            BY <3>1, <5>1, <5>2 DEF Witness, Assigned
        <4>4. CASE ~Admit(r)
          <5>1. pc[r] \notin {"idle", "lookup", "load", "fill", "guard", "done"}
            BY <2>5, <3>3, <4>4 DEF Handle, Staff, Roster, Transfer, Testing,
               AssignTeacher, RemoveTeacher, SetActive, Invalidate, FindBatch, Does,
               FindRow, Enroll, Withdraw, FindTarget, FindOpenRow, Leave, FindTargetRow, Arrive,
               Deadlocked, FindEmpty, DeleteBatch, CreateTest, FindTest, UpdateTest,
               UploadMarks, DeleteTest
          <5>2. QED
            BY <3>1, <4>2, <5>1 DEF PastTheGuard, Witness
        <4>5. QED
          BY <4>3, <4>4
      <3>4. QED
        BY <3>2, <3>3
    <2>6. QED
      BY <2>1, <2>3, <2>4, <2>5 DEF Next
  <1>2. QED
    BY <1>1 DEF PastTheGuard

(* A teacher changes a test or its marks only in a request during which the  *)
(* teacher was, at some moment, active and assigned to its batch, whatever   *)
(* Redis holds.                                                              *)
THEOREM TeachersAreKeptIn == Spec => TeachersStayInTheirBatches
  <1>1. Init => PastTheGuard
    BY DEF Init, PastTheGuard
  <1>2. TypeOK /\ PastTheGuard /\ [Next]_vars => PastTheGuard'
    BY PastTheGuardKept
  <1>3. ASSUME TypeOK, PastTheGuard, [Next]_vars
        PROVE  [\A r \in Requests : /\ op[r].by = "teacher" /\ pc'[r] # pc[r]
                                    /\ <<test, marks>>' # <<test, marks>>
                                    => entitled[r]]_vars
    BY <1>3, WritersArePastTheGuard DEF PastTheGuard
  <1>4. QED
    BY <1>1, <1>2, <1>3, RecordsAreTyped, PTL DEF Spec, TeachersStayInTheirBatches

-----------------------------------------------------------------------------
(* The test *)

\* Without an overlap at most one request is under way on a group of records
Alone(kinds) ==
    \A q, r \in Requests : op[q].kind \in kinds /\ op[r].kind \in kinds => q = r

\* A request has an operation exactly while it is under way
OpsFit == \A r \in Requests : Underway(r) <=> op[r].kind # "none"

MarksFit(t, m) == t.pass <= t.total /\ \A s \in DOMAIN m : m[s] <= t.total

\* What the check of a handler before its write is worth at the write
TestAt(r) ==
    pc[r] = "write" /\ test.state = "live" =>
      /\ op[r].kind = "update" => MarksFit(Changed(op[r].change), marks)
      /\ op[r].kind = "upload" => op[r].mark <= test.total

NoTestNoMarks ==
    test.state = "absent" =>
      /\ DOMAIN marks = {}
      /\ \A r \in Requests : op[r].kind \notin TestKinds \ {"create"}

TestSafe ==
    "test" \notin clashed =>
      /\ Alone(TestKinds)
      /\ \A r \in Requests : TestAt(r)
      /\ test.state = "live" => MarksFit(test, marks)

TInv == TypeOK /\ OpsFit /\ NoTestNoMarks /\ TestSafe

\* What a step of r past its beginning does to the requests
Moves(r) ==
    /\ Underway(r) /\ pc'[r] # "idle" /\ clashed' = clashed
    /\ op'[r] = IF pc'[r] = "done" THEN NoOp ELSE op[r]
    /\ \A q \in Requests \ {r} : pc'[q] = pc[q] /\ op'[q] = op[q] /\ held'[q] = held[q]

LEMMA GoMoves ==
    ASSUME TypeOK, NEW r \in Requests, NEW where \in Places \ {"idle"}, NEW h,
           GoWith(r, where, h), Underway(r), clashed' = clashed
    PROVE  Moves(r) /\ pc'[r] = where /\ (where # "done" => held'[r] = h)
  BY DEF Moves, GoWith, TypeOK

LEMMA AdmitMoves ==
    ASSUME TypeOK, NEW r \in Requests, Admit(r)
    PROVE  /\ Moves(r) /\ UNCHANGED records
           /\ pc'[r] \in {"load", "guard", "done", "fill", "find"}
  <1>1. clashed' = clashed /\ UNCHANGED records
    BY DEF Admit, ReadCache, LoadAccess, FillCache, Guard, Rest, records, access
  <1>2. Underway(r)
    BY DEF Admit, ReadCache, LoadAccess, FillCache, Guard, Underway
  <1>3. \E h : \E where \in {"load", "guard", "done", "fill", "find"} : GoWith(r, where, h)
    BY DEF Admit, ReadCache, LoadAccess, FillCache, Guard, Go
  <1>4. QED
    BY <1>1, <1>2, <1>3, GoMoves DEF Places

LEMMA StaffMoves ==
    ASSUME TypeOK, NEW r \in Requests, Staff(r)
    PROVE  Moves(r) /\ pc'[r] \in {"invalidate", "done"} /\ UNCHANGED records
  <1>1. clashed' = clashed /\ UNCHANGED records
    BY DEF Staff, AssignTeacher, RemoveTeacher, SetActive, Invalidate, Rest, records
  <1>2. Underway(r)
    BY DEF Staff, AssignTeacher, RemoveTeacher, SetActive, Invalidate, Does, Underway
  <1>3. \E h : \E where \in {"invalidate", "done"} : GoWith(r, where, h)
    BY DEF Staff, AssignTeacher, RemoveTeacher, SetActive, Invalidate, Go
  <1>4. QED
    BY <1>1, <1>2, <1>3, GoMoves DEF Places

LEMMA TestingMoves ==
    ASSUME TypeOK, NEW r \in Requests, Testing(r)
    PROVE  Moves(r) /\ op[r].kind \in TestKinds /\ UNCHANGED <<liveBatches, rows>>
  <1>1. clashed' = clashed /\ UNCHANGED <<liveBatches, rows>>
    BY DEF Testing, CreateTest, FindTest, UpdateTest, UploadMarks, DeleteTest, Rest, records
  <1>2. Underway(r) /\ op[r].kind \in TestKinds
    BY DEF Testing, CreateTest, FindTest, UpdateTest, UploadMarks, DeleteTest, Does, Underway,
           TestKinds
  <1>3. \E h : \E where \in {"write", "done"} : GoWith(r, where, h)
    BY DEF Testing, CreateTest, FindTest, UpdateTest, UploadMarks, DeleteTest, Go
  <1>4. QED
    BY <1>1, <1>2, <1>3, GoMoves DEF Places

LEMMA RosterMoves ==
    ASSUME TypeOK, NEW r \in Requests, Roster(r)
    PROVE  /\ Moves(r) /\ op[r].kind \in RosterKinds \cup {"assign"}
           /\ UNCHANGED <<test, marks>>
  <1>1. clashed' = clashed /\ UNCHANGED <<test, marks>>
    BY DEF Roster, Transfer, FindBatch, FindRow, Enroll, Withdraw, FindTarget, FindOpenRow,
           Leave, FindTargetRow, Arrive, Deadlocked, FindEmpty, DeleteBatch, Rest, records
  <1>2. Underway(r) /\ op[r].kind \in RosterKinds \cup {"assign"}
    BY DEF Roster, Transfer, FindBatch, FindRow, Enroll, Withdraw, FindTarget, FindOpenRow,
           Leave, FindTargetRow, Arrive, Deadlocked, FindEmpty, DeleteBatch, Does, Underway,
           RosterKinds
  <1>3. \E h : \E where \in Places \ {"idle"} : GoWith(r, where, h)
    <2>1. CASE FindBatch(r)
      <3>1. (IF op[r].batch \notin liveBatches THEN "done" ELSE AfterBatch[op[r].kind])
              \in {"done", "findRow", "findTarget", "write"}
        BY <2>1 DEF FindBatch, AfterBatch
      <3>2. QED
        BY <2>1, <3>1 DEF FindBatch, Go, Places
    <2>2. CASE ~FindBatch(r)
      <3>1. \E h : \E where \in {"write", "leave", "leaving", "arriving", "arrive", "done"} :
              GoWith(r, where, h)
        BY <2>2 DEF Roster, Transfer, FindRow, Enroll, Withdraw, FindTarget, FindOpenRow, Leave,
           FindTargetRow, Arrive, Deadlocked, FindEmpty, DeleteBatch, Go
      <3>2. QED
        BY <3>1 DEF Places
    <2>3. QED
      BY <2>1, <2>2
  <1>4. QED
    BY <1>1, <1>2, <1>3, GoMoves

LEMMA HandleMoves ==
    ASSUME TypeOK, NEW r \in Requests, Handle(r)
    PROVE  Moves(r)
  BY AdmitMoves, StaffMoves, RosterMoves, TestingMoves DEF Handle

LEMMA OpsFitKept ==
    ASSUME TypeOK, OpsFit, [Next]_vars
    PROVE  OpsFit'
  <1>1. CASE UNCHANGED <<pc, op>>
    BY <1>1 DEF OpsFit, Underway
  <1>2. ASSUME NEW r \in Requests, NEW o \in Operations, Begin(r, o)
        PROVE  OpsFit'
    <2>1. o.kind # "none"
      BY OperationsAssumption DEF RosterKinds, TestKinds
    <2>2. QED
      BY <1>2, <2>1 DEF OpsFit, Underway, Begin, TypeOK
  <1>3. ASSUME NEW r \in Requests, Handle(r)
        PROVE  OpsFit'
    BY <1>3, HandleMoves, NoOpIsNone DEF Moves, OpsFit, Underway, NoOpType
  <1>4. QED
    BY <1>1, <1>2, <1>3 DEF Next, CacheExpires, Rest, handlers, vars

\* Overlaps are noted: while none is, a request that begins is alone
LEMMA AloneKept ==
    ASSUME TypeOK, OpsFit, [Next]_vars, NEW g \in {"test", "roster"}, g \notin clashed',
           g \notin clashed => Alone(IF g = "test" THEN TestKinds ELSE RosterKinds)
    PROVE  /\ g \notin clashed
           /\ Alone(IF g = "test" THEN TestKinds ELSE RosterKinds)
           /\ Alone(IF g = "test" THEN TestKinds ELSE RosterKinds)'
  <1> DEFINE kinds == IF g = "test" THEN TestKinds ELSE RosterKinds
  <1>0. \A o : Group(o) = g <=> o.kind \in kinds
    BY DEF Group, TestKinds, RosterKinds
  <1>1. g \notin clashed
    <2>1. CASE clashed' = clashed
      BY <2>1
    <2>2. CASE \E r \in Requests, o \in Operations : Begin(r, o)
      BY <2>2 DEF Begin
    <2>3. QED
      BY <2>1, <2>2, HandleMoves DEF Next, Moves, CacheExpires, Rest, vars
  <1>2. Alone(kinds)
    BY <1>1
  <1>3. Alone(kinds)'
    <2>1. CASE UNCHANGED op
      BY <1>2, <2>1 DEF Alone
    <2>2. ASSUME NEW r \in Requests, NEW o \in Operations, Begin(r, o)
          PROVE  Alone(kinds)'
      <3>1. CASE o.kind \in kinds
        <4>1. Group(o) = g
          BY <1>0, <3>1
        <4>2. \A q \in Requests : Underway(q) => Group(op[q]) # g
          BY <2>2, <4>1 DEF Begin
        <4>3. \A q \in Requests : op[q].kind \notin kinds
          BY <1>0, <4>2 DEF OpsFit, TestKinds, RosterKinds
        <4>4. QED
          BY <2>2, <4>3 DEF Begin, Alone, TypeOK
      <3>2. CASE o.kind \notin kinds
        BY <1>2, <2>2, <3>2 DEF Begin, Alone, TypeOK
      <3>3. QED
        BY <3>1, <3>2
    <2>3. ASSUME NEW r \in Requests, Handle(r)
          PROVE  Alone(kinds)'
      <3>1. \A q \in Requests : op'[q] = op[q] \/ op'[q].kind = "none"
        BY <2>3, HandleMoves, NoOpIsNone DEF Moves, NoOpType
      <3>2. QED
        BY <1>2, <3>1 DEF Alone, TestKinds, RosterKinds
    <2>4. QED
      BY <2>1, <2>2, <2>3 DEF Next, CacheExpires, Rest, handlers, vars
  <1>4. QED
    BY <1>1, <1>2, <1>3

LEMMA NoTestNoMarksKept ==
    ASSUME TypeOK, NoTestNoMarks, [Next]_vars
    PROVE  NoTestNoMarks'
  <1>1. CASE UNCHANGED <<test, marks, op>>
    BY <1>1 DEF NoTestNoMarks
  <1>2. ASSUME NEW r \in Requests, NEW o \in Operations, Begin(r, o)
        PROVE  NoTestNoMarks'
    BY <1>2 DEF NoTestNoMarks, Begin, TypeOK, records
  <1>3. ASSUME NEW r \in Requests, Handle(r)
        PROVE  NoTestNoMarks'
    <2>1. \A q \in Requests : op'[q] = op[q] \/ op'[q].kind = "none"
      BY <1>3, HandleMoves, NoOpIsNone DEF Moves, NoOpType
    <2>2. CASE UNCHANGED <<test, marks>>
      BY <2>1, <2>2 DEF NoTestNoMarks, TestKinds
    <2>3. CASE CreateTest(r)
      BY <2>1, <2>3 DEF CreateTest, Rest, NoTestNoMarks, TestKinds
    <2>4. CASE UpdateTest(r) \/ UploadMarks(r) \/ DeleteTest(r)
      <3>1. test.state # "absent"
        BY <2>4 DEF NoTestNoMarks, UpdateTest, UploadMarks, DeleteTest, Does, TestKinds
      <3>2. test'.state # "absent"
        <4>1. CASE UpdateTest(r)
          BY <3>1, <4>1, OpTyped, ChangedTyped DEF UpdateTest, Does
        <4>2. CASE UploadMarks(r)
          BY <3>1, <4>2 DEF UploadMarks, Rest
        <4>3. CASE DeleteTest(r)
          BY <4>3 DEF DeleteTest, TypeOK
        <4>4. QED
          BY <2>4, <4>1, <4>2, <4>3
      <3>3. QED
        BY <3>2 DEF NoTestNoMarks
    <2>5. QED
      BY <1>3, <2>2, <2>3, <2>4, AdmitMoves, StaffMoves, RosterMoves
         DEF Handle, Testing, FindTest, Rest, records
  <1>4. QED
    BY <1>1, <1>2, <1>3 DEF Next, CacheExpires, Rest, handlers, records, vars

\* Under no overlap the check before a write still holds at the write
LEMMA TestSafeKept ==
    ASSUME TypeOK, OpsFit, NoTestNoMarks, TestSafe, [Next]_vars
    PROVE  TestSafe'
  <1> SUFFICES ASSUME "test" \notin clashed'
               PROVE  TestSafe'
    BY DEF TestSafe
  <1>1. "test" \notin clashed /\ Alone(TestKinds) /\ Alone(TestKinds)'
    BY AloneKept DEF TestSafe
  <1>2. /\ \A r \in Requests : TestAt(r)
        /\ test.state = "live" => MarksFit(test, marks)
    BY <1>1 DEF TestSafe
  <1> DEFINE Goal == /\ \A r \in Requests : TestAt(r)'
                     /\ test'.state = "live" => MarksFit(test', marks')
  <1>3. CASE UNCHANGED <<test, marks, op, pc>>
    BY <1>1, <1>2, <1>3 DEF TestSafe, TestAt, Changed, MarksFit
  <1>4. ASSUME NEW r \in Requests, NEW o \in Operations, Begin(r, o)
        PROVE  Goal
    <2>1. UNCHANGED <<test, marks>>
      BY <1>4 DEF Begin, records
    <2>2. \A q \in Requests : pc'[q] = "write" => pc[q] = "write" /\ op'[q] = op[q]
      BY <1>4 DEF Begin, TypeOK
    <2>3. QED
      BY <1>2, <2>1, <2>2 DEF TestAt, Changed, MarksFit
  <1>5. ASSUME NEW r \in Requests, Handle(r)
        PROVE  Goal
    <2>1. Moves(r)
      BY <1>5, HandleMoves
    <2>2. CASE /\ UNCHANGED <<test, marks>>
               /\ pc'[r] = "write" => op[r].kind \notin {"update", "upload"}
      <3>1. \A q \in Requests \ {r} : TestAt(q)'
        BY <1>2, <2>1, <2>2 DEF Moves, TestAt, Changed, MarksFit
      <3>2. TestAt(r)'
        BY <2>1, <2>2 DEF Moves, TestAt
      <3>3. QED
        BY <1>2, <2>2, <3>1, <3>2 DEF MarksFit
    <2>3. CASE Admit(r) \/ Staff(r)
      BY <2>2, <2>3, AdmitMoves, StaffMoves DEF records
    <2>4. CASE Roster(r)
      BY <2>2, <2>4, RosterMoves DEF RosterKinds
    <2>5. CASE Testing(r)
      <3>1. \A q \in Requests \ {r} : op'[q].kind \notin TestKinds
        BY <1>1, <2>1, <2>5, TestingMoves DEF Moves, Alone
      <3>2. \A q \in Requests \ {r} : TestAt(q)'
        BY <3>1 DEF TestAt, TestKinds
      <3>3. CASE FindTest(r)
        <4>1. UNCHANGED <<test, marks>>
          BY <3>3 DEF FindTest, Rest, records
        <4>2. pc'[r] = "write" =>
                /\ test.state = "live"
                /\ op[r].kind = "update" => Acceptable(Changed(op[r].change))
                /\ op[r].kind = "upload" => op[r].mark <= test.total
          BY <3>3 DEF FindTest, Go, GoWith, TypeOK
        <4>3. TestAt(r)'
          BY <2>1, <4>1, <4>2 DEF Moves, TestAt, Changed, Acceptable, MarksFit
        <4>4. QED
          BY <1>2, <3>2, <4>1, <4>3 DEF MarksFit
      <3>4. CASE CreateTest(r) \/ UpdateTest(r) \/ UploadMarks(r) \/ DeleteTest(r)
        <4>1. pc'[r] = "done"
          BY <3>4 DEF CreateTest, UpdateTest, UploadMarks, DeleteTest, Go, GoWith, TypeOK
        <4>2. CASE CreateTest(r)
          BY <1>2, <3>2, <4>1, <4>2
             DEF CreateTest, Rest, TestAt, MarksFit, NoTestNoMarks
        <4>3. CASE UpdateTest(r)
          <5>1. test'.state = "live" => test.state = "live"
            BY <4>3, OpTyped, ChangedTyped DEF UpdateTest, Does
          <5>2. test.state = "live" => MarksFit(Changed(op[r].change), marks)
            BY <1>2, <4>3 DEF UpdateTest, Does, TestAt
          <5>3. QED
            BY <3>2, <4>1, <4>3, <5>1, <5>2 DEF UpdateTest, Rest, TestAt, MarksFit
        <4>4. CASE UploadMarks(r)
          <5>1. test.state = "live" => op[r].mark <= test.total
            BY <1>2, <4>4 DEF UploadMarks, Does, TestAt
          <5>2. QED
            BY <1>2, <3>2, <4>1, <4>4, <5>1 DEF UploadMarks, Rest, TestAt, MarksFit
        <4>5. CASE DeleteTest(r)
          BY <3>2, <4>1, <4>5 DEF DeleteTest, TestAt, TypeOK
        <4>6. QED
          BY <3>4, <4>2, <4>3, <4>4, <4>5
      <3>5. QED
        BY <2>5, <3>3, <3>4 DEF Testing
    <2>6. QED
      BY <1>5, <2>3, <2>4, <2>5 DEF Handle
  <1>6. QED
    BY <1>1, <1>3, <1>4, <1>5 DEF TestSafe, Next, CacheExpires, Rest, handlers, records, vars

\* The invariant of the test at the start
LEMMA TestStart == Init => TInv
  <1>1. ASSUME Init
        PROVE  TInv
    <2>1. \A r \in Requests : op[r].kind = "none" /\ ~Underway(r) /\ pc[r] # "write"
      BY <1>1, NoOpIsNone DEF Init, NoOpType, Underway
    <2>2. test.state = "absent" /\ DOMAIN marks = {}
      BY <1>1 DEF Init, NoTest
    <2>3. QED
      BY <1>1, <2>1, <2>2, TypesStart
         DEF TInv, OpsFit, NoTestNoMarks, TestSafe, TestAt, Alone, TestKinds
  <1>2. QED
    BY <1>1

(* Unless two requests on the test were under way at once, no mark and no    *)
(* pass mark of a live test is above its total, after any updates.           *)
THEOREM MarksFitKept == Spec => []MarksFitTheTest
  <1>1. TInv /\ [Next]_vars => TInv'
    BY TypesKept, OpsFitKept, NoTestNoMarksKept, TestSafeKept DEF TInv
  <1>2. TInv => MarksFitTheTest
    BY DEF TInv, TestSafe, MarksFit, MarksFitTheTest
  <1>3. QED
    BY TestStart, <1>1, <1>2, PTL DEF Spec

-----------------------------------------------------------------------------
(* The roster *)

\* What the reads of a request on the roster are worth before its write
RosterAt(r) ==
    LET o == op[r]
    IN /\ o.kind = "enroll" /\ pc[r] \in {"findRow", "write"} => o.batch \in liveBatches
       /\ Does(r, "enroll", "write") => held[r].row \in Seen(RowOf(o.student, o.batch))
       /\ o.kind = "transfer" /\ pc[r] \in {"leave", "leaving", "arriving", "arrive"} =>
            o.to \in liveBatches
       /\ o.kind = "transfer" /\ pc[r] \in {"leaving", "arriving", "arrive"} =>
            held[r].row \in Seen(ActiveRow(o.student, o.batch))
       /\ Does(r, "transfer", "arrive") => held[r].to \in Seen(RowOf(o.student, o.to))
       /\ Does(r, "deleteBatch", "write") => ~Occupied(o.batch)

OneRow == \A s \in Students, b \in Batches : RowOf(s, b) \subseteq {1}
NobodyInDeleted == \A b \in Batches \ liveBatches, s \in Students : ~Enrolled(s, b)

RosterSafe ==
    "roster" \notin clashed =>
      /\ Alone(RosterKinds)
      /\ OneRow /\ NobodyInDeleted
      /\ \A r \in Requests : RosterAt(r)

RInv == TypeOK /\ OpsFit /\ RosterSafe

\* A row is created only where there is none
LEMMA PutKeepsOneRow ==
    ASSUME TypeOK, OneRow, NEW s \in Students, NEW b \in Batches,
           NEW i \in Seen(RowOf(s, b))
    PROVE  DOMAIN Put(s, b, i) \subseteq {1}
  <1>1. rows[s][b] \in Seq(BOOLEAN) /\ DOMAIN rows[s][b] \subseteq {1}
    BY RowsAreSequences DEF OneRow, RowOf
  <1>2. CASE i = 0
    <2>1. DOMAIN rows[s][b] = {}
      BY <1>1, <1>2 DEF Seen, RowOf
    <2>2. Len(rows[s][b]) = 0
      <3>1. Len(rows[s][b]) \in Nat /\ DOMAIN rows[s][b] = 1..Len(rows[s][b])
        BY <1>1
      <3>2. \A n \in Nat : 1..n = {} => n = 0
        <4>1. \A n \in Nat : n # 0 => 1 \in 1..n
          OBVIOUS
        <4>2. QED
          BY <4>1
      <3>3. QED
        BY <2>1, <3>1, <3>2
    <2>3. DOMAIN Append(rows[s][b], TRUE) = 1..1
      BY <1>1, <2>2
    <2>4. QED
      BY <1>2, <2>3 DEF Put
  <1>3. CASE i # 0
    BY <1>1, <1>3 DEF Put
  <1>4. QED
    BY <1>2, <1>3

\* Closing the one open row leaves none open
LEMMA ClosedLeavesNone ==
    ASSUME TypeOK, OneRow, NEW s \in Students, NEW b \in Batches,
           NEW i \in Seen(ActiveRow(s, b))
    PROVE  /\ DOMAIN Closed(s, b, i) \subseteq {1}
           /\ \A j \in DOMAIN Closed(s, b, i) : ~Closed(s, b, i)[j]
  <1>1. DOMAIN rows[s][b] \subseteq {1}
    BY DEF OneRow, RowOf
  <1>2. CASE i = 0
    <2>1. ActiveRow(s, b) = {}
      BY <1>1, <1>2 DEF Seen, ActiveRow, RowOf
    <2>2. QED
      BY <1>1, <1>2, <2>1 DEF Closed, ActiveRow, RowOf
  <1>3. CASE i # 0
    <2>1. i = 1 /\ DOMAIN rows[s][b] = {1}
      BY <1>1, <1>3 DEF Seen, ActiveRow, RowOf
    <2>2. Closed(s, b, i) = [rows[s][b] EXCEPT ![1] = FALSE]
      BY <1>3, <2>1 DEF Closed
    <2>3. QED
      BY <2>1, <2>2
  <1>4. QED
    BY <1>2, <1>3

\* A request on the roster that only reads
LEMMA RosterReadsSafe ==
    ASSUME TypeOK, OneRow, NEW r \in Requests, RosterAt(r),
           \/ FindBatch(r) \/ FindRow(r) \/ FindTarget(r) \/ FindOpenRow(r) \/ Leave(r)
           \/ FindTargetRow(r) \/ Deadlocked(r) \/ FindEmpty(r)
    PROVE  UNCHANGED <<rows, liveBatches>> /\ RosterAt(r)'
  <1>1. UNCHANGED <<rows, liveBatches>>
    BY DEF FindBatch, FindRow, FindTarget, FindOpenRow, Leave, FindTargetRow, Deadlocked,
           FindEmpty, Rest, records
  <1>2. CASE pc'[r] = "done"
    BY <1>1, <1>2 DEF RosterAt, Does
  <1>3. CASE pc'[r] # "done"
    <2>1. op'[r] = op[r]
      BY <1>3, HandleMoves DEF Moves, Handle, Roster, Transfer
    <2>2. CASE FindBatch(r)
      <3>1. op[r].batch \in liveBatches /\ pc'[r] = AfterBatch[op[r].kind]
        BY <1>3, <2>2 DEF FindBatch, Go, GoWith, TypeOK
      <3>2. \/ op[r].kind = "enroll" /\ pc'[r] = "findRow"
            \/ op[r].kind = "transfer" /\ pc'[r] = "findTarget"
            \/ op[r].kind = "assign"
        BY <2>2, <3>1 DEF FindBatch, AfterBatch
      <3>3. QED
        BY <1>1, <2>1, <3>1, <3>2 DEF RosterAt, Does
    <2>3. CASE FindRow(r)
      <3>1. PICK i \in Seen(OwnRows(r)) : GoWith(r, "write", Found(i, 0))
        BY <2>3 DEF FindRow
      <3>2. pc'[r] = "write" /\ held'[r] = Found(i, 0)
        BY <3>1 DEF GoWith, TypeOK
      <3>3. QED
        <4>1. op[r].kind = "enroll" /\ pc[r] = "findRow" /\ op[r].batch \in liveBatches
          BY <2>3 DEF FindRow, RosterAt, Does
        <4>2. /\ held'[r].row = i /\ op'[r] = op[r]
              /\ i \in Seen(RowOf(op[r].student, op[r].batch))'
          BY <1>1, <2>1, <3>1, <3>2 DEF Found, OwnRows, RowOf, Seen
        <4>3. QED
          BY <1>1, <2>1, <3>2, <4>1, <4>2 DEF RosterAt, Does
    <2>4. CASE FindTarget(r)
      <3>1. op[r].to \in liveBatches /\ pc'[r] = "leave"
        BY <1>3, <2>4 DEF FindTarget, Go, GoWith, TypeOK
      <3>2. QED
        BY <1>1, <2>1, <2>4, <3>1 DEF FindTarget, RosterAt, Does
    <2>5. CASE FindOpenRow(r)
      <3>1. PICK i \in Seen(ActiveRow(op[r].student, op[r].batch)) :
                GoWith(r, "leaving", Found(i, 0))
        BY <2>5 DEF FindOpenRow
      <3>2. pc'[r] = "leaving" /\ held'[r].row = i
        BY <3>1 DEF GoWith, TypeOK, Found
      <3>3. op[r].kind = "transfer" /\ op[r].to \in liveBatches
        BY <2>5 DEF FindOpenRow, Does, RosterAt
      <3>4. Seen(ActiveRow(op[r].student, op[r].batch))'
              = Seen(ActiveRow(op[r].student, op[r].batch))
        BY <1>1, <2>1 DEF ActiveRow, RowOf, Seen
      <3>5. QED
        BY <1>1, <2>1, <3>1, <3>2, <3>3, <3>4 DEF RosterAt, Does
    <2>6. CASE Leave(r)
      <3>1. pc'[r] = "arriving" /\ held'[r] = held[r]
        BY <2>6 DEF Leave, Go, GoWith, TypeOK
      <3>2. QED
        BY <1>1, <2>1, <2>6, <3>1 DEF Leave, RosterAt, Does, ActiveRow, RowOf, Seen
    <2>7. CASE FindTargetRow(r)
      <3>1. PICK i \in Seen(RowOf(op[r].student, op[r].to)) :
                GoWith(r, "arrive", Found(held[r].row, i))
        BY <2>7 DEF FindTargetRow
      <3>2. pc'[r] = "arrive" /\ held'[r].row = held[r].row /\ held'[r].to = i
        BY <3>1 DEF GoWith, TypeOK, Found
      <3>3. QED
        BY <1>1, <2>1, <2>7, <3>1, <3>2
           DEF FindTargetRow, RosterAt, Does, ActiveRow, RowOf, Seen
    <2>8. CASE Deadlocked(r)
      BY <1>3, <2>8 DEF Deadlocked, Go, GoWith, TypeOK
    <2>9. CASE FindEmpty(r)
      <3>1. pc'[r] = "write" /\ ~Occupied(op[r].batch)
        BY <1>3, <2>9 DEF FindEmpty, Go, GoWith, TypeOK
      <3>2. QED
        BY <1>1, <2>1, <2>9, <3>1 DEF FindEmpty, RosterAt, Does, Occupied, Enrolled
    <2>10. QED
      BY <2>2, <2>3, <2>4, <2>5, <2>6, <2>7, <2>8, <2>9
  <1>4. QED
    BY <1>1, <1>2, <1>3

\* A request on the roster that writes
LEMMA RosterWritesSafe ==
    ASSUME TypeOK, OneRow, NobodyInDeleted, NEW r \in Requests, RosterAt(r),
           Enroll(r) \/ Withdraw(r) \/ Arrive(r) \/ DeleteBatch(r)
    PROVE  OneRow' /\ NobodyInDeleted' /\ RosterAt(r)'
  <1>1. RosterAt(r)'
    <2>1. pc'[r] = "done"
      BY DEF Enroll, Withdraw, Arrive, DeleteBatch, Go, GoWith, TypeOK
    <2>2. QED
      BY <2>1 DEF RosterAt, Does
  <1>2. CASE Enroll(r)
    <2>1. PICK s \in Students : s = op[r].student
      BY <1>2, OpTyped, OperationsAssumption DEF Enroll, Does
    <2>2. PICK b \in Batches : b = op[r].batch
      BY <1>2, OpTyped, OperationsAssumption DEF Enroll, Does
    <2>3. PICK i \in Seen(RowOf(s, b)) : i = held[r].row
      BY <1>2, <2>1, <2>2 DEF Enroll, Does, RosterAt
    <2>4. rows' = [rows EXCEPT ![s][b] = Put(s, b, i)] /\ UNCHANGED liveBatches /\ b \in liveBatches
      BY <1>2, <2>1, <2>2, <2>3 DEF Enroll, Does, RosterAt, Rest
    <2>5. DOMAIN Put(s, b, i) \subseteq {1}
      BY PutKeepsOneRow
    <2>6. \A t \in Students, c \in Batches :
            rows'[t][c] = IF t = s /\ c = b THEN Put(s, b, i) ELSE rows[t][c]
      BY <2>4 DEF TypeOK
    <2>7. OneRow'
      BY <2>5, <2>6 DEF OneRow, RowOf
    <2>8. NobodyInDeleted'
      BY <2>4, <2>6 DEF NobodyInDeleted, Enrolled
    <2>9. QED
      BY <1>1, <2>7, <2>8
  <1>3. CASE Withdraw(r)
    <2>1. PICK s \in Students : s = op[r].student
      BY <1>3, OpTyped, OperationsAssumption DEF Withdraw, Does
    <2>2. PICK b \in Batches : b = op[r].batch
      BY <1>3, OpTyped, OperationsAssumption DEF Withdraw, Does
    <2>3. UNCHANGED liveBatches
      BY <1>3 DEF Withdraw, Rest
    <2>4. \A t \in Students, c \in Batches :
            rows'[t][c] = IF t = s /\ c = b THEN [i \in DOMAIN rows[s][b] |-> FALSE]
                          ELSE rows[t][c]
      BY <1>3, <2>1, <2>2 DEF Withdraw, TypeOK
    <2>5. OneRow'
      BY <2>4 DEF OneRow, RowOf
    <2>6. NobodyInDeleted'
      BY <2>3, <2>4 DEF NobodyInDeleted, Enrolled
    <2>7. QED
      BY <1>1, <2>5, <2>6
  <1>4. CASE Arrive(r)
    <2>1. PICK s \in Students : s = op[r].student
      BY <1>4, OpTyped, OperationsAssumption DEF Arrive, Does
    <2>2. PICK b \in Batches : b = op[r].batch
      BY <1>4, OpTyped, OperationsAssumption DEF Arrive, Does
    <2>3. PICK c \in Batches \ {b} : c = op[r].to
      BY <1>4, <2>2, OpTyped, OperationsAssumption DEF Arrive, Does
    <2>4. PICK i \in Seen(ActiveRow(s, b)) : i = held[r].row
      BY <1>4, <2>1, <2>2 DEF Arrive, Does, RosterAt
    <2>5. PICK j \in Seen(RowOf(s, c)) : j = held[r].to
      BY <1>4, <2>1, <2>3 DEF Arrive, Does, RosterAt
    <2>6. /\ rows' = [rows EXCEPT ![s][b] = Closed(s, b, i), ![s][c] = Put(s, c, j)]
          /\ UNCHANGED liveBatches
      BY <1>4, <2>1, <2>2, <2>3, <2>4, <2>5 DEF Arrive, Rest
    <2>7. DOMAIN Closed(s, b, i) \subseteq {1} /\ DOMAIN Put(s, c, j) \subseteq {1}
          /\ \A k \in DOMAIN Closed(s, b, i) : ~Closed(s, b, i)[k]
      BY PutKeepsOneRow, ClosedLeavesNone
    <2>8. c \in liveBatches
      BY <1>4, <2>3 DEF Arrive, Does, RosterAt
    <2>9. \A t \in Students, d \in Batches :
            rows'[t][d] = IF t = s /\ d = b THEN Closed(s, b, i)
                          ELSE IF t = s /\ d = c THEN Put(s, c, j) ELSE rows[t][d]
      <3> DEFINE mid == [rows EXCEPT ![s][b] = Closed(s, b, i)]
      <3>1. rows' = [mid EXCEPT ![s][c] = Put(s, c, j)]
        BY <2>6
      <3>2. /\ DOMAIN mid = Students
            /\ \A t \in Students : DOMAIN mid[t] = Batches
            /\ \A t \in Students, d \in Batches :
                 mid[t][d] = IF t = s /\ d = b THEN Closed(s, b, i) ELSE rows[t][d]
        BY DEF TypeOK
      <3> HIDE DEF mid
      <3>3. QED
        BY <3>1, <3>2
    <2>10. OneRow'
      BY <2>7, <2>9 DEF OneRow, RowOf
    <2>11. NobodyInDeleted'
      <3>1. ASSUME NEW d \in Batches \ liveBatches, NEW t \in Students
            PROVE  \A k \in DOMAIN rows'[t][d] : ~rows'[t][d][k]
        <4>1. CASE t = s /\ d = b
          <5>1. rows'[t][d] = Closed(s, b, i)
            BY <2>9, <4>1
          <5>2. QED
            BY <2>7, <5>1
        <4>2. CASE ~(t = s /\ d = b)
          <5>1. rows'[t][d] = rows[t][d]
            BY <2>8, <2>9, <4>2
          <5>2. QED
            BY <5>1 DEF NobodyInDeleted, Enrolled
        <4>3. QED
          BY <4>1, <4>2
      <3>2. QED
        BY <2>6, <3>1 DEF NobodyInDeleted, Enrolled
    <2>12. QED
      BY <1>1, <2>10, <2>11
  <1>5. CASE DeleteBatch(r)
    <2>1. UNCHANGED rows /\ liveBatches' = liveBatches \ {op[r].batch} /\ ~Occupied(op[r].batch)
      BY <1>5 DEF DeleteBatch, Does, RosterAt, Rest
    <2>2. OneRow' /\ NobodyInDeleted'
      BY <2>1 DEF OneRow, RowOf, NobodyInDeleted, Enrolled, Occupied
    <2>3. QED
      BY <1>1, <2>2
  <1>6. QED
    BY <1>2, <1>3, <1>4, <1>5

\* Under no overlap what a request on the roster read still holds at its write
LEMMA RosterSafeKept ==
    ASSUME TypeOK, OpsFit, RosterSafe, [Next]_vars
    PROVE  RosterSafe'
  <1> SUFFICES ASSUME "roster" \notin clashed'
               PROVE  RosterSafe'
    BY DEF RosterSafe
  <1>1. "roster" \notin clashed /\ Alone(RosterKinds) /\ Alone(RosterKinds)'
    BY AloneKept DEF RosterSafe
  <1>2. OneRow /\ NobodyInDeleted /\ \A r \in Requests : RosterAt(r)
    BY <1>1 DEF RosterSafe
  <1> DEFINE Goal == OneRow' /\ NobodyInDeleted' /\ \A r \in Requests : RosterAt(r)'
  \* Rows and batches as they were, and each request where it was or nowhere that counts
  <1>3. ASSUME UNCHANGED <<rows, liveBatches>>,
               \A q \in Requests : \/ pc'[q] = pc[q] /\ op'[q] = op[q] /\ held'[q] = held[q]
                                   \/ RosterAt(q)'
        PROVE  Goal
    <2>1. OneRow' /\ NobodyInDeleted'
      BY <1>2, <1>3 DEF OneRow, RowOf, NobodyInDeleted, Enrolled
    <2>2. \A q \in Requests : RosterAt(q)'
      <3>1. ASSUME NEW q \in Requests, pc'[q] = pc[q], op'[q] = op[q], held'[q] = held[q]
            PROVE  RosterAt(q)'
        <4>1. RosterAt(q)
          BY <1>2
        <4>2. QED
          BY <1>3, <3>1, <4>1 DEF RosterAt, Does, Seen, ActiveRow, RowOf, Occupied, Enrolled
      <3>2. QED
        BY <1>3, <3>1
    <2>3. QED
      BY <2>1, <2>2
  <1>4. ASSUME UNCHANGED <<rows, liveBatches, pc, op, held>>
        PROVE  Goal
    BY <1>3, <1>4
  <1>5. ASSUME NEW r \in Requests, NEW o \in Operations, Begin(r, o)
        PROVE  Goal
    <2>1. UNCHANGED <<rows, liveBatches>> /\ pc'[r] \in {"lookup", "find"}
      BY <1>5 DEF Begin, records, TypeOK
    <2>2. RosterAt(r)'
      BY <2>1 DEF RosterAt, Does
    <2>3. \A q \in Requests \ {r} : pc'[q] = pc[q] /\ op'[q] = op[q] /\ held'[q] = held[q]
      BY <1>5 DEF Begin, TypeOK
    <2>4. QED
      BY <1>3, <2>1, <2>2, <2>3
  <1>6. ASSUME NEW r \in Requests, Handle(r)
        PROVE  Goal
    <2>1. Moves(r)
      BY <1>6, HandleMoves
    <2>2. ASSUME UNCHANGED <<rows, liveBatches>>, RosterAt(r)'
          PROVE  Goal
      BY <1>3, <2>1, <2>2 DEF Moves
    <2>3. CASE Admit(r) \/ Staff(r)
      <3>1. UNCHANGED <<rows, liveBatches>>
            /\ pc'[r] \in {"load", "guard", "done", "fill", "find", "invalidate"}
        BY <2>3, AdmitMoves, StaffMoves DEF records
      <3>2. RosterAt(r)'
        BY <3>1 DEF RosterAt, Does
      <3>3. QED
        BY <2>2, <3>1, <3>2
    <2>4. CASE Testing(r)
      <3>1. UNCHANGED <<rows, liveBatches>> /\ op'[r].kind \in TestKinds \cup {"none"}
        BY <2>1, <2>4, TestingMoves, NoOpIsNone DEF Moves, NoOpType
      <3>2. RosterAt(r)'
        BY <3>1 DEF RosterAt, Does, TestKinds
      <3>3. QED
        BY <2>2, <3>1, <3>2
    <2>5. CASE Roster(r)
      <3>1. CASE Enroll(r) \/ Withdraw(r) \/ Arrive(r) \/ DeleteBatch(r)
        <4>1. op[r].kind \in RosterKinds
          BY <3>1 DEF Enroll, Withdraw, Arrive, DeleteBatch, Does, RosterKinds
        <4>2. \A q \in Requests \ {r} : op'[q].kind \notin RosterKinds
          BY <1>1, <2>1, <4>1 DEF Moves, Alone
        <4>3. \A q \in Requests \ {r} : RosterAt(q)'
          BY <4>2 DEF RosterAt, Does, RosterKinds
        <4>4. OneRow' /\ NobodyInDeleted' /\ RosterAt(r)'
          BY <1>2, <3>1, RosterWritesSafe
        <4>5. QED
          BY <4>3, <4>4
      <3>2. CASE ~(Enroll(r) \/ Withdraw(r) \/ Arrive(r) \/ DeleteBatch(r))
        <4>1. UNCHANGED <<rows, liveBatches>> /\ RosterAt(r)'
          BY <1>2, <2>5, <3>2, RosterReadsSafe DEF Roster, Transfer
        <4>2. QED
          BY <2>2, <4>1
      <3>3. QED
        BY <3>1, <3>2
    <2>6. QED
      BY <1>6, <2>3, <2>4, <2>5 DEF Handle
  <1>7. QED
    BY <1>1, <1>4, <1>5, <1>6
       DEF RosterSafe, Next, CacheExpires, Rest, handlers, records, vars

\* The invariant of the roster at the start
LEMMA RosterStart == Init => RInv
  <1>1. ASSUME Init
        PROVE  RInv
    <2>1. \A r \in Requests : op[r].kind = "none" /\ ~Underway(r) /\ pc[r] = "idle"
      BY <1>1, NoOpIsNone DEF Init, NoOpType, Underway
    <2>2. \A s \in Students, b \in Batches : rows[s][b] \in {<<>>, <<TRUE>>}
      BY <1>1 DEF Init
    <2>3. OneRow
      <3>1. DOMAIN <<>> = {} /\ DOMAIN <<TRUE>> = {1}
        OBVIOUS
      <3>2. QED
        BY <2>2, <3>1 DEF OneRow, RowOf
    <2>4. liveBatches = Batches
      BY <1>1 DEF Init
    <2>5. QED
      BY <1>1, <2>1, <2>3, <2>4, TypesStart
         DEF RInv, OpsFit, RosterSafe, RosterAt, Does, NobodyInDeleted, Alone, RosterKinds
  <1>2. QED
    BY <1>1

LEMMA RInvKept == RInv /\ [Next]_vars => RInv'
  BY TypesKept, OpsFitKept, RosterSafeKept DEF RInv

(* Unless two requests on the roster were under way at once, a deleted batch *)
(* has no enrolled student, whatever was enrolled, moved and deleted before. *)
THEOREM DeletedStaysEmpty == Spec => []DeletedBatchIsEmpty
  <1>1. RInv => DeletedBatchIsEmpty
    BY DEF RInv, RosterSafe, NobodyInDeleted, DeletedBatchIsEmpty
  <1>2. QED
    BY RosterStart, RInvKept, <1>1, PTL DEF Spec

(* Unless requests on the roster overlapped, a transfer that commits leaves  *)
(* no open row of the student in the source batch.                           *)
THEOREM TransfersMove == Spec => TransferMoves
  <1> DEFINE Moved == \A r \in Requests :
                 Does(r, "transfer", "arrive") /\ rows' # rows /\ pc'[r] = "done"
                   => \/ "roster" \in clashed
                      \/ \A i \in DOMAIN rows'[op[r].student][op[r].batch] :
                            ~rows'[op[r].student][op[r].batch][i]
  <1>1. ASSUME RInv, [Next]_vars, NEW r \in Requests, Does(r, "transfer", "arrive"),
               rows' # rows, pc'[r] = "done", "roster" \notin clashed
        PROVE  \A i \in DOMAIN rows'[op[r].student][op[r].batch] :
                  ~rows'[op[r].student][op[r].batch][i]
    <2>1. TypeOK /\ OneRow /\ RosterAt(r)
      BY <1>1 DEF RInv, RosterSafe
    <2>2. Handle(r)
      <3>1. PICK q \in Requests : Handle(q)
        BY <1>1 DEF Next, Begin, CacheExpires, Rest, records, vars
      <3>2. q = r
        BY <1>1, <2>1, <3>1, HandleMoves DEF Moves, Does
      <3>3. QED
        BY <3>1, <3>2
    <2>3. Arrive(r)
      <3>1. Roster(r)
        BY <1>1, <2>1, <2>2, AdmitMoves, StaffMoves, TestingMoves DEF Handle, records
      <3>2. QED
        BY <1>1, <3>1 DEF Does, Roster, Transfer, FindBatch, FindRow, Enroll, Withdraw,
           FindTarget, FindOpenRow, Leave, FindTargetRow, Deadlocked, FindEmpty, DeleteBatch,
           Rest, records
    <2>4. PICK s \in Students : s = op[r].student
      BY <2>1, <2>3, OpTyped, OperationsAssumption DEF Arrive, Does
    <2>5. PICK b \in Batches : b = op[r].batch
      BY <2>1, <2>3, OpTyped, OperationsAssumption DEF Arrive, Does
    <2>6. PICK c \in Batches \ {b} : c = op[r].to
      BY <2>1, <2>3, <2>5, OpTyped, OperationsAssumption DEF Arrive, Does
    <2>7. PICK i \in Seen(ActiveRow(s, b)) : i = held[r].row
      BY <2>1, <2>3, <2>4, <2>5 DEF Arrive, Does, RosterAt
    <2>8. rows'[s][b] = Closed(s, b, i)
      <3>1. rows' = [rows EXCEPT ![s][b] = Closed(s, b, i), ![s][c] = Put(s, c, held[r].to)]
        BY <2>3, <2>4, <2>5, <2>6, <2>7 DEF Arrive
      <3> DEFINE mid == [rows EXCEPT ![s][b] = Closed(s, b, i)]
      <3>2. rows' = [mid EXCEPT ![s][c] = Put(s, c, held[r].to)]
        BY <3>1
      <3>3. DOMAIN mid = Students /\ DOMAIN mid[s] = Batches /\ mid[s][b] = Closed(s, b, i)
        BY <2>1 DEF TypeOK
      <3> HIDE DEF mid
      <3>4. QED
        BY <2>6, <3>2, <3>3
    <2>9. QED
      BY <2>1, <2>4, <2>5, <2>8, ClosedLeavesNone
  <1>2. RInv /\ [Next]_vars => [Moved]_vars
    BY <1>1
  <1>3. QED
    BY RosterStart, RInvKept, <1>2, PTL DEF Spec, TransferMoves

-----------------------------------------------------------------------------
(* WebSessions: the parts of its inductive invariant.                      *)

\* The tokens that exist.
Made == 1..minted

SigningOut(t) == form[t].stage \in {"revoking", "signingOut"}

\* A refresh between the request and the tab that reads its answer.
IsInFlight(w) == job[w].stage \in AtServer \cup Answers

\* The tokens of family f that are not revoked.
LiveOf(f) == {k \in live : family[k] = f}

\* A token that is not revoked, unless its family was lost or signed out.
Fine(k) == k \in live \/ family[k] \in lost \cup left

\* Refreshes that may still make a token.
Pending == {w \in Refreshers : job[w].stage \in {"waiting", "sent", "found", "revoked"}}

\* Tokens that are named were made, and a family is named by its first token.
TokenInv ==
  /\ live \subseteq Made
  /\ \A k \in Made : family[k] \in Made /\ family[family[k]] = family[k]
  /\ cookie \in Made \cup {0}
  /\ lost \subseteq Made /\ crossed \subseteq Made /\ left \subseteq Made
  /\ ~active => \A k \in Made : family[k] \in left

\* Whoever may still make a token has room for it.
RoomInv == IsFiniteSet(Busy) /\ minted + Cardinality(Pending) <= MaxTokens

\* The tokens a refresh carries: the old one once it is sent, the new one of
\* the same family once that is made.
JobOK(w) ==
  /\ job[w].old \in Made \cup {0} /\ job[w].new \in Made \cup {0}
  /\ job[w].stage \in AtServer \cup {"failed", "answered"} => job[w].old # 0
  /\ job[w].stage \in {"rotated", "answered"} =>
        job[w].new # 0 /\ family[job[w].new] = family[job[w].old]

\* A refresh whose tab has gone is lost.
GhostOK(g) ==
  /\ g > faults => job[g].stage = "idle"
  /\ job[g].stage # "idle" /\ job[g].old # 0 => family[job[g].old] \in lost

JobsInv == (\A w \in Refreshers : JobOK(w)) /\ \A g \in Ghosts : GhostOK(g)

\* The Web Lock: the tab whose refresh is under way holds it.
LockInv == \A t \in Tabs : lock = t <=> IsInFlight(t)

\* Of a session that has just begun, only the sign-in of tab t knows.
NewSession(t, f) ==
  /\ f # 0 /\ family[f] = f
  /\ \A k \in Made : family[k] = f => k = f
  /\ cookie # f
  /\ \A w \in Refreshers : job[w].old # f
  /\ \A u \in Tabs : u # t => form[u].token # f
  /\ f \in live <=> f \notin left

FormOK(t) ==
  /\ form[t].token \in Made \cup {0}
  /\ form[t].stage = "revoking" => form[t].token # 0
  /\ form[t].stage = "none" => form[t].token = 0
  /\ form[t].stage = "signingIn" => NewSession(t, form[t].token)

FormsInv == \A t \in Tabs : FormOK(t)

\* What a refresh presents or brings is fine; what the API takes for a replay
\* is of a family that was lost or signed out.
ReplayOK(w) ==
  /\ job[w].stage = "sent" => Fine(job[w].old)
  /\ job[w].stage = "reused" => family[job[w].old] \in lost \cup left
  /\ job[w].stage \in {"rotated", "answered"} => Fine(job[w].new)

\* The cookie's token was revoked, and the answer that replaces it is under way.
OnItsWay == \E t \in Tabs : /\ job[t].old = cookie
                           /\ job[t].stage \in {"revoked", "rotated", "answered", "rejected"}

CookieOK == cookie # 0 => Fine(cookie) \/ OnItsWay

ReplayInv ==
  /\ \A w \in Refreshers : ReplayOK(w)
  /\ CookieOK

\* Families that were signed out while nothing of theirs crossed or got lost.
Gone == left \ (crossed \cup lost)

\* A refresh of such a family finds its token revoked.
OutJob(w) ==
  IsInFlight(w) /\ job[w].old # 0 /\ family[job[w].old] \in Gone =>
    job[w].stage \in {"sent", "reused", "rejected", "failed"} /\ job[w].old \notin live

\* A sign-out that crosses nothing revokes the cookie's token.
OutForm(t) ==
  SigningOut(t) /\ form[t].token # 0 /\ family[form[t].token] \notin crossed \cup lost =>
    /\ \A w \in Refreshers : IsInFlight(w) /\ job[w].old # 0 => family[job[w].old] # family[form[t].token]
    /\ cookie # 0 /\ family[cookie] = family[form[t].token] => cookie = form[t].token

OutInv ==
  /\ SignedOutStaysOut
  /\ \A w \in Refreshers : OutJob(w)
  /\ \A t \in Tabs : OutForm(t)

NobodyInFlight == \A t \in Tabs : ~IsInFlight(t)

\* The refresh of tab t replaces the one live token of f, which the cookie holds.
OwnRefresh(t, f) ==
  /\ job[t].old = cookie
  /\ job[t].stage \notin {"reused", "rejected"}
  /\ job[t].stage \in {"sent", "found", "failed"} => LiveOf(f) = {cookie}
  /\ job[t].stage = "revoked" => LiveOf(f) = {}
  /\ job[t].stage \in {"rotated", "answered"} => LiveOf(f) = {job[t].new}

\* Family f is the cookie's, and its one live token is the cookie's unless a
\* refresh is replacing it.
Rests(f) ==
  /\ cookie # 0 /\ family[cookie] = f
  /\ \A t \in Tabs : SigningOut(t) => form[t].token = cookie /\ NobodyInFlight
  /\ \A t \in Tabs : IsInFlight(t) => OwnRefresh(t, f)
  /\ NobodyInFlight => LiveOf(f) = {cookie}

\* A family of which nothing was lost, crossed or signed out rests, or its
\* sign-in has not been answered yet.
CleanInv == \A f \in Made : family[f] = f /\ f \notin lost \cup crossed \cup left =>
   Rests(f) \/ \E t \in Tabs : form[t].stage = "signingIn" /\ form[t].token = f

-----------------------------------------------------------------------------
(* What the actions do.                                                    *)

\* Tokens that were made are within the bound; 0 is none of them.
LEMMA MadeFacts ==
  ASSUME SessionTypeOK
  PROVE  Made \subseteq Tokens /\ 0 \notin Tokens /\ 0 \notin Made
  BY BoundAssumption DEF SessionTypeOK, Tokens, Made

\* Whoever makes a token has room for it.
LEMMA RoomToMint ==
  ASSUME SessionTypeOK, RoomInv, RoomForAToken \/ \E w \in Refreshers : job[w].stage = "revoked"
  PROVE  minted + 1 \in Tokens
<1>1. Pending \subseteq Busy /\ IsFiniteSet(Busy) /\ IsFiniteSet(Pending)
  BY FS_Subset DEF RoomInv, Pending, Busy
<1>2. Cardinality(Pending) \in Nat /\ Cardinality(Busy) \in Nat
  BY <1>1, FS_CardinalityType
<1>3. minted \in Nat /\ MaxTokens \in Nat
  BY BoundAssumption DEF SessionTypeOK, Tokens
<1>4. CASE RoomForAToken
  BY <1>2, <1>3, <1>4 DEF RoomForAToken, Tokens
<1>5. CASE \E w \in Refreshers : job[w].stage = "revoked"
  <2>1. Pending # {}
    BY <1>5 DEF Pending
  <2>2. Cardinality(Pending) # 0
    BY <1>1, <2>1, FS_EmptySet
  <2> QED
    BY <1>2, <1>3, <2>2 DEF RoomInv, Tokens
<1> QED
  BY <1>4, <1>5

\* Which stages there are.
LEMMA StageNames ==
  /\ AtServer \cup Answers \cup {"idle", "waiting"} \subseteq Stages
  /\ {"sent", "found", "revoked", "rotated", "reused"} \subseteq AtServer
  /\ {"answered", "rejected", "failed"} \subseteq Answers
  /\ "idle" \notin AtServer \cup Answers /\ "waiting" \notin AtServer \cup Answers
  BY DEF Stages, AtServer, Answers

\* Tabs, ghosts and the free lock are told apart; a fault has its ghost.
LEMMA Names ==
  /\ Tabs \subseteq Refreshers /\ Ghosts \subseteq Refreshers
  /\ Tabs \cap Ghosts = {}
  /\ NoTab \notin Tabs
  /\ \A f \in Nat : f < MaxFaults => f + 1 \in Ghosts /\ f + 1 \in 0..MaxFaults
  BY BoundAssumption, TabAssumption DEF Refreshers, Ghosts

\* What follows from the types and the tokens' order.
LEMMA FamilyMade ==
  ASSUME SessionTypeOK, TokenInv
  PROVE  /\ \A k \in Made \cup {0} : FamilyOf(k) \subseteq Made
         /\ \A k : FamilyOf(k) = IF k = 0 THEN {} ELSE {family[k]}
  BY DEF TokenInv, FamilyOf

\* What refreshes and forms carry, by their stage.
LEMMA TokensMade ==
  ASSUME JobsInv, FormsInv
  PROVE  /\ \A w \in Refreshers : job[w].old \in Made \cup {0} /\ job[w].new \in Made \cup {0}
         /\ \A t \in Tabs : form[t].token \in Made \cup {0}
         /\ \A w \in Refreshers : job[w].stage \in AtServer \cup {"failed", "answered"} => job[w].old # 0
         /\ \A w \in Refreshers : job[w].stage \in {"rotated", "answered"} =>
              job[w].new # 0 /\ family[job[w].new] = family[job[w].old]
         /\ \A t \in Tabs : form[t].stage \in {"revoking", "signingIn"} => form[t].token # 0
         /\ \A t \in Tabs : form[t].stage = "none" => form[t].token = 0
  BY DEF JobsInv, JobOK, FormsInv, FormOK, NewSession

\* What a step does to one refresh and to one form.
JobIs(w, stage, old, new) ==
  /\ job' \in [Refreshers -> Jobs]
  /\ job'[w].stage = stage /\ job'[w].old = old /\ job'[w].new = new
  /\ \A v \in Refreshers : v # w => job'[v] = job[v]

FormIs(t, stage, token) ==
  /\ form' \in [Tabs -> Forms]
  /\ form'[t].stage = stage /\ form'[t].token = token
  /\ \A u \in Tabs : u # t => form'[u] = form[u]

\* A refresh moves on.
LEMMA JobMoves ==
  ASSUME SessionTypeOK, NEW w \in Refreshers, NEW stage \in Stages, Move(w, stage)
  PROVE  JobIs(w, stage, job[w].old, job[w].new)
  BY DEF SessionTypeOK, Move, JobIs, Jobs

\* A refresh is replaced.
LEMMA JobSet ==
  ASSUME SessionTypeOK, NEW w \in Refreshers, NEW r \in Jobs, job' = [job EXCEPT ![w] = r]
  PROVE  JobIs(w, r.stage, r.old, r.new)
  BY DEF SessionTypeOK, JobIs

\* No refresh.
LEMMA NoJobType == NoJob \in Jobs /\ NoJob.stage = "idle" /\ NoJob.old = 0 /\ NoJob.new = 0
  BY DEF NoJob, Jobs, Stages

\* A form is replaced.
LEMMA FormSet ==
  ASSUME SessionTypeOK, NEW t \in Tabs, NEW r \in Forms, form' = [form EXCEPT ![t] = r]
  PROVE  FormIs(t, r.stage, r.token)
  BY DEF SessionTypeOK, FormIs

\* No form.
LEMMA NoFormType == NoForm \in Forms /\ NoForm.stage = "none" /\ NoForm.token = 0
  BY DEF NoForm, Forms

TokensKept == UNCHANGED <<minted, live, family, active>> /\ Made' = Made
HistoryKept == UNCHANGED <<lost, crossed, left>>
PageOK == page' \in [Tabs -> {"loading", "signedIn", "signedOut"}]

\* What each action does, in terms of the facts above.  A tab waits for the lock.
LEMMA StartRefreshDoes ==
  ASSUME SessionTypeOK, NEW t \in Tabs, StartRefresh(t)
  PROVE  /\ job[t].stage = "idle" /\ RoomForAToken
         /\ JobIs(t, "waiting", job[t].old, job[t].new)
         /\ TokensKept /\ HistoryKept /\ UNCHANGED <<cookie, lock, page, form, faults>>
  BY JobMoves, StageNames, Names
  DEF StartRefresh, TokensKept, Made, HistoryKept, tokenVars, browserVars, historyVars

\* It gets the lock and sends the cookie.
LEMMA SendDoes ==
  ASSUME SessionTypeOK, NEW t \in Tabs, Send(t)
  PROVE  /\ job[t].stage = "waiting" /\ lock = NoTab /\ lock' = t
         /\ JobIs(t, IF cookie = 0 THEN "rejected" ELSE "sent", cookie, 0)
         /\ crossed' = IF \E u \in Tabs : form[u].stage # "none"
                       THEN crossed \cup FamilyOf(cookie) ELSE crossed
         /\ TokensKept /\ UNCHANGED <<cookie, page, form, lost, left, faults>>
<1> DEFINE r == [stage |-> IF cookie = 0 THEN "rejected" ELSE "sent", old |-> cookie, new |-> 0]
<1>1. r \in Jobs
  BY StageNames DEF SessionTypeOK, Jobs
<1>2. job' = [job EXCEPT ![t] = r]
  BY DEF Send
<1>3. JobIs(t, r.stage, r.old, r.new)
  BY <1>1, <1>2, JobSet, Names
<1> QED
  BY <1>3 DEF Send, LockFree, TokensKept, Made, tokenVars

\* It has read the answer, and the browser has kept its cookie.
LEMMA ReceiveDoes ==
  ASSUME SessionTypeOK, NEW t \in Tabs, Receive(t)
  PROVE  /\ job[t].stage \in Answers /\ lock' = NoTab
         /\ job[t].stage = "answered" => cookie' = job[t].new
         /\ job[t].stage = "rejected" => cookie' = 0
         /\ job[t].stage = "failed" => cookie' = cookie
         /\ JobIs(t, "idle", 0, 0)
         /\ PageOK
         /\ TokensKept /\ HistoryKept /\ UNCHANGED <<form, faults>>
<1>1. JobIs(t, "idle", 0, 0)
  BY JobSet, NoJobType, Names DEF Receive
<1>2. PageOK
  BY DEF SessionTypeOK, Receive, PageOK
<1>3. cookie' = CookieAfter(job[t])
  BY DEF Receive
<1>4. /\ job[t].stage = "answered" => cookie' = job[t].new
      /\ job[t].stage = "rejected" => cookie' = 0
      /\ job[t].stage = "failed" => cookie' = cookie
  BY <1>3 DEF CookieAfter
<1> QED
  BY <1>1, <1>2, <1>4 DEF Receive, AfterLock, TokensKept, Made, HistoryKept, tokenVars, historyVars

\* A new token.
Minted(f) ==
  /\ minted' = minted + 1 /\ minted' \in Tokens
  /\ minted' \notin Made /\ Made' = Made \cup {minted'} /\ 1..minted' = Made \cup {minted'}
  /\ live' = live \cup {minted'}
  /\ family' \in [Tokens -> Tokens \cup {0}]
  /\ family'[minted'] = f
  /\ \A k \in Made : family'[k] = family[k]

\* A token is made.
LEMMA MintDoes ==
  ASSUME SessionTypeOK, minted + 1 \in Tokens, NEW f \in Tokens \cup {0}, Mint(f)
  PROVE  Minted(f)
<1>1. /\ \A k \in Made : k \in Tokens /\ k # minted + 1
      /\ 1..(minted + 1) = Made \cup {minted + 1}
  BY BoundAssumption DEF SessionTypeOK, Tokens, Made
<1>2. minted' = minted + 1 /\ Made' = 1..minted'
  BY DEF Mint, Made
<1> QED
  BY <1>1, <1>2 DEF SessionTypeOK, Mint, Minted

\* The API makes the first token of a session.
LEMMA SignInDoes ==
  ASSUME SessionTypeOK, RoomInv, NEW t \in Tabs, SignIn(t)
  PROVE  /\ form[t].stage = "none" /\ active /\ RoomForAToken
         /\ Minted(minted')
         /\ FormIs(t, "signingIn", minted')
         /\ HistoryKept /\ UNCHANGED <<active, cookie, lock, page, job, faults>>
<1>1. minted + 1 \in Tokens
  BY RoomToMint DEF SignIn
<1>2. Minted(minted + 1) /\ minted' = minted + 1
  BY <1>1, MintDoes DEF SignIn, Minted
<1> DEFINE r == [stage |-> "signingIn", token |-> minted + 1]
<1>3. r \in Forms
  BY <1>1 DEF Forms
<1>4. form' = [form EXCEPT ![t] = r]
  BY DEF SignIn
<1>5. FormIs(t, r.stage, r.token)
  BY <1>3, <1>4, FormSet
<1> QED
  BY <1>2, <1>5 DEF SignIn, HistoryKept, browserVars, historyVars

\* Its cookie arrives, in place of another that is given up.
LEMMA SignedInDoes ==
  ASSUME SessionTypeOK, NEW t \in Tabs, SignedIn(t)
  PROVE  /\ form[t].stage = "signingIn"
         /\ cookie' = form[t].token
         /\ FormIs(t, "none", 0)
         /\ left' = left \cup FamilyOf(cookie)
         /\ crossed' = IF InFlight # {} \/ \E u \in Tabs \ {t} : form[u].stage # "none"
                       THEN crossed \cup {form[t].token} \cup FamilyOf(cookie) ELSE crossed
         /\ PageOK
         /\ TokensKept /\ UNCHANGED <<lock, job, lost, faults>>
<1>1. FormIs(t, "none", 0)
  BY FormSet, NoFormType DEF SignedIn
<1>2. PageOK
  BY DEF SessionTypeOK, SignedIn, PageOK
<1> QED
  BY <1>1, <1>2 DEF SignedIn, TokensKept, Made, tokenVars

\* A sign-out takes the cookie's token along.
LEMMA SignOutDoes ==
  ASSUME SessionTypeOK, NEW t \in Tabs, SignOut(t)
  PROVE  /\ form[t].stage = "none"
         /\ FormIs(t, IF cookie = 0 THEN "signingOut" ELSE "revoking", cookie)
         /\ crossed' = IF InFlight # {} THEN crossed \cup FamilyOf(cookie) ELSE crossed
         /\ TokensKept /\ UNCHANGED <<cookie, lock, page, job, lost, left, faults>>
<1> DEFINE r == [stage |-> IF cookie = 0 THEN "signingOut" ELSE "revoking", token |-> cookie]
<1>1. r \in Forms
  BY DEF SessionTypeOK, Forms
<1>2. form' = [form EXCEPT ![t] = r]
  BY DEF SignOut
<1>3. FormIs(t, r.stage, r.token)
  BY <1>1, <1>2, FormSet
<1> QED
  BY <1>3 DEF SignOut, TokensKept, Made, tokenVars, browserVars

\* The API revokes it, or cannot be reached.
LEMMA LogoutDoes ==
  ASSUME SessionTypeOK, NEW t \in Tabs, Logout(t)
  PROVE  /\ form[t].stage = "revoking"
         /\ FormIs(t, "signingOut", form[t].token)
         /\ \/ /\ live' = live \ {form[t].token}
               /\ left' = left \cup FamilyOf(form[t].token)
               /\ UNCHANGED faults
            \/ Fault /\ UNCHANGED <<live, left>>
         /\ Made' = Made /\ UNCHANGED <<minted, family, active, cookie, lock, page, job, lost, crossed>>
<1>1. FormIs(t, "signingOut", form[t].token)
  BY DEF Logout, SessionTypeOK, Forms, FormIs
<1> QED
  BY <1>1 DEF Logout, Made, browserVars

\* The cookie is deleted.
LEMMA SignedOutDoes ==
  ASSUME SessionTypeOK, NEW t \in Tabs, SignedOut(t)
  PROVE  /\ form[t].stage = "signingOut"
         /\ cookie' = 0
         /\ FormIs(t, "none", 0)
         /\ left' = left \cup FamilyOf(form[t].token)
         /\ PageOK
         /\ TokensKept /\ UNCHANGED <<lock, job, lost, crossed, faults>>
<1>1. FormIs(t, "none", 0)
  BY FormSet, NoFormType DEF SignedOut
<1>2. PageOK
  BY DEF SessionTypeOK, SignedOut, PageOK
<1> QED
  BY <1>1, <1>2 DEF SignedOut, CookieAfterSignOut, TokensKept, Made, tokenVars

\* The tab goes; its refresh is carried on by a ghost.
LEMMA LoseRefreshDoes ==
  ASSUME SessionTypeOK, NEW t \in Tabs, LoseRefresh(t)
  PROVE  /\ job[t].stage \in AtServer \cup Answers
         /\ faults' = faults + 1 /\ faults' \in Ghosts /\ faults' \in 0..MaxFaults
         /\ faults' # t
         /\ job' \in [Refreshers -> Jobs]
         /\ job'[t].stage = "idle" /\ job'[t].old = 0 /\ job'[t].new = 0
         /\ job'[faults'] = job[t]
         /\ \A v \in Refreshers : v # t /\ v # faults' => job'[v] = job[v]
         /\ lock' = NoTab
         /\ lost' = lost \cup FamilyOf(job[t].old)
         /\ PageOK
         /\ TokensKept /\ UNCHANGED <<cookie, form, crossed, left>>
<1>1. faults' = faults + 1 /\ faults' \in Ghosts /\ faults' \in 0..MaxFaults
  BY Names DEF LoseRefresh, Fault, SessionTypeOK
<1>2. faults' # t /\ t \in Refreshers /\ faults' \in Refreshers
  BY <1>1, Names
<1>3. job' = [job EXCEPT ![t] = NoJob, ![faults'] = job[t]]
  BY DEF LoseRefresh
<1>4. /\ job' \in [Refreshers -> Jobs]
      /\ job'[t] = NoJob /\ job'[faults'] = job[t]
      /\ \A v \in Refreshers : v # t /\ v # faults' => job'[v] = job[v]
  BY <1>2, <1>3, NoJobType DEF SessionTypeOK
<1>5. PageOK
  BY DEF SessionTypeOK, LoseRefresh, PageOK
<1> QED
  BY <1>1, <1>2, <1>4, <1>5, NoJobType DEF LoseRefresh, TokensKept, Made, tokenVars

\* The answer to a sign-in or sign-out does not arrive.
LEMMA LoseFormDoes ==
  ASSUME SessionTypeOK, NEW t \in Tabs, LoseForm(t)
  PROVE  /\ form[t].stage \in {"signingIn", "signingOut"}
         /\ FormIs(t, "none", 0)
         /\ lost' = lost \cup FamilyOf(form[t].token)
         /\ faults' = faults + 1 /\ faults' \in 0..MaxFaults
         /\ PageOK
         /\ TokensKept /\ UNCHANGED <<cookie, lock, job, crossed, left>>
<1>1. FormIs(t, "none", 0)
  BY FormSet, NoFormType DEF LoseForm
<1>2. PageOK
  BY DEF SessionTypeOK, LoseForm, PageOK
<1>3. faults' = faults + 1 /\ faults' \in 0..MaxFaults
  BY Names DEF LoseForm, Fault, SessionTypeOK
<1> QED
  BY <1>1, <1>2, <1>3 DEF LoseForm, TokensKept, Made, tokenVars

\* The page is loaded again.
LEMMA ReloadDoes ==
  ASSUME SessionTypeOK, NEW t \in Tabs, Reload(t)
  PROVE  /\ PageOK
         /\ TokensKept /\ HistoryKept /\ UNCHANGED <<cookie, lock, job, form, faults>>
  BY DEF Reload, SessionTypeOK, PageOK, TokensKept, Made, HistoryKept, tokenVars, historyVars

\* The API finds the token live, or sees a replay.
LEMMA FindDoes ==
  ASSUME SessionTypeOK, NEW w \in Refreshers, Find(w)
  PROVE  /\ job[w].stage = "sent"
         /\ JobIs(w, IF job[w].old \in live THEN "found" ELSE "reused", job[w].old, job[w].new)
         /\ TokensKept /\ HistoryKept /\ UNCHANGED <<cookie, lock, page, form, faults>>
<1>1. (IF Usable(job[w].old) THEN "found" ELSE "reused") \in Stages
  BY StageNames
<1> QED
  BY <1>1, JobMoves DEF Find, Usable, TokensKept, Made, HistoryKept, tokenVars, browserVars, historyVars

\* A replay ends the family.
LEMMA RevokeFamilyDoes ==
  ASSUME SessionTypeOK, NEW w \in Refreshers, RevokeFamily(w)
  PROVE  /\ job[w].stage = "reused"
         /\ live' = {k \in live : family[k] # family[job[w].old]}
         /\ JobIs(w, "rejected", job[w].old, job[w].new)
         /\ HistoryKept /\ Made' = Made /\ UNCHANGED <<minted, family, active, cookie, lock, page, form, faults>>
  BY JobMoves, StageNames DEF RevokeFamily, Made, HistoryKept, browserVars, historyVars

\* The token is revoked, for good if the user is inactive.
LEMMA RevokeDoes ==
  ASSUME SessionTypeOK, NEW w \in Refreshers, Revoke(w)
  PROVE  /\ job[w].stage = "found"
         /\ live' = live \ {job[w].old}
         /\ JobIs(w, IF active THEN "revoked" ELSE "rejected", job[w].old, job[w].new)
         /\ HistoryKept /\ Made' = Made /\ UNCHANGED <<minted, family, active, cookie, lock, page, form, faults>>
<1>1. (IF active THEN "revoked" ELSE "rejected") \in Stages
  BY StageNames
<1> QED
  BY <1>1, JobMoves DEF Revoke, Made, HistoryKept, browserVars, historyVars

\* Its successor is made.
LEMMA CreateDoes ==
  ASSUME SessionTypeOK, RoomInv, TokenInv, JobsInv, FormsInv, NEW w \in Refreshers, Create(w)
  PROVE  /\ job[w].stage = "revoked" /\ job[w].old \in Made /\ job[w].old # 0
         /\ family[job[w].old] \in Made /\ family[family[job[w].old]] = family[job[w].old]
         /\ Minted(family[job[w].old])
         /\ JobIs(w, "rotated", job[w].old, minted')
         /\ HistoryKept /\ UNCHANGED <<active, cookie, lock, page, form, faults>>
<1>1. minted + 1 \in Tokens
  BY RoomToMint DEF Create
<1>2. job[w].old \in Made /\ job[w].old # 0
  BY TokensMade, StageNames, MadeFacts DEF Create
<1>3. /\ family[job[w].old] \in Made /\ family[family[job[w].old]] = family[job[w].old]
      /\ family[job[w].old] \in Tokens \cup {0}
  BY <1>2, MadeFacts DEF SessionTypeOK, TokenInv
<1>4. Minted(family[job[w].old]) /\ minted' = minted + 1
  BY <1>1, <1>3, MintDoes DEF Create, Minted
<1>5. JobIs(w, "rotated", job[w].old, minted + 1)
  BY <1>1, StageNames DEF Create, SessionTypeOK, Jobs, JobIs
<1> QED
  BY <1>2, <1>3, <1>4, <1>5 DEF Create, HistoryKept, browserVars, historyVars

\* The web server has the user's profile, and answers.
LEMMA MeDoes ==
  ASSUME SessionTypeOK, NEW w \in Refreshers, Me(w)
  PROVE  /\ job[w].stage = "rotated"
         /\ JobIs(w, "answered", job[w].old, job[w].new)
         /\ TokensKept /\ HistoryKept /\ UNCHANGED <<cookie, lock, page, form, faults>>
  BY JobMoves, StageNames DEF Me, TokensKept, Made, HistoryKept, tokenVars, browserVars, historyVars

\* A call fails at the server.
LEMMA FailDoes ==
  ASSUME SessionTypeOK, NEW w \in Refreshers, Fail(w)
  PROVE  /\ job[w].stage \in AtServer
         /\ JobIs(w, "failed", job[w].old, job[w].new)
         /\ lost' = IF job[w].stage \in {"revoked", "rotated"}
                    THEN lost \cup FamilyOf(job[w].old) ELSE lost
         /\ faults' = faults + 1 /\ faults' \in 0..MaxFaults
         /\ TokensKept /\ UNCHANGED <<cookie, lock, page, form, crossed, left>>
<1>1. faults' = faults + 1 /\ faults' \in 0..MaxFaults
  BY Names DEF Fail, Fault, SessionTypeOK
<1> QED
  BY <1>1, JobMoves, StageNames DEF Fail, TokensKept, Made, tokenVars, browserVars

\* The answer to a tab that has gone is dropped.
LEMMA DropDoes ==
  ASSUME SessionTypeOK, NEW g \in Ghosts, Drop(g)
  PROVE  /\ job[g].stage \in Answers
         /\ JobIs(g, "idle", 0, 0)
         /\ TokensKept /\ HistoryKept /\ UNCHANGED <<cookie, lock, page, form, faults>>
  BY JobSet, NoJobType, Names DEF Drop, TokensKept, Made, HistoryKept, tokenVars, browserVars, historyVars

\* All sessions of the user are ended.
LEMMA RevokeAllDoes ==
  ASSUME RevokeAll
  PROVE  /\ live' = {}
         /\ active' \in {active, FALSE}
         /\ left' = left \cup {family[k] : k \in Made}
         /\ crossed' = crossed \cup {family[job[w].old] : w \in {v \in InFlight : job[v].old # 0}}
         /\ Made' = Made /\ UNCHANGED <<minted, family, cookie, lock, page, job, form, lost, faults>>
  BY DEF RevokeAll, Made, browserVars

\* Nothing happens.
LEMMA StutterDoes ==
  ASSUME UNCHANGED sessionVars
  PROVE  TokensKept /\ HistoryKept /\ UNCHANGED <<cookie, lock, page, job, form, faults>>
  BY DEF sessionVars, tokenVars, browserVars, historyVars, TokensKept, HistoryKept, Made

-----------------------------------------------------------------------------
(* Tokens, types and room.                                                 *)

\* Every step keeps families, the cookie and the histories to tokens that were made.
LEMMA TokensStay ==
  ASSUME SessionTypeOK, RoomInv, TokenInv, JobsInv, FormsInv, [SessionNext]_sessionVars
  PROVE  TokenInv'
<1>1. CASE RevokeAll
  <2>1. {family[k] : k \in Made} \subseteq Made
    BY DEF TokenInv
  <2>2. {family[job[w].old] : w \in {v \in InFlight : job[v].old # 0}} \subseteq Made
    BY TokensMade DEF TokenInv, InFlight
  <2> QED
    BY <1>1, <2>1, <2>2, RevokeAllDoes DEF TokenInv
<1>2. ASSUME NEW t \in Tabs, StartRefresh(t)
      PROVE  TokenInv'
  BY <1>2, StartRefreshDoes, MadeFacts, FamilyMade, TokensMade, Names, StageNames
  DEF JobIs, TokensKept, HistoryKept, TokenInv
<1>3. ASSUME NEW t \in Tabs, Send(t)
      PROVE  TokenInv'
  BY <1>3, SendDoes, MadeFacts, FamilyMade, TokensMade, Names, StageNames
  DEF JobIs, FamilyOf, TokensKept, TokenInv
<1>4. ASSUME NEW t \in Tabs, Receive(t)
      PROVE  TokenInv'
  <2>1. cookie' \in Made \cup {0}
    BY <1>4, ReceiveDoes, TokensMade, Names DEF Answers, TokenInv
  <2> QED
    BY <1>4, <2>1, ReceiveDoes DEF TokensKept, HistoryKept, TokenInv
<1>5. ASSUME NEW t \in Tabs, SignIn(t)
      PROVE  TokenInv'
  BY <1>5, SignInDoes, MadeFacts, FamilyMade, TokensMade, Names, StageNames
  DEF Minted, FormIs, HistoryKept, TokenInv
<1>6. ASSUME NEW t \in Tabs, SignedIn(t)
      PROVE  TokenInv'
  <2>1. form[t].token \in Made
    <3>1. form[t].stage = "signingIn"
      BY <1>6 DEF SignedIn
    <3> QED
      BY <3>1, TokensMade
  <2>2. FamilyOf(cookie) \subseteq Made
    BY FamilyMade DEF TokenInv
  <2>3. left' \subseteq Made /\ crossed' \subseteq Made /\ cookie' \in Made /\ left \subseteq left'
    BY <1>6, <2>1, <2>2, SignedInDoes DEF TokenInv
  <2> QED
    BY <1>6, <2>3, SignedInDoes DEF TokensKept, TokenInv
<1>7. ASSUME NEW t \in Tabs, SignOut(t)
      PROVE  TokenInv'
  BY <1>7, SignOutDoes, MadeFacts, FamilyMade, TokensMade, Names, StageNames
  DEF FormIs, FamilyOf, TokensKept, TokenInv
<1>8. ASSUME NEW t \in Tabs, Logout(t)
      PROVE  TokenInv'
  BY <1>8, LogoutDoes, MadeFacts, FamilyMade, TokensMade, Names, StageNames
  DEF FormIs, FamilyOf, TokenInv
<1>9. ASSUME NEW t \in Tabs, SignedOut(t)
      PROVE  TokenInv'
  BY <1>9, SignedOutDoes, MadeFacts, FamilyMade, TokensMade, Names, StageNames
  DEF FormIs, FamilyOf, TokensKept, TokenInv
<1>10. ASSUME NEW t \in Tabs, LoseRefresh(t)
      PROVE  TokenInv'
  BY <1>10, LoseRefreshDoes, MadeFacts, FamilyMade, TokensMade, Names, StageNames
  DEF FamilyOf, TokensKept, TokenInv
<1>11. ASSUME NEW t \in Tabs, LoseForm(t)
      PROVE  TokenInv'
  BY <1>11, LoseFormDoes, MadeFacts, FamilyMade, TokensMade, Names, StageNames
  DEF FormIs, FamilyOf, TokensKept, TokenInv
<1>12. ASSUME NEW t \in Tabs, Reload(t)
      PROVE  TokenInv'
  BY <1>12, ReloadDoes, MadeFacts, FamilyMade, TokensMade, Names, StageNames
  DEF TokensKept, HistoryKept, TokenInv
<1>13. ASSUME NEW w \in Refreshers, Find(w)
      PROVE  TokenInv'
  BY <1>13, FindDoes, MadeFacts, FamilyMade, TokensMade, Names, StageNames
  DEF JobIs, TokensKept, HistoryKept, TokenInv
<1>14. ASSUME NEW w \in Refreshers, RevokeFamily(w)
      PROVE  TokenInv'
  BY <1>14, RevokeFamilyDoes, MadeFacts, FamilyMade, TokensMade, Names, StageNames
  DEF JobIs, HistoryKept, TokenInv
<1>15. ASSUME NEW w \in Refreshers, Revoke(w)
      PROVE  TokenInv'
  BY <1>15, RevokeDoes, MadeFacts, FamilyMade, TokensMade, Names, StageNames
  DEF JobIs, HistoryKept, TokenInv
<1>16. ASSUME NEW w \in Refreshers, Create(w)
      PROVE  TokenInv'
  <2>1. job[w].old \in Made
    BY <1>16, TokensMade, StageNames DEF Create
  <2>2. job[w].old \in Tokens
    BY <2>1, MadeFacts
  <2>3. family[job[w].old] \in Made /\ family[family[job[w].old]] = family[job[w].old]
    BY <2>1 DEF TokenInv
  <2> QED
    BY <1>16, <2>1, <2>2, <2>3, CreateDoes, MadeFacts DEF Minted, HistoryKept, TokenInv
<1>17. ASSUME NEW w \in Refreshers, Me(w)
      PROVE  TokenInv'
  BY <1>17, MeDoes, MadeFacts, FamilyMade, TokensMade, Names, StageNames
  DEF JobIs, TokensKept, HistoryKept, TokenInv
<1>18. ASSUME NEW w \in Refreshers, Fail(w)
      PROVE  TokenInv'
  BY <1>18, FailDoes, MadeFacts, FamilyMade, TokensMade, Names, StageNames
  DEF JobIs, FamilyOf, TokensKept, TokenInv
<1>19. ASSUME NEW g \in Ghosts, Drop(g)
      PROVE  TokenInv'
  BY <1>19, DropDoes, MadeFacts, FamilyMade, TokensMade, Names, StageNames
  DEF JobIs, TokensKept, HistoryKept, TokenInv
<1>20. CASE UNCHANGED sessionVars
  BY <1>20, StutterDoes, MadeFacts, FamilyMade, TokensMade, Names, StageNames DEF TokensKept, HistoryKept, TokenInv
<1> QED
  BY <1>1, <1>2, <1>3, <1>4, <1>5, <1>6, <1>7, <1>8, <1>9, <1>10, <1>11, <1>12, <1>13, <1>14, <1>15, <1>16, <1>17, <1>18, <1>19, <1>20
  DEF SessionNext, ServerStep

\* The types of the next state, but for what TokenInv says of it.
LEMMA TypesAgain ==
  ASSUME SessionTypeOK, TokenInv', minted' \in Tokens \cup {0},
         family' \in [Tokens -> Tokens \cup {0}], active' \in BOOLEAN,
         lock' \in Tabs \cup {NoTab}, PageOK,
         job' \in [Refreshers -> Jobs], form' \in [Tabs -> Forms], faults' \in 0..MaxFaults
  PROVE  SessionTypeOK'
<1>1. Made' \subseteq Tokens
  BY BoundAssumption DEF Made, Tokens
<1> QED
  BY <1>1 DEF SessionTypeOK, TokenInv, PageOK

\* Every step keeps the types.
LEMMA SessionTypesKept ==
  ASSUME SessionTypeOK, RoomInv, TokenInv, TokenInv', JobsInv, FormsInv, [SessionNext]_sessionVars
  PROVE  SessionTypeOK'
<1>1. CASE RevokeAll
  BY <1>1, RevokeAllDoes, TypesAgain, Names
  DEF SessionTypeOK, PageOK
<1>2. ASSUME NEW t \in Tabs, StartRefresh(t)
      PROVE  SessionTypeOK'
  BY <1>2, StartRefreshDoes, TypesAgain, Names
  DEF JobIs, TokensKept, HistoryKept, SessionTypeOK, PageOK
<1>3. ASSUME NEW t \in Tabs, Send(t)
      PROVE  SessionTypeOK'
  BY <1>3, SendDoes, TypesAgain, Names
  DEF JobIs, FamilyOf, TokensKept, SessionTypeOK, PageOK
<1>4. ASSUME NEW t \in Tabs, Receive(t)
      PROVE  SessionTypeOK'
  BY <1>4, ReceiveDoes, TypesAgain, Names
  DEF JobIs, TokensKept, HistoryKept, SessionTypeOK, PageOK
<1>5. ASSUME NEW t \in Tabs, SignIn(t)
      PROVE  SessionTypeOK'
  BY <1>5, SignInDoes, TypesAgain, Names
  DEF Minted, FormIs, HistoryKept, SessionTypeOK, PageOK
<1>6. ASSUME NEW t \in Tabs, SignedIn(t)
      PROVE  SessionTypeOK'
  BY <1>6, SignedInDoes, TypesAgain, Names
  DEF FormIs, FamilyOf, TokensKept, SessionTypeOK, PageOK
<1>7. ASSUME NEW t \in Tabs, SignOut(t)
      PROVE  SessionTypeOK'
  BY <1>7, SignOutDoes, TypesAgain, Names
  DEF FormIs, FamilyOf, TokensKept, SessionTypeOK, PageOK
<1>8. ASSUME NEW t \in Tabs, Logout(t)
      PROVE  SessionTypeOK'
  <2>1. faults' \in 0..MaxFaults
    BY <1>8, Names DEF Logout, Fault, SessionTypeOK
  <2> QED
    BY <1>8, <2>1, LogoutDoes, TypesAgain DEF SessionTypeOK, FormIs, PageOK
<1>9. ASSUME NEW t \in Tabs, SignedOut(t)
      PROVE  SessionTypeOK'
  BY <1>9, SignedOutDoes, TypesAgain, Names
  DEF FormIs, FamilyOf, TokensKept, SessionTypeOK, PageOK
<1>10. ASSUME NEW t \in Tabs, LoseRefresh(t)
      PROVE  SessionTypeOK'
  BY <1>10, LoseRefreshDoes, TypesAgain, Names
  DEF FamilyOf, TokensKept, SessionTypeOK, PageOK
<1>11. ASSUME NEW t \in Tabs, LoseForm(t)
      PROVE  SessionTypeOK'
  BY <1>11, LoseFormDoes, TypesAgain, Names
  DEF FormIs, FamilyOf, TokensKept, SessionTypeOK, PageOK
<1>12. ASSUME NEW t \in Tabs, Reload(t)
      PROVE  SessionTypeOK'
  BY <1>12, ReloadDoes, TypesAgain, Names
  DEF TokensKept, HistoryKept, SessionTypeOK, PageOK
<1>13. ASSUME NEW w \in Refreshers, Find(w)
      PROVE  SessionTypeOK'
  BY <1>13, FindDoes, TypesAgain, Names
  DEF JobIs, TokensKept, HistoryKept, SessionTypeOK, PageOK
<1>14. ASSUME NEW w \in Refreshers, RevokeFamily(w)
      PROVE  SessionTypeOK'
  BY <1>14, RevokeFamilyDoes, TypesAgain, Names
  DEF JobIs, HistoryKept, SessionTypeOK, PageOK
<1>15. ASSUME NEW w \in Refreshers, Revoke(w)
      PROVE  SessionTypeOK'
  BY <1>15, RevokeDoes, TypesAgain, Names
  DEF JobIs, HistoryKept, SessionTypeOK, PageOK
<1>16. ASSUME NEW w \in Refreshers, Create(w)
      PROVE  SessionTypeOK'
  <2>1. job[w].old \in Tokens
    BY <1>16, TokensMade, StageNames, MadeFacts DEF Create
  <2> QED
    BY <1>16, <2>1, CreateDoes, TypesAgain DEF Minted, JobIs, HistoryKept, SessionTypeOK
<1>17. ASSUME NEW w \in Refreshers, Me(w)
      PROVE  SessionTypeOK'
  BY <1>17, MeDoes, TypesAgain, Names
  DEF JobIs, TokensKept, HistoryKept, SessionTypeOK, PageOK
<1>18. ASSUME NEW w \in Refreshers, Fail(w)
      PROVE  SessionTypeOK'
  BY <1>18, FailDoes, TypesAgain, Names
  DEF JobIs, FamilyOf, TokensKept, SessionTypeOK, PageOK
<1>19. ASSUME NEW g \in Ghosts, Drop(g)
      PROVE  SessionTypeOK'
  BY <1>19, DropDoes, TypesAgain, Names
  DEF JobIs, TokensKept, HistoryKept, SessionTypeOK, PageOK
<1>20. CASE UNCHANGED sessionVars
  BY <1>20, StutterDoes, TypesAgain, Names DEF TokensKept, HistoryKept, SessionTypeOK, PageOK
<1> QED
  BY <1>1, <1>2, <1>3, <1>4, <1>5, <1>6, <1>7, <1>8, <1>9, <1>10, <1>11, <1>12, <1>13, <1>14, <1>15, <1>16, <1>17, <1>18, <1>19, <1>20
  DEF SessionNext, ServerStep

\* One element more, or none.
LEMMA OneMore ==
  ASSUME NEW S, IsFiniteSet(S), NEW x
  PROVE  /\ IsFiniteSet(S \cup {x}) /\ Cardinality(S) \in Nat /\ Cardinality(S \cup {x}) \in Nat
         /\ Cardinality(S \cup {x}) <= Cardinality(S) + 1
<1>1. IsFiniteSet(S \cup {x}) /\ Cardinality(S) \in Nat /\ Cardinality(S \cup {x}) \in Nat
  BY FS_AddElement, FS_CardinalityType
<1>2. CASE x \in S
  <2>1. S \cup {x} = S
    BY <1>2
  <2>2. Cardinality(S \cup {x}) = Cardinality(S)
    BY <2>1
  <2> QED
    BY <1>1, <2>2
<1>3. CASE x \notin S
  BY <1>1, <1>3, FS_AddElement
<1> QED
  BY <1>2, <1>3

\* Nobody new waits for a token.
LEMMA RoomStays ==
  ASSUME SessionTypeOK, RoomInv, minted' = minted, Busy' \subseteq Busy, Pending' \subseteq Pending
  PROVE  RoomInv'
<1>1. IsFiniteSet(Pending)
  BY FS_Subset DEF RoomInv, Pending, Busy
<1>2. /\ IsFiniteSet(Busy') /\ IsFiniteSet(Pending')
      /\ Cardinality(Pending) \in Nat /\ Cardinality(Pending') \in Nat
      /\ Cardinality(Pending') <= Cardinality(Pending)
  BY <1>1, FS_Subset, FS_CardinalityType DEF RoomInv
<1>3. minted \in Nat /\ MaxTokens \in Nat
  BY BoundAssumption DEF SessionTypeOK, Tokens
<1> QED
  BY <1>2, <1>3 DEF RoomInv

\* How many may still make a token.
LEMMA PendingFinite ==
  ASSUME SessionTypeOK, RoomInv
  PROVE  /\ IsFiniteSet(Busy) /\ IsFiniteSet(Pending) /\ Pending \subseteq Busy
         /\ Cardinality(Pending) \in Nat /\ Cardinality(Busy) \in Nat
         /\ Cardinality(Pending) <= Cardinality(Busy)
         /\ minted \in Nat /\ MaxTokens \in Nat
<1>1. Pending \subseteq Busy /\ IsFiniteSet(Busy)
  BY DEF RoomInv, Pending, Busy
<1> QED
  BY <1>1, FS_Subset, FS_CardinalityType, BoundAssumption DEF SessionTypeOK, Tokens

\* Whoever waits for a token will find room for it.
LEMMA RoomKept ==
  ASSUME SessionTypeOK, RoomInv, TokenInv, JobsInv, FormsInv, [SessionNext]_sessionVars
  PROVE  RoomInv'
<1>1. CASE RevokeAll
  BY <1>1, RevokeAllDoes, RoomStays, StageNames, Names
  DEF Busy, Pending
<1>2. ASSUME NEW t \in Tabs, StartRefresh(t)
      PROVE  RoomInv'
  <2>1. Busy' \subseteq Busy \cup {t} /\ Pending' \subseteq Pending \cup {t}
    BY <1>2, StartRefreshDoes DEF JobIs, Busy, Pending
  <2>2. /\ IsFiniteSet(Busy \cup {t}) /\ IsFiniteSet(Pending \cup {t})
        /\ Cardinality(Pending \cup {t}) <= Cardinality(Pending) + 1
        /\ Cardinality(Pending \cup {t}) \in Nat
    BY PendingFinite, OneMore
  <2>3. /\ IsFiniteSet(Busy') /\ Cardinality(Pending') \in Nat
        /\ Cardinality(Pending') <= Cardinality(Pending \cup {t})
    BY <2>1, <2>2, FS_Subset, FS_CardinalityType
  <2>4. minted + Cardinality(Busy) < MaxTokens /\ minted' = minted
    BY <1>2, StartRefreshDoes DEF RoomForAToken, TokensKept
  <2>5. minted' + Cardinality(Pending') <= MaxTokens
    BY <2>2, <2>3, <2>4, PendingFinite
  <2> QED
    BY <2>3, <2>5 DEF RoomInv
<1>3. ASSUME NEW t \in Tabs, Send(t)
      PROVE  RoomInv'
  BY <1>3, SendDoes, RoomStays, StageNames, Names
  DEF JobIs, FamilyOf, TokensKept, Busy, Pending
<1>4. ASSUME NEW t \in Tabs, Receive(t)
      PROVE  RoomInv'
  BY <1>4, ReceiveDoes, RoomStays, StageNames, Names
  DEF JobIs, TokensKept, HistoryKept, Busy, Pending
<1>5. ASSUME NEW t \in Tabs, SignIn(t)
      PROVE  RoomInv'
  <2>1. Busy' = Busy /\ Pending' = Pending /\ minted' = minted + 1 /\ RoomForAToken
    BY <1>5, SignInDoes DEF Minted, Busy, Pending
  <2>2. minted + 1 + Cardinality(Pending) <= MaxTokens
    BY <2>1, PendingFinite DEF RoomForAToken
  <2> QED
    BY <2>1, <2>2, PendingFinite DEF RoomInv
<1>6. ASSUME NEW t \in Tabs, SignedIn(t)
      PROVE  RoomInv'
  BY <1>6, SignedInDoes, RoomStays, StageNames, Names
  DEF FormIs, FamilyOf, TokensKept, Busy, Pending
<1>7. ASSUME NEW t \in Tabs, SignOut(t)
      PROVE  RoomInv'
  BY <1>7, SignOutDoes, RoomStays, StageNames, Names
  DEF FormIs, FamilyOf, TokensKept, Busy, Pending
<1>8. ASSUME NEW t \in Tabs, Logout(t)
      PROVE  RoomInv'
  BY <1>8, LogoutDoes, RoomStays, StageNames, Names
  DEF FormIs, FamilyOf, Busy, Pending
<1>9. ASSUME NEW t \in Tabs, SignedOut(t)
      PROVE  RoomInv'
  BY <1>9, SignedOutDoes, RoomStays, StageNames, Names
  DEF FormIs, FamilyOf, TokensKept, Busy, Pending
<1>10. ASSUME NEW t \in Tabs, LoseRefresh(t)
      PROVE  RoomInv'
  <2> DEFINE P == Pending \ {t}
  <2>1. PICK g : g = faults'
    OBVIOUS
  <2>2. /\ Busy' \subseteq Busy \cup {g} /\ minted' = minted
        /\ Pending' \subseteq IF t \in Pending THEN P \cup {g} ELSE Pending
    BY <1>10, <2>1, LoseRefreshDoes, Names DEF TokensKept, Busy, Pending
  <2>3. IsFiniteSet(Busy')
    BY <2>2, PendingFinite, OneMore, FS_Subset
  <2>4. CASE t \in Pending
    <3>1. /\ IsFiniteSet(P) /\ Cardinality(P) = Cardinality(Pending) - 1
      BY <2>4, PendingFinite, FS_RemoveElement
    <3>2. /\ IsFiniteSet(P \cup {g}) /\ Cardinality(P \cup {g}) \in Nat /\ Cardinality(P) \in Nat
          /\ Cardinality(P \cup {g}) <= Cardinality(P) + 1
      BY <3>1, OneMore
    <3>3. Cardinality(Pending') \in Nat /\ Cardinality(Pending') <= Cardinality(P \cup {g})
      BY <2>2, <2>4, <3>2, FS_Subset, FS_CardinalityType
    <3>4. minted + Cardinality(Pending) <= MaxTokens
      BY DEF RoomInv
    <3>5. minted' + Cardinality(Pending') <= MaxTokens
      BY <2>2, <3>1, <3>2, <3>3, <3>4, PendingFinite
    <3> QED
      BY <2>3, <3>5 DEF RoomInv
  <2>5. CASE t \notin Pending
    <3>1. Cardinality(Pending') \in Nat /\ Cardinality(Pending') <= Cardinality(Pending)
      BY <2>2, <2>5, PendingFinite, FS_Subset, FS_CardinalityType
    <3>2. minted + Cardinality(Pending) <= MaxTokens
      BY DEF RoomInv
    <3>3. minted' + Cardinality(Pending') <= MaxTokens
      BY <2>2, <3>1, <3>2, PendingFinite
    <3> QED
      BY <2>3, <3>3 DEF RoomInv
  <2> QED
    BY <2>4, <2>5
<1>11. ASSUME NEW t \in Tabs, LoseForm(t)
      PROVE  RoomInv'
  BY <1>11, LoseFormDoes, RoomStays, StageNames, Names
  DEF FormIs, FamilyOf, TokensKept, Busy, Pending
<1>12. ASSUME NEW t \in Tabs, Reload(t)
      PROVE  RoomInv'
  BY <1>12, ReloadDoes, RoomStays, StageNames, Names
  DEF TokensKept, HistoryKept, Busy, Pending
<1>13. ASSUME NEW w \in Refreshers, Find(w)
      PROVE  RoomInv'
  BY <1>13, FindDoes, RoomStays, StageNames, Names
  DEF JobIs, TokensKept, HistoryKept, Busy, Pending
<1>14. ASSUME NEW w \in Refreshers, RevokeFamily(w)
      PROVE  RoomInv'
  BY <1>14, RevokeFamilyDoes, RoomStays, StageNames, Names
  DEF JobIs, HistoryKept, Busy, Pending
<1>15. ASSUME NEW w \in Refreshers, Revoke(w)
      PROVE  RoomInv'
  BY <1>15, RevokeDoes, RoomStays, StageNames, Names
  DEF JobIs, HistoryKept, Busy, Pending
<1>16. ASSUME NEW w \in Refreshers, Create(w)
      PROVE  RoomInv'
  <2>1. job[w].old \in Tokens
    BY <1>16, TokensMade, StageNames, MadeFacts DEF Create
  <2>2. /\ w \in Pending /\ Pending' \subseteq Pending \ {w} /\ Busy' \subseteq Busy
        /\ minted' = minted + 1
    BY <1>16, <2>1, CreateDoes DEF Minted, JobIs, Busy, Pending
  <2>3. IsFiniteSet(Pending \ {w}) /\ Cardinality(Pending \ {w}) = Cardinality(Pending) - 1
    BY <2>2, PendingFinite, FS_RemoveElement
  <2>4. /\ IsFiniteSet(Busy') /\ Cardinality(Pending') \in Nat
        /\ Cardinality(Pending') <= Cardinality(Pending \ {w})
    BY <2>2, <2>3, PendingFinite, FS_Subset, FS_CardinalityType
  <2>5. minted + Cardinality(Pending) <= MaxTokens
    BY DEF RoomInv
  <2>6. minted' + Cardinality(Pending') <= MaxTokens
    BY <2>2, <2>3, <2>4, <2>5, PendingFinite
  <2> QED
    BY <2>4, <2>6 DEF RoomInv
<1>17. ASSUME NEW w \in Refreshers, Me(w)
      PROVE  RoomInv'
  BY <1>17, MeDoes, RoomStays, StageNames, Names
  DEF JobIs, TokensKept, HistoryKept, Busy, Pending
<1>18. ASSUME NEW w \in Refreshers, Fail(w)
      PROVE  RoomInv'
  BY <1>18, FailDoes, RoomStays, StageNames, Names
  DEF JobIs, FamilyOf, TokensKept, Busy, Pending
<1>19. ASSUME NEW g \in Ghosts, Drop(g)
      PROVE  RoomInv'
  BY <1>19, DropDoes, RoomStays, StageNames, Names
  DEF JobIs, TokensKept, HistoryKept, Busy, Pending
<1>20. CASE UNCHANGED sessionVars
  BY <1>20, StutterDoes, RoomStays, StageNames, Names DEF TokensKept, HistoryKept, Busy, Pending
<1> QED
  BY <1>1, <1>2, <1>3, <1>4, <1>5, <1>6, <1>7, <1>8, <1>9, <1>10, <1>11, <1>12, <1>13, <1>14, <1>15, <1>16, <1>17, <1>18, <1>19, <1>20
  DEF SessionNext, ServerStep

\* A fault makes the next ghost.
LEMMA NextGhost ==
  ASSUME SessionTypeOK, Fault
  PROVE  /\ faults' = faults + 1 /\ faults' \in Ghosts
         /\ \A g \in Ghosts : g > faults' => g > faults /\ g # faults'
  BY BoundAssumption DEF SessionTypeOK, Fault, Ghosts

-----------------------------------------------------------------------------
(* The lock and what refreshes carry.                                      *)

\* The tab whose refresh is under way holds the lock, and no other does.
LEMMA LockKept ==
  ASSUME SessionTypeOK, RoomInv, TokenInv, JobsInv, LockInv, FormsInv, [SessionNext]_sessionVars
  PROVE  LockInv'
<1>1. CASE RevokeAll
  BY <1>1, RevokeAllDoes, StageNames, Names, TokensMade, MadeFacts
  DEF LockInv, IsInFlight
<1>2. ASSUME NEW t \in Tabs, StartRefresh(t)
      PROVE  LockInv'
  BY <1>2, StartRefreshDoes, StageNames, Names, TokensMade, MadeFacts
  DEF JobIs, TokensKept, HistoryKept, LockInv, IsInFlight
<1>3. ASSUME NEW t \in Tabs, Send(t)
      PROVE  LockInv'
  BY <1>3, SendDoes, StageNames, Names, TokensMade, MadeFacts
  DEF JobIs, FamilyOf, TokensKept, LockInv, IsInFlight
<1>4. ASSUME NEW t \in Tabs, Receive(t)
      PROVE  LockInv'
  BY <1>4, ReceiveDoes, StageNames, Names, TokensMade, MadeFacts
  DEF JobIs, TokensKept, HistoryKept, LockInv, IsInFlight
<1>5. ASSUME NEW t \in Tabs, SignIn(t)
      PROVE  LockInv'
  BY <1>5, SignInDoes, StageNames, Names, TokensMade, MadeFacts
  DEF Minted, FormIs, HistoryKept, LockInv, IsInFlight
<1>6. ASSUME NEW t \in Tabs, SignedIn(t)
      PROVE  LockInv'
  BY <1>6, SignedInDoes, StageNames, Names, TokensMade, MadeFacts
  DEF FormIs, FamilyOf, TokensKept, LockInv, IsInFlight
<1>7. ASSUME NEW t \in Tabs, SignOut(t)
      PROVE  LockInv'
  BY <1>7, SignOutDoes, StageNames, Names, TokensMade, MadeFacts
  DEF FormIs, FamilyOf, TokensKept, LockInv, IsInFlight
<1>8. ASSUME NEW t \in Tabs, Logout(t)
      PROVE  LockInv'
  BY <1>8, LogoutDoes, StageNames, Names, TokensMade, MadeFacts
  DEF FormIs, FamilyOf, LockInv, IsInFlight
<1>9. ASSUME NEW t \in Tabs, SignedOut(t)
      PROVE  LockInv'
  BY <1>9, SignedOutDoes, StageNames, Names, TokensMade, MadeFacts
  DEF FormIs, FamilyOf, TokensKept, LockInv, IsInFlight
<1>10. ASSUME NEW t \in Tabs, LoseRefresh(t)
      PROVE  LockInv'
  BY <1>10, LoseRefreshDoes, StageNames, Names, TokensMade, MadeFacts
  DEF FamilyOf, TokensKept, LockInv, IsInFlight
<1>11. ASSUME NEW t \in Tabs, LoseForm(t)
      PROVE  LockInv'
  BY <1>11, LoseFormDoes, StageNames, Names, TokensMade, MadeFacts
  DEF FormIs, FamilyOf, TokensKept, LockInv, IsInFlight
<1>12. ASSUME NEW t \in Tabs, Reload(t)
      PROVE  LockInv'
  BY <1>12, ReloadDoes, StageNames, Names, TokensMade, MadeFacts
  DEF TokensKept, HistoryKept, LockInv, IsInFlight
<1>13. ASSUME NEW w \in Refreshers, Find(w)
      PROVE  LockInv'
  BY <1>13, FindDoes, StageNames, Names, TokensMade, MadeFacts
  DEF JobIs, TokensKept, HistoryKept, LockInv, IsInFlight
<1>14. ASSUME NEW w \in Refreshers, RevokeFamily(w)
      PROVE  LockInv'
  BY <1>14, RevokeFamilyDoes, StageNames, Names, TokensMade, MadeFacts
  DEF JobIs, HistoryKept, LockInv, IsInFlight
<1>15. ASSUME NEW w \in Refreshers, Revoke(w)
      PROVE  LockInv'
  BY <1>15, RevokeDoes, StageNames, Names, TokensMade, MadeFacts
  DEF JobIs, HistoryKept, LockInv, IsInFlight
<1>16. ASSUME NEW w \in Refreshers, Create(w)
      PROVE  LockInv'
  BY <1>16, CreateDoes, StageNames, Names, TokensMade, MadeFacts
  DEF Minted, JobIs, HistoryKept, LockInv, IsInFlight
<1>17. ASSUME NEW w \in Refreshers, Me(w)
      PROVE  LockInv'
  BY <1>17, MeDoes, StageNames, Names, TokensMade, MadeFacts
  DEF JobIs, TokensKept, HistoryKept, LockInv, IsInFlight
<1>18. ASSUME NEW w \in Refreshers, Fail(w)
      PROVE  LockInv'
  BY <1>18, FailDoes, StageNames, Names, TokensMade, MadeFacts
  DEF JobIs, FamilyOf, TokensKept, LockInv, IsInFlight
<1>19. ASSUME NEW g \in Ghosts, Drop(g)
      PROVE  LockInv'
  BY <1>19, DropDoes, StageNames, Names, TokensMade, MadeFacts
  DEF JobIs, TokensKept, HistoryKept, LockInv, IsInFlight
<1>20. CASE UNCHANGED sessionVars
  BY <1>20, StutterDoes, StageNames, Names, TokensMade, MadeFacts DEF TokensKept, HistoryKept, LockInv, IsInFlight
<1> QED
  BY <1>1, <1>2, <1>3, <1>4, <1>5, <1>6, <1>7, <1>8, <1>9, <1>10, <1>11, <1>12, <1>13, <1>14, <1>15, <1>16, <1>17, <1>18, <1>19, <1>20
  DEF SessionNext, ServerStep

\* Refreshes name tokens that were made.
LEMMA JobsKept ==
  ASSUME SessionTypeOK, RoomInv, TokenInv, JobsInv, LockInv, FormsInv, [SessionNext]_sessionVars
  PROVE  (\A w \in Refreshers : JobOK(w))'
<1>1. CASE RevokeAll
  BY <1>1, RevokeAllDoes, StageNames, Names, TokensMade, MadeFacts
  DEF JobOK
<1>2. ASSUME NEW t \in Tabs, StartRefresh(t)
      PROVE  (\A w \in Refreshers : JobOK(w))'
  BY <1>2, StartRefreshDoes, StageNames, Names, TokensMade, MadeFacts
  DEF JobIs, TokensKept, HistoryKept, JobOK
<1>3. ASSUME NEW t \in Tabs, Send(t)
      PROVE  (\A w \in Refreshers : JobOK(w))'
  <2>1. cookie \in Made \cup {0} /\ t \in Refreshers
    BY Names DEF TokenInv
  <2>2. /\ job'[t].old = cookie /\ job'[t].new = 0
        /\ job'[t].stage \in {"rejected", "sent"} /\ (job'[t].stage = "sent" => cookie # 0)
        /\ \A v \in Refreshers : v # t => job'[v] = job[v]
    BY <1>3, SendDoes DEF JobIs
  <2>3. Made' = Made /\ family' = family
    BY <1>3, SendDoes DEF TokensKept
  <2> QED
    BY <2>1, <2>2, <2>3, TokensMade, StageNames DEF JobOK, AtServer
<1>4. ASSUME NEW t \in Tabs, Receive(t)
      PROVE  (\A w \in Refreshers : JobOK(w))'
  BY <1>4, ReceiveDoes, StageNames, Names, TokensMade, MadeFacts
  DEF JobIs, TokensKept, HistoryKept, JobOK
<1>5. ASSUME NEW t \in Tabs, SignIn(t)
      PROVE  (\A w \in Refreshers : JobOK(w))'
  BY <1>5, SignInDoes, StageNames, Names, TokensMade, MadeFacts
  DEF Minted, FormIs, HistoryKept, JobOK
<1>6. ASSUME NEW t \in Tabs, SignedIn(t)
      PROVE  (\A w \in Refreshers : JobOK(w))'
  BY <1>6, SignedInDoes, StageNames, Names, TokensMade, MadeFacts
  DEF FormIs, FamilyOf, TokensKept, JobOK
<1>7. ASSUME NEW t \in Tabs, SignOut(t)
      PROVE  (\A w \in Refreshers : JobOK(w))'
  BY <1>7, SignOutDoes, StageNames, Names, TokensMade, MadeFacts
  DEF FormIs, FamilyOf, TokensKept, JobOK
<1>8. ASSUME NEW t \in Tabs, Logout(t)
      PROVE  (\A w \in Refreshers : JobOK(w))'
  BY <1>8, LogoutDoes, StageNames, Names, TokensMade, MadeFacts
  DEF FormIs, FamilyOf, JobOK
<1>9. ASSUME NEW t \in Tabs, SignedOut(t)
      PROVE  (\A w \in Refreshers : JobOK(w))'
  BY <1>9, SignedOutDoes, StageNames, Names, TokensMade, MadeFacts
  DEF FormIs, FamilyOf, TokensKept, JobOK
<1>10. ASSUME NEW t \in Tabs, LoseRefresh(t)
      PROVE  (\A w \in Refreshers : JobOK(w))'
  BY <1>10, LoseRefreshDoes, StageNames, Names, TokensMade, MadeFacts
  DEF FamilyOf, TokensKept, JobOK
<1>11. ASSUME NEW t \in Tabs, LoseForm(t)
      PROVE  (\A w \in Refreshers : JobOK(w))'
  BY <1>11, LoseFormDoes, StageNames, Names, TokensMade, MadeFacts
  DEF FormIs, FamilyOf, TokensKept, JobOK
<1>12. ASSUME NEW t \in Tabs, Reload(t)
      PROVE  (\A w \in Refreshers : JobOK(w))'
  BY <1>12, ReloadDoes, StageNames, Names, TokensMade, MadeFacts
  DEF TokensKept, HistoryKept, JobOK
<1>13. ASSUME NEW w \in Refreshers, Find(w)
      PROVE  (\A v \in Refreshers : JobOK(v))'
  BY <1>13, FindDoes, StageNames, Names, TokensMade, MadeFacts
  DEF JobIs, TokensKept, HistoryKept, JobOK
<1>14. ASSUME NEW w \in Refreshers, RevokeFamily(w)
      PROVE  (\A v \in Refreshers : JobOK(v))'
  BY <1>14, RevokeFamilyDoes, StageNames, Names, TokensMade, MadeFacts
  DEF JobIs, HistoryKept, JobOK
<1>15. ASSUME NEW w \in Refreshers, Revoke(w)
      PROVE  (\A v \in Refreshers : JobOK(v))'
  BY <1>15, RevokeDoes, StageNames, Names, TokensMade, MadeFacts
  DEF JobIs, HistoryKept, JobOK
<1>16. ASSUME NEW w \in Refreshers, Create(w)
      PROVE  (\A v \in Refreshers : JobOK(v))'
  BY <1>16, CreateDoes, StageNames, Names, TokensMade, MadeFacts
  DEF Minted, JobIs, HistoryKept, JobOK
<1>17. ASSUME NEW w \in Refreshers, Me(w)
      PROVE  (\A v \in Refreshers : JobOK(v))'
  BY <1>17, MeDoes, StageNames, Names, TokensMade, MadeFacts
  DEF JobIs, TokensKept, HistoryKept, JobOK
<1>18. ASSUME NEW w \in Refreshers, Fail(w)
      PROVE  (\A v \in Refreshers : JobOK(v))'
  BY <1>18, FailDoes, StageNames, Names, TokensMade, MadeFacts
  DEF JobIs, FamilyOf, TokensKept, JobOK
<1>19. ASSUME NEW g \in Ghosts, Drop(g)
      PROVE  (\A w \in Refreshers : JobOK(w))'
  BY <1>19, DropDoes, StageNames, Names, TokensMade, MadeFacts
  DEF JobIs, TokensKept, HistoryKept, JobOK
<1>20. CASE UNCHANGED sessionVars
  BY <1>20, StutterDoes, StageNames, Names, TokensMade, MadeFacts DEF TokensKept, HistoryKept, JobOK
<1> QED
  BY <1>1, <1>2, <1>3, <1>4, <1>5, <1>6, <1>7, <1>8, <1>9, <1>10, <1>11, <1>12, <1>13, <1>14, <1>15, <1>16, <1>17, <1>18, <1>19, <1>20
  DEF SessionNext, ServerStep

\* Whatever a ghost carries is lost.
LEMMA GhostsKept ==
  ASSUME SessionTypeOK, RoomInv, TokenInv, JobsInv, LockInv, FormsInv, [SessionNext]_sessionVars
  PROVE  (\A g \in Ghosts : GhostOK(g))'
<1>1. CASE RevokeAll
  BY <1>1, RevokeAllDoes, StageNames, Names, TokensMade, MadeFacts
  DEF JobsInv, GhostOK
<1>2. ASSUME NEW t \in Tabs, StartRefresh(t)
      PROVE  (\A g \in Ghosts : GhostOK(g))'
  BY <1>2, StartRefreshDoes, StageNames, Names, TokensMade, MadeFacts
  DEF JobIs, TokensKept, HistoryKept, JobsInv, GhostOK
<1>3. ASSUME NEW t \in Tabs, Send(t)
      PROVE  (\A g \in Ghosts : GhostOK(g))'
  BY <1>3, SendDoes, StageNames, Names, TokensMade, MadeFacts
  DEF JobIs, FamilyOf, TokensKept, JobsInv, GhostOK
<1>4. ASSUME NEW t \in Tabs, Receive(t)
      PROVE  (\A g \in Ghosts : GhostOK(g))'
  BY <1>4, ReceiveDoes, StageNames, Names, TokensMade, MadeFacts
  DEF JobIs, TokensKept, HistoryKept, JobsInv, GhostOK
<1>5. ASSUME NEW t \in Tabs, SignIn(t)
      PROVE  (\A g \in Ghosts : GhostOK(g))'
  BY <1>5, SignInDoes, StageNames, Names, TokensMade, MadeFacts
  DEF Minted, FormIs, HistoryKept, JobsInv, GhostOK
<1>6. ASSUME NEW t \in Tabs, SignedIn(t)
      PROVE  (\A g \in Ghosts : GhostOK(g))'
  BY <1>6, SignedInDoes, StageNames, Names, TokensMade, MadeFacts
  DEF FormIs, FamilyOf, TokensKept, JobsInv, GhostOK
<1>7. ASSUME NEW t \in Tabs, SignOut(t)
      PROVE  (\A g \in Ghosts : GhostOK(g))'
  BY <1>7, SignOutDoes, StageNames, Names, TokensMade, MadeFacts
  DEF FormIs, FamilyOf, TokensKept, JobsInv, GhostOK
<1>8. ASSUME NEW t \in Tabs, Logout(t)
      PROVE  (\A g \in Ghosts : GhostOK(g))'
  <2>1. \A g \in Ghosts : g > faults' => g > faults
    BY <1>8, NextGhost DEF Logout
  <2> QED
    BY <1>8, <2>1, LogoutDoes, Names, StageNames, TokensMade, FamilyMade DEF JobIs, FormIs, TokensKept, JobsInv, GhostOK
<1>9. ASSUME NEW t \in Tabs, SignedOut(t)
      PROVE  (\A g \in Ghosts : GhostOK(g))'
  BY <1>9, SignedOutDoes, StageNames, Names, TokensMade, MadeFacts
  DEF FormIs, FamilyOf, TokensKept, JobsInv, GhostOK
<1>10. ASSUME NEW t \in Tabs, LoseRefresh(t)
      PROVE  (\A g \in Ghosts : GhostOK(g))'
  <2>1. /\ faults' = faults + 1 /\ faults' \in Ghosts
        /\ \A g \in Ghosts : g > faults' => g > faults /\ g # faults'
    BY <1>10, NextGhost DEF LoseRefresh
  <2>2. /\ job'[faults'] = job[t] /\ t \notin Ghosts
        /\ \A v \in Ghosts : v # faults' => job'[v] = job[v]
        /\ lost' = lost \cup FamilyOf(job[t].old) /\ family' = family
    BY <1>10, LoseRefreshDoes, Names DEF TokensKept
  <2>3. job[t].old # 0 => family[job[t].old] \in lost'
    BY <2>2, FamilyMade
  <2> QED
    BY <2>1, <2>2, <2>3 DEF JobsInv, GhostOK
<1>11. ASSUME NEW t \in Tabs, LoseForm(t)
      PROVE  (\A g \in Ghosts : GhostOK(g))'
  <2>1. \A g \in Ghosts : g > faults' => g > faults
    BY <1>11, NextGhost DEF LoseForm
  <2> QED
    BY <1>11, <2>1, LoseFormDoes, Names, StageNames, TokensMade, FamilyMade DEF JobIs, FormIs, TokensKept, JobsInv, GhostOK
<1>12. ASSUME NEW t \in Tabs, Reload(t)
      PROVE  (\A g \in Ghosts : GhostOK(g))'
  BY <1>12, ReloadDoes, StageNames, Names, TokensMade, MadeFacts
  DEF TokensKept, HistoryKept, JobsInv, GhostOK
<1>13. ASSUME NEW w \in Refreshers, Find(w)
      PROVE  (\A g \in Ghosts : GhostOK(g))'
  BY <1>13, FindDoes, StageNames, Names, TokensMade, MadeFacts
  DEF JobIs, TokensKept, HistoryKept, JobsInv, GhostOK
<1>14. ASSUME NEW w \in Refreshers, RevokeFamily(w)
      PROVE  (\A g \in Ghosts : GhostOK(g))'
  BY <1>14, RevokeFamilyDoes, StageNames, Names, TokensMade, MadeFacts
  DEF JobIs, HistoryKept, JobsInv, GhostOK
<1>15. ASSUME NEW w \in Refreshers, Revoke(w)
      PROVE  (\A g \in Ghosts : GhostOK(g))'
  BY <1>15, RevokeDoes, StageNames, Names, TokensMade, MadeFacts
  DEF JobIs, HistoryKept, JobsInv, GhostOK
<1>16. ASSUME NEW w \in Refreshers, Create(w)
      PROVE  (\A g \in Ghosts : GhostOK(g))'
  BY <1>16, CreateDoes, StageNames, Names, TokensMade, MadeFacts
  DEF Minted, JobIs, HistoryKept, JobsInv, GhostOK
<1>17. ASSUME NEW w \in Refreshers, Me(w)
      PROVE  (\A g \in Ghosts : GhostOK(g))'
  BY <1>17, MeDoes, StageNames, Names, TokensMade, MadeFacts
  DEF JobIs, TokensKept, HistoryKept, JobsInv, GhostOK
<1>18. ASSUME NEW w \in Refreshers, Fail(w)
      PROVE  (\A g \in Ghosts : GhostOK(g))'
  <2>1. \A g \in Ghosts : g > faults' => g > faults
    BY <1>18, NextGhost DEF Fail
  <2> QED
    BY <1>18, <2>1, FailDoes, Names, StageNames, TokensMade, FamilyMade DEF JobIs, FormIs, TokensKept, JobsInv, GhostOK
<1>19. ASSUME NEW g \in Ghosts, Drop(g)
      PROVE  (\A h \in Ghosts : GhostOK(h))'
  BY <1>19, DropDoes, StageNames, Names, TokensMade, MadeFacts
  DEF JobIs, TokensKept, HistoryKept, JobsInv, GhostOK
<1>20. CASE UNCHANGED sessionVars
  BY <1>20, StutterDoes, StageNames, Names, TokensMade, MadeFacts DEF TokensKept, HistoryKept, JobsInv, GhostOK
<1> QED
  BY <1>1, <1>2, <1>3, <1>4, <1>5, <1>6, <1>7, <1>8, <1>9, <1>10, <1>11, <1>12, <1>13, <1>14, <1>15, <1>16, <1>17, <1>18, <1>19, <1>20
  DEF SessionNext, ServerStep

-----------------------------------------------------------------------------
(* Sign-ins and sign-outs.                                                 *)

\* Nothing but its sign-in knows a new session.
LEMMA OnlyItsForm ==
  ASSUME SessionTypeOK, TokenInv, JobsInv, FormsInv, NEW u \in Tabs, NEW f,
         form[u].stage = "signingIn", form[u].token = f
  PROVE  /\ f \in Made /\ f # 0 /\ family[f] = f
         /\ \A k \in Made : family[k] = f => k = f
         /\ cookie # f
         /\ f \notin FamilyOf(cookie)
         /\ \A w \in Refreshers : job[w].old # f
         /\ \A w \in Refreshers : job[w].old # 0 => family[job[w].old] # f
         /\ \A w \in Refreshers : job[w].stage \in {"rotated", "answered"} => job[w].new # f
         /\ \A v \in Tabs : v # u => form[v].token # f
         /\ \A v \in Tabs : v # u => f \notin FamilyOf(form[v].token)
         /\ f \in live <=> f \notin left
<1>1. NewSession(u, f)
  BY DEF FormsInv, FormOK
<1>2. f \in Made
  BY <1>1, TokensMade DEF NewSession
<1>3. cookie \in Made \cup {0}
  BY DEF TokenInv
<1>4. \A k \in Made : k # f => family[k] # f
  BY <1>1 DEF NewSession
<1>5. \A k \in Made \cup {0} : k # f => f \notin FamilyOf(k)
  BY <1>4, FamilyMade
<1>6. \A w \in Refreshers : /\ job[w].old # f
                            /\ job[w].old # 0 => family[job[w].old] # f
  BY <1>1, <1>4, TokensMade DEF NewSession
<1>7. \A w \in Refreshers : job[w].stage \in {"rotated", "answered"} => job[w].new # f
  <2>1. ASSUME NEW w \in Refreshers, job[w].stage \in {"rotated", "answered"}
        PROVE  job[w].new # f
    <3>1. job[w].old # 0 /\ family[job[w].new] = family[job[w].old]
      BY <2>1, TokensMade, StageNames
    <3> QED
      BY <1>1, <1>6, <3>1 DEF NewSession
  <2> QED
    BY <2>1
<1> QED
  BY <1>1, <1>2, <1>3, <1>5, <1>6, <1>7, TokensMade DEF NewSession

\* A new session stays new until its answer arrives.
LEMMA NewStays ==
  ASSUME SessionTypeOK, RoomInv, TokenInv, JobsInv, LockInv, FormsInv,
         NEW u \in Tabs, NEW f, form[u].stage = "signingIn", form[u].token = f, form'[u] = form[u], [SessionNext]_sessionVars
  PROVE  NewSession(u, f)'
<1>0. /\ f \in Made /\ f # 0 /\ family[f] = f
      /\ \A k \in Made : family[k] = f => k = f
      /\ cookie # f
      /\ f \notin FamilyOf(cookie)
      /\ \A w \in Refreshers : job[w].old # f
      /\ \A w \in Refreshers : job[w].old # 0 => family[job[w].old] # f
      /\ \A w \in Refreshers : job[w].stage \in {"rotated", "answered"} => job[w].new # f
      /\ \A v \in Tabs : v # u => form[v].token # f
      /\ \A v \in Tabs : v # u => f \notin FamilyOf(form[v].token)
      /\ f \in live <=> f \notin left
  BY OnlyItsForm
<1>1. CASE RevokeAll
  BY <1>1, RevokeAllDoes, <1>0, MadeFacts, Names
  DEF NewSession
<1>2. ASSUME NEW t \in Tabs, StartRefresh(t)
      PROVE  NewSession(u, f)'
  BY <1>2, StartRefreshDoes, <1>0, MadeFacts, Names
  DEF JobIs, TokensKept, HistoryKept, NewSession
<1>3. ASSUME NEW t \in Tabs, Send(t)
      PROVE  NewSession(u, f)'
  BY <1>3, SendDoes, <1>0, MadeFacts, Names
  DEF JobIs, FamilyOf, TokensKept, NewSession
<1>4. ASSUME NEW t \in Tabs, Receive(t)
      PROVE  NewSession(u, f)'
  <2>1. cookie' # f
    BY <1>4, <1>0, ReceiveDoes, Names DEF Answers
  <2> QED
    BY <1>4, <1>0, <2>1, ReceiveDoes DEF JobIs, TokensKept, HistoryKept, NewSession
<1>5. ASSUME NEW t \in Tabs, SignIn(t)
      PROVE  NewSession(u, f)'
  BY <1>5, SignInDoes, <1>0, MadeFacts, Names
  DEF Minted, FormIs, HistoryKept, NewSession
<1>6. ASSUME NEW t \in Tabs, SignedIn(t)
      PROVE  NewSession(u, f)'
  BY <1>6, SignedInDoes, <1>0, MadeFacts, Names
  DEF FormIs, FamilyOf, TokensKept, NewSession
<1>7. ASSUME NEW t \in Tabs, SignOut(t)
      PROVE  NewSession(u, f)'
  BY <1>7, SignOutDoes, <1>0, MadeFacts, Names
  DEF FormIs, FamilyOf, TokensKept, NewSession
<1>8. ASSUME NEW t \in Tabs, Logout(t)
      PROVE  NewSession(u, f)'
  BY <1>8, LogoutDoes, <1>0, MadeFacts, Names
  DEF FormIs, FamilyOf, NewSession
<1>9. ASSUME NEW t \in Tabs, SignedOut(t)
      PROVE  NewSession(u, f)'
  BY <1>9, SignedOutDoes, <1>0, MadeFacts, Names
  DEF FormIs, FamilyOf, TokensKept, NewSession
<1>10. ASSUME NEW t \in Tabs, LoseRefresh(t)
      PROVE  NewSession(u, f)'
  BY <1>10, LoseRefreshDoes, <1>0, MadeFacts, Names
  DEF FamilyOf, TokensKept, NewSession
<1>11. ASSUME NEW t \in Tabs, LoseForm(t)
      PROVE  NewSession(u, f)'
  BY <1>11, LoseFormDoes, <1>0, MadeFacts, Names
  DEF FormIs, FamilyOf, TokensKept, NewSession
<1>12. ASSUME NEW t \in Tabs, Reload(t)
      PROVE  NewSession(u, f)'
  BY <1>12, ReloadDoes, <1>0, MadeFacts, Names
  DEF TokensKept, HistoryKept, NewSession
<1>13. ASSUME NEW w \in Refreshers, Find(w)
      PROVE  NewSession(u, f)'
  BY <1>13, FindDoes, <1>0, MadeFacts, Names
  DEF JobIs, TokensKept, HistoryKept, NewSession
<1>14. ASSUME NEW w \in Refreshers, RevokeFamily(w)
      PROVE  NewSession(u, f)'
  <2>1. job[w].old # 0
    BY <1>14, RevokeFamilyDoes, TokensMade, StageNames
  <2>2. family[job[w].old] # f
    BY <1>0, <2>1
  <2>3. f \in live' <=> f \in live
    BY <1>14, <1>0, <2>2, RevokeFamilyDoes
  <2> QED
    BY <1>14, <1>0, <2>3, RevokeFamilyDoes DEF JobIs, HistoryKept, NewSession
<1>15. ASSUME NEW w \in Refreshers, Revoke(w)
      PROVE  NewSession(u, f)'
  BY <1>15, RevokeDoes, <1>0, MadeFacts, Names
  DEF JobIs, HistoryKept, NewSession
<1>16. ASSUME NEW w \in Refreshers, Create(w)
      PROVE  NewSession(u, f)'
  BY <1>16, CreateDoes, <1>0, MadeFacts, Names
  DEF Minted, JobIs, HistoryKept, NewSession
<1>17. ASSUME NEW w \in Refreshers, Me(w)
      PROVE  NewSession(u, f)'
  BY <1>17, MeDoes, <1>0, MadeFacts, Names
  DEF JobIs, TokensKept, HistoryKept, NewSession
<1>18. ASSUME NEW w \in Refreshers, Fail(w)
      PROVE  NewSession(u, f)'
  BY <1>18, FailDoes, <1>0, MadeFacts, Names
  DEF JobIs, FamilyOf, TokensKept, NewSession
<1>19. ASSUME NEW g \in Ghosts, Drop(g)
      PROVE  NewSession(u, f)'
  BY <1>19, DropDoes, <1>0, MadeFacts, Names
  DEF JobIs, TokensKept, HistoryKept, NewSession
<1>20. CASE UNCHANGED sessionVars
  BY <1>20, StutterDoes, <1>0, MadeFacts, Names DEF TokensKept, HistoryKept, NewSession
<1> QED
  BY <1>1, <1>2, <1>3, <1>4, <1>5, <1>6, <1>7, <1>8, <1>9, <1>10, <1>11, <1>12, <1>13, <1>14, <1>15, <1>16, <1>17, <1>18, <1>19, <1>20
  DEF SessionNext, ServerStep

\* A form that stays as it is stays good.
LEMMA FormStays ==
  ASSUME SessionTypeOK, RoomInv, TokenInv, JobsInv, LockInv, FormsInv, [SessionNext]_sessionVars,
         NEW u \in Tabs, form'[u] = form[u], Made \subseteq Made'
  PROVE  FormOK(u)'
<1>1. FormOK(u)
  BY DEF FormsInv
<1>2. PICK f : f = form[u].token
  OBVIOUS
<1>3. form[u].stage = "signingIn" => NewSession(u, f)'
  BY <1>2, NewStays
<1> QED
  BY <1>1, <1>2, <1>3 DEF FormOK

\* Forms name tokens that were made, and new sessions stay new.
LEMMA FormsKept ==
  ASSUME SessionTypeOK, RoomInv, TokenInv, JobsInv, LockInv, FormsInv, [SessionNext]_sessionVars
  PROVE  FormsInv'
<1>1. CASE RevokeAll
  BY <1>1, RevokeAllDoes, FormStays
  DEF FormsInv
<1>2. ASSUME NEW t \in Tabs, StartRefresh(t)
      PROVE  FormsInv'
  BY <1>2, StartRefreshDoes, FormStays
  DEF JobIs, TokensKept, HistoryKept, FormsInv
<1>3. ASSUME NEW t \in Tabs, Send(t)
      PROVE  FormsInv'
  BY <1>3, SendDoes, FormStays
  DEF JobIs, FamilyOf, TokensKept, FormsInv
<1>4. ASSUME NEW t \in Tabs, Receive(t)
      PROVE  FormsInv'
  BY <1>4, ReceiveDoes, FormStays
  DEF JobIs, TokensKept, HistoryKept, FormsInv
<1>5. ASSUME NEW t \in Tabs, SignIn(t)
      PROVE  FormsInv'
  <2>1. ASSUME NEW u \in Tabs, u # t
        PROVE  FormOK(u)'
    BY <1>5, <2>1, SignInDoes, FormStays DEF FormIs, Minted
  <2>2. /\ form'[t].stage = "signingIn" /\ form'[t].token = minted'
        /\ \A u \in Tabs : u # t => form'[u] = form[u]
    BY <1>5, SignInDoes DEF FormIs
  <2>3. /\ minted' # 0 /\ minted' \in Made' /\ family'[minted'] = minted' /\ minted' \in live'
        /\ minted' \notin left' /\ cookie' # minted'
    BY <1>5, SignInDoes, MadeFacts DEF Minted, HistoryKept, TokenInv
  <2>4. \A k \in Made' : family'[k] = minted' => k = minted'
    BY <1>5, SignInDoes, MadeFacts DEF Minted, TokenInv
  <2>5. \A w \in Refreshers : job'[w].old # minted'
    BY <1>5, SignInDoes, TokensMade, MadeFacts DEF Minted
  <2>6. \A u \in Tabs : u # t => form'[u].token # minted'
    BY <1>5, <2>2, SignInDoes, TokensMade, MadeFacts DEF Minted
  <2>7. FormOK(t)'
    BY <2>2, <2>3, <2>4, <2>5, <2>6 DEF FormOK, NewSession
  <2> QED
    BY <2>1, <2>7 DEF FormsInv
<1>6. ASSUME NEW t \in Tabs, SignedIn(t)
      PROVE  FormsInv'
  <2>1. ASSUME NEW u \in Tabs, u # t
        PROVE  FormOK(u)'
    BY <1>6, <2>1, SignedInDoes, FormStays DEF FormIs, TokensKept
  <2>2. FormOK(t)'
    BY <1>6, SignedInDoes, TokensMade, MadeFacts DEF FormIs, TokensKept, FormOK, TokenInv
  <2> QED
    BY <2>1, <2>2 DEF FormsInv
<1>7. ASSUME NEW t \in Tabs, SignOut(t)
      PROVE  FormsInv'
  <2>1. ASSUME NEW u \in Tabs, u # t
        PROVE  FormOK(u)'
    BY <1>7, <2>1, SignOutDoes, FormStays DEF FormIs, TokensKept
  <2>2. FormOK(t)'
    BY <1>7, SignOutDoes, TokensMade, MadeFacts DEF FormIs, TokensKept, FormOK, TokenInv
  <2> QED
    BY <2>1, <2>2 DEF FormsInv
<1>8. ASSUME NEW t \in Tabs, Logout(t)
      PROVE  FormsInv'
  <2>1. ASSUME NEW u \in Tabs, u # t
        PROVE  FormOK(u)'
    BY <1>8, <2>1, LogoutDoes, FormStays DEF FormIs, TokensKept
  <2>2. FormOK(t)'
    BY <1>8, LogoutDoes, TokensMade, MadeFacts DEF FormIs, TokensKept, FormOK, TokenInv
  <2> QED
    BY <2>1, <2>2 DEF FormsInv
<1>9. ASSUME NEW t \in Tabs, SignedOut(t)
      PROVE  FormsInv'
  <2>1. ASSUME NEW u \in Tabs, u # t
        PROVE  FormOK(u)'
    BY <1>9, <2>1, SignedOutDoes, FormStays DEF FormIs, TokensKept
  <2>2. FormOK(t)'
    BY <1>9, SignedOutDoes, TokensMade, MadeFacts DEF FormIs, TokensKept, FormOK, TokenInv
  <2> QED
    BY <2>1, <2>2 DEF FormsInv
<1>10. ASSUME NEW t \in Tabs, LoseRefresh(t)
      PROVE  FormsInv'
  BY <1>10, LoseRefreshDoes, FormStays
  DEF FamilyOf, TokensKept, FormsInv
<1>11. ASSUME NEW t \in Tabs, LoseForm(t)
      PROVE  FormsInv'
  <2>1. ASSUME NEW u \in Tabs, u # t
        PROVE  FormOK(u)'
    BY <1>11, <2>1, LoseFormDoes, FormStays DEF FormIs, TokensKept
  <2>2. FormOK(t)'
    BY <1>11, LoseFormDoes, TokensMade, MadeFacts DEF FormIs, TokensKept, FormOK, TokenInv
  <2> QED
    BY <2>1, <2>2 DEF FormsInv
<1>12. ASSUME NEW t \in Tabs, Reload(t)
      PROVE  FormsInv'
  BY <1>12, ReloadDoes, FormStays
  DEF TokensKept, HistoryKept, FormsInv
<1>13. ASSUME NEW w \in Refreshers, Find(w)
      PROVE  FormsInv'
  BY <1>13, FindDoes, FormStays
  DEF JobIs, TokensKept, HistoryKept, FormsInv
<1>14. ASSUME NEW w \in Refreshers, RevokeFamily(w)
      PROVE  FormsInv'
  BY <1>14, RevokeFamilyDoes, FormStays
  DEF JobIs, HistoryKept, FormsInv
<1>15. ASSUME NEW w \in Refreshers, Revoke(w)
      PROVE  FormsInv'
  BY <1>15, RevokeDoes, FormStays
  DEF JobIs, HistoryKept, FormsInv
<1>16. ASSUME NEW w \in Refreshers, Create(w)
      PROVE  FormsInv'
  BY <1>16, CreateDoes, FormStays
  DEF Minted, JobIs, HistoryKept, FormsInv
<1>17. ASSUME NEW w \in Refreshers, Me(w)
      PROVE  FormsInv'
  BY <1>17, MeDoes, FormStays
  DEF JobIs, TokensKept, HistoryKept, FormsInv
<1>18. ASSUME NEW w \in Refreshers, Fail(w)
      PROVE  FormsInv'
  BY <1>18, FailDoes, FormStays
  DEF JobIs, FamilyOf, TokensKept, FormsInv
<1>19. ASSUME NEW g \in Ghosts, Drop(g)
      PROVE  FormsInv'
  BY <1>19, DropDoes, FormStays
  DEF JobIs, TokensKept, HistoryKept, FormsInv
<1>20. CASE UNCHANGED sessionVars
  BY <1>20, StutterDoes, FormStays DEF TokensKept, HistoryKept, FormsInv
<1> QED
  BY <1>1, <1>2, <1>3, <1>4, <1>5, <1>6, <1>7, <1>8, <1>9, <1>10, <1>11, <1>12, <1>13, <1>14, <1>15, <1>16, <1>17, <1>18, <1>19, <1>20
  DEF SessionNext, ServerStep

-----------------------------------------------------------------------------
(* What is replayed.                                                       *)

\* While the lock is free, or held by another, no answer is on its way to the cookie.
LEMMA OneUnderway ==
  ASSUME LockInv
  PROVE  /\ lock = NoTab => \A t \in Tabs : ~IsInFlight(t)
         /\ \A t, u \in Tabs : IsInFlight(t) /\ IsInFlight(u) => t = u
  BY TabAssumption DEF LockInv

\* What the ghosts carry is lost.
LEMMA GhostsAreLost ==
  ASSUME JobsInv, TokenInv
  PROVE  \A w \in Refreshers \ Tabs :
           /\ job[w].stage \in AtServer \cup Answers /\ job[w].old # 0 => family[job[w].old] \in lost
           /\ job[w].stage \in {"rotated", "answered"} => family[job[w].new] \in lost
<1>1. \A w \in Refreshers \ Tabs : w \in Ghosts
  BY DEF Refreshers
<1> QED
  BY <1>1, StageNames DEF JobsInv, JobOK, GhostOK

\* A token stays fine when it loses its life only with its family.
LEMMA FineStays ==
  ASSUME NEW k, Fine(k), family'[k] = family[k], lost \subseteq lost', left \subseteq left',
         k \in live => k \in live' \/ family[k] \in lost' \cup left'
  PROVE  Fine(k)'
  BY DEF Fine

\* Two refreshes of one token that are both at the server are lost ones.
LEMMA RevokedTwice ==
  ASSUME SessionTypeOK, TokenInv, JobsInv, LockInv,
         NEW w \in Refreshers, NEW v \in Refreshers, v # w, job[w].stage = "found"
  PROVE  /\ job[v].stage = "sent" /\ job[v].old = job[w].old => family[job[v].old] \in lost
         /\ job[v].stage \in {"rotated", "answered"} /\ job[v].new = job[w].old => family[job[v].new] \in lost
<1>1. job[w].old # 0
  BY StageNames DEF JobsInv, JobOK
<1>2. CASE v \in Tabs /\ w \in Tabs
  BY <1>2, OneUnderway, StageNames DEF IsInFlight
<1>3. CASE v \notin Tabs
  BY <1>1, <1>3, GhostsAreLost, StageNames
<1>4. CASE w \notin Tabs
  BY <1>1, <1>4, GhostsAreLost, StageNames
<1> QED
  BY <1>2, <1>3, <1>4

\* Only what was lost or signed out is replayed.
LEMMA ReplayStays ==
  ASSUME SessionTypeOK, RoomInv, TokenInv, JobsInv, LockInv, FormsInv, ReplayInv, [SessionNext]_sessionVars
  PROVE  (\A w \in Refreshers : ReplayOK(w))'
<1>1. CASE RevokeAll
  BY <1>1, RevokeAllDoes, MadeFacts, TokensMade, StageNames, Names
  DEF ReplayInv, ReplayOK, Fine
<1>2. ASSUME NEW t \in Tabs, StartRefresh(t)
      PROVE  (\A w \in Refreshers : ReplayOK(w))'
  BY <1>2, StartRefreshDoes, MadeFacts, TokensMade, StageNames, Names
  DEF JobIs, TokensKept, HistoryKept, ReplayInv, ReplayOK, Fine
<1>3. ASSUME NEW t \in Tabs, Send(t)
      PROVE  (\A w \in Refreshers : ReplayOK(w))'
  <2>1. \A u \in Tabs : ~IsInFlight(u)
    BY <1>3, SendDoes, OneUnderway
  <2>2. cookie # 0 => Fine(cookie)
    BY <2>1, StageNames DEF ReplayInv, CookieOK, OnItsWay, IsInFlight
  <2>3. ReplayOK(t)'
    BY <1>3, <2>2, SendDoes, Names DEF JobIs, TokensKept, ReplayOK, Fine
  <2>4. ASSUME NEW v \in Refreshers, v # t
        PROVE  ReplayOK(v)'
    BY <1>3, <2>4, SendDoes, Names DEF JobIs, TokensKept, ReplayInv, ReplayOK, Fine
  <2> QED
    BY <2>3, <2>4
<1>4. ASSUME NEW t \in Tabs, Receive(t)
      PROVE  (\A w \in Refreshers : ReplayOK(w))'
  BY <1>4, ReceiveDoes, MadeFacts, TokensMade, StageNames, Names
  DEF JobIs, TokensKept, HistoryKept, ReplayInv, ReplayOK, Fine
<1>5. ASSUME NEW t \in Tabs, SignIn(t)
      PROVE  (\A w \in Refreshers : ReplayOK(w))'
  BY <1>5, SignInDoes, MadeFacts, TokensMade, StageNames, Names
  DEF Minted, FormIs, HistoryKept, ReplayInv, ReplayOK, Fine
<1>6. ASSUME NEW t \in Tabs, SignedIn(t)
      PROVE  (\A w \in Refreshers : ReplayOK(w))'
  BY <1>6, SignedInDoes, MadeFacts, TokensMade, StageNames, Names
  DEF FormIs, FamilyOf, TokensKept, ReplayInv, ReplayOK, Fine
<1>7. ASSUME NEW t \in Tabs, SignOut(t)
      PROVE  (\A w \in Refreshers : ReplayOK(w))'
  BY <1>7, SignOutDoes, MadeFacts, TokensMade, StageNames, Names
  DEF FormIs, FamilyOf, TokensKept, ReplayInv, ReplayOK, Fine
<1>8. ASSUME NEW t \in Tabs, Logout(t)
      PROVE  (\A w \in Refreshers : ReplayOK(w))'
  BY <1>8, LogoutDoes, MadeFacts, TokensMade, StageNames, Names
  DEF FormIs, FamilyOf, ReplayInv, ReplayOK, Fine
<1>9. ASSUME NEW t \in Tabs, SignedOut(t)
      PROVE  (\A w \in Refreshers : ReplayOK(w))'
  BY <1>9, SignedOutDoes, MadeFacts, TokensMade, StageNames, Names
  DEF FormIs, FamilyOf, TokensKept, ReplayInv, ReplayOK, Fine
<1>10. ASSUME NEW t \in Tabs, LoseRefresh(t)
      PROVE  (\A w \in Refreshers : ReplayOK(w))'
  BY <1>10, LoseRefreshDoes, MadeFacts, TokensMade, StageNames, Names
  DEF FamilyOf, TokensKept, ReplayInv, ReplayOK, Fine
<1>11. ASSUME NEW t \in Tabs, LoseForm(t)
      PROVE  (\A w \in Refreshers : ReplayOK(w))'
  BY <1>11, LoseFormDoes, MadeFacts, TokensMade, StageNames, Names
  DEF FormIs, FamilyOf, TokensKept, ReplayInv, ReplayOK, Fine
<1>12. ASSUME NEW t \in Tabs, Reload(t)
      PROVE  (\A w \in Refreshers : ReplayOK(w))'
  BY <1>12, ReloadDoes, MadeFacts, TokensMade, StageNames, Names
  DEF TokensKept, HistoryKept, ReplayInv, ReplayOK, Fine
<1>13. ASSUME NEW w \in Refreshers, Find(w)
      PROVE  (\A v \in Refreshers : ReplayOK(v))'
  BY <1>13, FindDoes, MadeFacts, TokensMade, StageNames, Names
  DEF JobIs, TokensKept, HistoryKept, ReplayInv, ReplayOK, Fine
<1>14. ASSUME NEW w \in Refreshers, RevokeFamily(w)
      PROVE  (\A v \in Refreshers : ReplayOK(v))'
  BY <1>14, RevokeFamilyDoes, MadeFacts, TokensMade, StageNames, Names
  DEF JobIs, HistoryKept, ReplayInv, ReplayOK, Fine
<1>15. ASSUME NEW w \in Refreshers, Revoke(w)
      PROVE  (\A v \in Refreshers : ReplayOK(v))'
  <2>1. ReplayOK(w)'
    BY <1>15, RevokeDoes DEF JobIs, ReplayOK
  <2>2. ASSUME NEW v \in Refreshers, v # w
        PROVE  ReplayOK(v)'
    <3>1. job'[v] = job[v] /\ live' = live \ {job[w].old} /\ family' = family /\ HistoryKept
      BY <1>15, <2>2, RevokeDoes DEF JobIs
    <3>2. job[w].stage = "found" /\ ReplayOK(v)
      BY <1>15, RevokeDoes DEF ReplayInv
    <3> QED
      BY <2>2, <3>1, <3>2, RevokedTwice DEF HistoryKept, ReplayOK, Fine
  <2> QED
    BY <2>1, <2>2
<1>16. ASSUME NEW w \in Refreshers, Create(w)
      PROVE  (\A v \in Refreshers : ReplayOK(v))'
  BY <1>16, CreateDoes, MadeFacts, TokensMade, StageNames, Names
  DEF Minted, JobIs, HistoryKept, ReplayInv, ReplayOK, Fine
<1>17. ASSUME NEW w \in Refreshers, Me(w)
      PROVE  (\A v \in Refreshers : ReplayOK(v))'
  BY <1>17, MeDoes, MadeFacts, TokensMade, StageNames, Names
  DEF JobIs, TokensKept, HistoryKept, ReplayInv, ReplayOK, Fine
<1>18. ASSUME NEW w \in Refreshers, Fail(w)
      PROVE  (\A v \in Refreshers : ReplayOK(v))'
  BY <1>18, FailDoes, MadeFacts, TokensMade, StageNames, Names
  DEF JobIs, FamilyOf, TokensKept, ReplayInv, ReplayOK, Fine
<1>19. ASSUME NEW g \in Ghosts, Drop(g)
      PROVE  (\A w \in Refreshers : ReplayOK(w))'
  BY <1>19, DropDoes, MadeFacts, TokensMade, StageNames, Names
  DEF JobIs, TokensKept, HistoryKept, ReplayInv, ReplayOK, Fine
<1>20. CASE UNCHANGED sessionVars
  BY <1>20, StutterDoes, MadeFacts, TokensMade, StageNames, Names DEF TokensKept, HistoryKept, ReplayInv, ReplayOK, Fine
<1> QED
  BY <1>1, <1>2, <1>3, <1>4, <1>5, <1>6, <1>7, <1>8, <1>9, <1>10, <1>11, <1>12, <1>13, <1>14, <1>15, <1>16, <1>17, <1>18, <1>19, <1>20
  DEF SessionNext, ServerStep

\* The cookie can be refreshed, or its family is lost or left, or the answer is on its way.
LEMMA CookieStays ==
  ASSUME SessionTypeOK, RoomInv, TokenInv, JobsInv, LockInv, FormsInv, ReplayInv, [SessionNext]_sessionVars
  PROVE  CookieOK'
<1>1. CASE RevokeAll
  <2>1. cookie' # 0 => family'[cookie'] \in left'
    BY <1>1, RevokeAllDoes, MadeFacts DEF TokenInv
  <2> QED
    BY <2>1 DEF CookieOK, Fine
<1>2. ASSUME NEW t \in Tabs, StartRefresh(t)
      PROVE  CookieOK'
  BY <1>2, StartRefreshDoes, MadeFacts, TokensMade, StageNames, Names
  DEF JobIs, TokensKept, HistoryKept, ReplayInv, CookieOK, OnItsWay, Fine
<1>3. ASSUME NEW t \in Tabs, Send(t)
      PROVE  CookieOK'
  BY <1>3, SendDoes, MadeFacts, TokensMade, StageNames, Names
  DEF JobIs, FamilyOf, TokensKept, ReplayInv, CookieOK, OnItsWay, Fine
<1>4. ASSUME NEW t \in Tabs, Receive(t)
      PROVE  CookieOK'
  <2>1. CASE job[t].stage = "answered"
    BY <1>4, <2>1, ReceiveDoes, TokensMade, Names DEF TokensKept, HistoryKept, ReplayInv, ReplayOK, CookieOK, Fine
  <2>2. CASE job[t].stage = "rejected"
    BY <1>4, <2>2, ReceiveDoes DEF CookieOK
  <2>3. CASE job[t].stage = "failed"
    <3>1. Fine(cookie)' <=> Fine(cookie)
      BY <1>4, <2>3, ReceiveDoes DEF TokensKept, HistoryKept, Fine
    <3>2. OnItsWay => OnItsWay'
      BY <1>4, <2>3, ReceiveDoes, Names DEF JobIs, OnItsWay
    <3> QED
      BY <1>4, <2>3, <3>1, <3>2, ReceiveDoes DEF ReplayInv, CookieOK
  <2> QED
    BY <1>4, <2>1, <2>2, <2>3, ReceiveDoes DEF Answers
<1>5. ASSUME NEW t \in Tabs, SignIn(t)
      PROVE  CookieOK'
  <2>1. cookie' = cookie
    BY <1>5, SignInDoes
  <2>2. cookie # 0 => (Fine(cookie) => Fine(cookie)')
    BY <1>5, <2>1, SignInDoes DEF Minted, HistoryKept, TokenInv, Fine
  <2>3. OnItsWay => OnItsWay'
    BY <1>5, SignInDoes, Names DEF JobIs, OnItsWay
  <2> QED
    BY <2>1, <2>2, <2>3 DEF ReplayInv, CookieOK
<1>6. ASSUME NEW t \in Tabs, SignedIn(t)
      PROVE  CookieOK'
  <2>1. PICK f : f = form[t].token
    OBVIOUS
  <2>2. form[t].stage = "signingIn" /\ cookie' = f
    BY <1>6, <2>1, SignedInDoes
  <2>3. (f \in live \/ f \in left) /\ family[f] = f
    BY <2>1, <2>2, OnlyItsForm
  <2> QED
    BY <1>6, <2>2, <2>3, SignedInDoes DEF TokensKept, CookieOK, Fine
<1>7. ASSUME NEW t \in Tabs, SignOut(t)
      PROVE  CookieOK'
  BY <1>7, SignOutDoes, MadeFacts, TokensMade, StageNames, Names
  DEF FormIs, FamilyOf, TokensKept, ReplayInv, CookieOK, OnItsWay, Fine
<1>8. ASSUME NEW t \in Tabs, Logout(t)
      PROVE  CookieOK'
  BY <1>8, LogoutDoes, MadeFacts, TokensMade, StageNames, Names
  DEF FormIs, FamilyOf, ReplayInv, CookieOK, OnItsWay, Fine
<1>9. ASSUME NEW t \in Tabs, SignedOut(t)
      PROVE  CookieOK'
  BY <1>9, SignedOutDoes, MadeFacts, TokensMade, StageNames, Names
  DEF FormIs, FamilyOf, TokensKept, ReplayInv, CookieOK, OnItsWay, Fine
<1>10. ASSUME NEW t \in Tabs, LoseRefresh(t)
      PROVE  CookieOK'
  BY <1>10, LoseRefreshDoes, MadeFacts, TokensMade, StageNames, Names
  DEF FamilyOf, TokensKept, ReplayInv, CookieOK, OnItsWay, Fine
<1>11. ASSUME NEW t \in Tabs, LoseForm(t)
      PROVE  CookieOK'
  BY <1>11, LoseFormDoes, MadeFacts, TokensMade, StageNames, Names
  DEF FormIs, FamilyOf, TokensKept, ReplayInv, CookieOK, OnItsWay, Fine
<1>12. ASSUME NEW t \in Tabs, Reload(t)
      PROVE  CookieOK'
  BY <1>12, ReloadDoes, MadeFacts, TokensMade, StageNames, Names
  DEF TokensKept, HistoryKept, ReplayInv, CookieOK, OnItsWay, Fine
<1>13. ASSUME NEW w \in Refreshers, Find(w)
      PROVE  CookieOK'
  BY <1>13, FindDoes, MadeFacts, TokensMade, StageNames, Names
  DEF JobIs, TokensKept, HistoryKept, ReplayInv, CookieOK, OnItsWay, Fine
<1>14. ASSUME NEW w \in Refreshers, RevokeFamily(w)
      PROVE  CookieOK'
  <2>1. cookie' = cookie
    BY <1>14, RevokeFamilyDoes
  <2>2. cookie # 0 => (Fine(cookie) => Fine(cookie)')
    <3>1. family[job[w].old] \in lost \cup left
      BY <1>14, RevokeFamilyDoes DEF ReplayInv, ReplayOK
    <3> QED
      BY <1>14, <2>1, <3>1, RevokeFamilyDoes DEF HistoryKept, Fine
  <2>3. OnItsWay => OnItsWay'
    BY <1>14, RevokeFamilyDoes, Names DEF JobIs, OnItsWay
  <2> QED
    BY <2>1, <2>2, <2>3 DEF ReplayInv, CookieOK
<1>15. ASSUME NEW w \in Refreshers, Revoke(w)
      PROVE  CookieOK'
  <2>1. /\ cookie' = cookie /\ family' = family /\ live' = live \ {job[w].old} /\ HistoryKept
        /\ job[w].stage = "found" /\ job[w].old # 0
    BY <1>15, RevokeDoes, TokensMade, StageNames
  <2>2. CASE cookie = job[w].old
    <3>1. CASE w \in Tabs
      <4>1. OnItsWay'
        BY <1>15, <2>2, <3>1, RevokeDoes DEF JobIs, OnItsWay
      <4> QED
        BY <4>1 DEF CookieOK
    <3>2. CASE w \notin Tabs
      <4>1. family[cookie] \in lost
        BY <2>1, <2>2, <3>2, GhostsAreLost, StageNames
      <4> QED
        BY <2>1, <4>1 DEF HistoryKept, CookieOK, Fine
    <3> QED
      BY <3>1, <3>2
  <2>3. CASE cookie # job[w].old
    <3>1. Fine(cookie) => Fine(cookie)'
      BY <2>1, <2>3 DEF HistoryKept, Fine
    <3>2. OnItsWay => OnItsWay'
      BY <1>15, <2>1, <2>3, RevokeDoes, Names DEF JobIs, OnItsWay
    <3> QED
      BY <2>1, <3>1, <3>2 DEF ReplayInv, CookieOK
  <2> QED
    BY <2>2, <2>3
<1>16. ASSUME NEW w \in Refreshers, Create(w)
      PROVE  CookieOK'
  <2>1. cookie' = cookie
    BY <1>16, CreateDoes
  <2>2. cookie # 0 => (Fine(cookie) => Fine(cookie)')
    BY <1>16, <2>1, CreateDoes DEF Minted, HistoryKept, TokenInv, Fine
  <2>3. OnItsWay => OnItsWay'
    BY <1>16, CreateDoes, Names DEF JobIs, OnItsWay
  <2> QED
    BY <2>1, <2>2, <2>3 DEF ReplayInv, CookieOK
<1>17. ASSUME NEW w \in Refreshers, Me(w)
      PROVE  CookieOK'
  BY <1>17, MeDoes, MadeFacts, TokensMade, StageNames, Names
  DEF JobIs, TokensKept, HistoryKept, ReplayInv, CookieOK, OnItsWay, Fine
<1>18. ASSUME NEW w \in Refreshers, Fail(w)
      PROVE  CookieOK'
  <2>1. cookie' = cookie /\ family' = family /\ live' = live /\ left' = left
    BY <1>18, FailDoes DEF TokensKept
  <2>2. lost \subseteq lost' /\ (job[w].stage \in {"revoked", "rotated"} => FamilyOf(job[w].old) \subseteq lost')
    BY <1>18, FailDoes
  <2>3. Fine(cookie) => Fine(cookie)'
    BY <2>1, <2>2 DEF Fine
  <2>4. CASE job[w].old = cookie /\ job[w].stage \in {"revoked", "rotated"}
    <3>1. cookie # 0 => family[cookie] \in lost'
      BY <2>2, <2>4, FamilyMade
    <3> QED
      BY <2>1, <3>1 DEF CookieOK, Fine
  <2>5. CASE ~(job[w].old = cookie /\ job[w].stage \in {"revoked", "rotated"})
    <3>1. job[w].stage \notin {"answered", "rejected"}
      BY <1>18, FailDoes DEF AtServer
    <3>2. OnItsWay => OnItsWay'
      BY <1>18, <2>1, <2>5, <3>1, FailDoes, Names DEF JobIs, OnItsWay
    <3> QED
      BY <2>1, <2>3, <3>2 DEF ReplayInv, CookieOK
  <2> QED
    BY <2>4, <2>5
<1>19. ASSUME NEW g \in Ghosts, Drop(g)
      PROVE  CookieOK'
  BY <1>19, DropDoes, MadeFacts, TokensMade, StageNames, Names
  DEF JobIs, TokensKept, HistoryKept, ReplayInv, CookieOK, OnItsWay, Fine
<1>20. CASE UNCHANGED sessionVars
  BY <1>20, StutterDoes, MadeFacts, TokensMade, StageNames, Names DEF TokensKept, HistoryKept, ReplayInv, CookieOK, OnItsWay, Fine
<1> QED
  BY <1>1, <1>2, <1>3, <1>4, <1>5, <1>6, <1>7, <1>8, <1>9, <1>10, <1>11, <1>12, <1>13, <1>14, <1>15, <1>16, <1>17, <1>18, <1>19, <1>20
  DEF SessionNext, ServerStep

-----------------------------------------------------------------------------
(* What was signed out.                                                    *)

\* The cookie of a session that was signed out opens nothing.
LEMMA SignedOutStays ==
  ASSUME SessionTypeOK, RoomInv, TokenInv, JobsInv, LockInv, FormsInv, OutInv, [SessionNext]_sessionVars
  PROVE  SignedOutStaysOut'
<1>1. CASE RevokeAll
  BY <1>1, RevokeAllDoes, MadeFacts, TokensMade, StageNames, Names
  DEF TokenInv, OutInv, SignedOutStaysOut, Gone
<1>2. ASSUME NEW t \in Tabs, StartRefresh(t)
      PROVE  SignedOutStaysOut'
  BY <1>2, StartRefreshDoes, MadeFacts, TokensMade, StageNames, Names
  DEF JobIs, TokensKept, HistoryKept, TokenInv, OutInv, SignedOutStaysOut, Gone
<1>3. ASSUME NEW t \in Tabs, Send(t)
      PROVE  SignedOutStaysOut'
  BY <1>3, SendDoes, MadeFacts, TokensMade, StageNames, Names
  DEF JobIs, FamilyOf, TokensKept, TokenInv, OutInv, SignedOutStaysOut, Gone
<1>4. ASSUME NEW t \in Tabs, Receive(t)
      PROVE  SignedOutStaysOut'
  <2>1. /\ family' = family /\ live' = live /\ HistoryKept
    BY <1>4, ReceiveDoes DEF TokensKept
  <2>2. CASE job[t].stage = "answered"
    <3>1. /\ job[t].old # 0 /\ family[job[t].new] = family[job[t].old] /\ IsInFlight(t)
          /\ cookie' = job[t].new
      BY <1>4, <2>2, ReceiveDoes, TokensMade, StageNames, Names DEF IsInFlight
    <3>2. family[job[t].old] \notin Gone
      BY <2>2, <3>1, Names DEF OutInv, OutJob
    <3> QED
      BY <2>1, <3>1, <3>2 DEF HistoryKept, SignedOutStaysOut, Gone
  <2>3. CASE job[t].stage = "rejected"
    BY <1>4, <2>3, ReceiveDoes DEF SignedOutStaysOut
  <2>4. CASE job[t].stage = "failed"
    BY <1>4, <2>1, <2>4, ReceiveDoes DEF HistoryKept, OutInv, SignedOutStaysOut, Gone
  <2> QED
    BY <1>4, <2>2, <2>3, <2>4, ReceiveDoes DEF Answers
<1>5. ASSUME NEW t \in Tabs, SignIn(t)
      PROVE  SignedOutStaysOut'
  BY <1>5, SignInDoes, MadeFacts, TokensMade, StageNames, Names
  DEF Minted, FormIs, HistoryKept, TokenInv, OutInv, SignedOutStaysOut, Gone
<1>6. ASSUME NEW t \in Tabs, SignedIn(t)
      PROVE  SignedOutStaysOut'
  <2>1. PICK f : f = form[t].token
    OBVIOUS
  <2>2. /\ form[t].stage = "signingIn" /\ cookie' = f /\ family' = family /\ live' = live
        /\ left' = left \cup FamilyOf(cookie)
    BY <1>6, <2>1, SignedInDoes DEF TokensKept
  <2>3. (f \in live <=> f \notin left) /\ family[f] = f /\ f \notin FamilyOf(cookie)
    BY <2>1, <2>2, OnlyItsForm
  <2> QED
    BY <2>2, <2>3 DEF SignedOutStaysOut, Gone
<1>7. ASSUME NEW t \in Tabs, SignOut(t)
      PROVE  SignedOutStaysOut'
  BY <1>7, SignOutDoes, MadeFacts, TokensMade, StageNames, Names
  DEF FormIs, FamilyOf, TokensKept, TokenInv, OutInv, SignedOutStaysOut, Gone
<1>8. ASSUME NEW t \in Tabs, Logout(t)
      PROVE  SignedOutStaysOut'
  <2>1. PICK k : k = form[t].token
    OBVIOUS
  <2>2. /\ cookie' = cookie /\ family' = family /\ lost' = lost /\ crossed' = crossed
        /\ SigningOut(t) /\ k # 0
        /\ \/ live' = live \ {k} /\ left' = left \cup {family[k]}
           \/ live' = live /\ left' = left
    BY <1>8, <2>1, LogoutDoes, TokensMade, FamilyMade DEF SigningOut
  <2>3. family[k] \notin crossed \cup lost /\ cookie # 0 /\ family[cookie] = family[k] => cookie = k
    BY <2>1, <2>2 DEF OutInv, OutForm
  <2> QED
    BY <2>2, <2>3 DEF OutInv, SignedOutStaysOut, Gone
<1>9. ASSUME NEW t \in Tabs, SignedOut(t)
      PROVE  SignedOutStaysOut'
  BY <1>9, SignedOutDoes, MadeFacts, TokensMade, StageNames, Names
  DEF FormIs, FamilyOf, TokensKept, TokenInv, OutInv, SignedOutStaysOut, Gone
<1>10. ASSUME NEW t \in Tabs, LoseRefresh(t)
      PROVE  SignedOutStaysOut'
  BY <1>10, LoseRefreshDoes, MadeFacts, TokensMade, StageNames, Names
  DEF FamilyOf, TokensKept, TokenInv, OutInv, SignedOutStaysOut, Gone
<1>11. ASSUME NEW t \in Tabs, LoseForm(t)
      PROVE  SignedOutStaysOut'
  BY <1>11, LoseFormDoes, MadeFacts, TokensMade, StageNames, Names
  DEF FormIs, FamilyOf, TokensKept, TokenInv, OutInv, SignedOutStaysOut, Gone
<1>12. ASSUME NEW t \in Tabs, Reload(t)
      PROVE  SignedOutStaysOut'
  BY <1>12, ReloadDoes, MadeFacts, TokensMade, StageNames, Names
  DEF TokensKept, HistoryKept, TokenInv, OutInv, SignedOutStaysOut, Gone
<1>13. ASSUME NEW w \in Refreshers, Find(w)
      PROVE  SignedOutStaysOut'
  BY <1>13, FindDoes, MadeFacts, TokensMade, StageNames, Names
  DEF JobIs, TokensKept, HistoryKept, TokenInv, OutInv, SignedOutStaysOut, Gone
<1>14. ASSUME NEW w \in Refreshers, RevokeFamily(w)
      PROVE  SignedOutStaysOut'
  BY <1>14, RevokeFamilyDoes, MadeFacts, TokensMade, StageNames, Names
  DEF JobIs, HistoryKept, TokenInv, OutInv, SignedOutStaysOut, Gone
<1>15. ASSUME NEW w \in Refreshers, Revoke(w)
      PROVE  SignedOutStaysOut'
  BY <1>15, RevokeDoes, MadeFacts, TokensMade, StageNames, Names
  DEF JobIs, HistoryKept, TokenInv, OutInv, SignedOutStaysOut, Gone
<1>16. ASSUME NEW w \in Refreshers, Create(w)
      PROVE  SignedOutStaysOut'
  BY <1>16, CreateDoes, MadeFacts, TokensMade, StageNames, Names
  DEF Minted, JobIs, HistoryKept, TokenInv, OutInv, SignedOutStaysOut, Gone
<1>17. ASSUME NEW w \in Refreshers, Me(w)
      PROVE  SignedOutStaysOut'
  BY <1>17, MeDoes, MadeFacts, TokensMade, StageNames, Names
  DEF JobIs, TokensKept, HistoryKept, TokenInv, OutInv, SignedOutStaysOut, Gone
<1>18. ASSUME NEW w \in Refreshers, Fail(w)
      PROVE  SignedOutStaysOut'
  BY <1>18, FailDoes, MadeFacts, TokensMade, StageNames, Names
  DEF JobIs, FamilyOf, TokensKept, TokenInv, OutInv, SignedOutStaysOut, Gone
<1>19. ASSUME NEW g \in Ghosts, Drop(g)
      PROVE  SignedOutStaysOut'
  BY <1>19, DropDoes, MadeFacts, TokensMade, StageNames, Names
  DEF JobIs, TokensKept, HistoryKept, TokenInv, OutInv, SignedOutStaysOut, Gone
<1>20. CASE UNCHANGED sessionVars
  BY <1>20, StutterDoes, MadeFacts, TokensMade, StageNames, Names DEF TokensKept, HistoryKept, TokenInv, OutInv, SignedOutStaysOut, Gone
<1> QED
  BY <1>1, <1>2, <1>3, <1>4, <1>5, <1>6, <1>7, <1>8, <1>9, <1>10, <1>11, <1>12, <1>13, <1>14, <1>15, <1>16, <1>17, <1>18, <1>19, <1>20
  DEF SessionNext, ServerStep

\* A refresh of a session that was signed out finds its token revoked.
LEMMA OutJobsStay ==
  ASSUME SessionTypeOK, RoomInv, TokenInv, JobsInv, LockInv, FormsInv, OutInv, [SessionNext]_sessionVars
  PROVE  (\A w \in Refreshers : OutJob(w))'
<1>1. CASE RevokeAll
  <2>1. ASSUME NEW w \in Refreshers
        PROVE  OutJob(w)'
    <3>1. job' = job /\ family' = family
      BY <1>1, RevokeAllDoes
    <3>2. CASE IsInFlight(w) /\ job[w].old # 0
      <4>1. family[job[w].old] \in crossed'
        BY <1>1, <3>2, RevokeAllDoes DEF InFlight, IsInFlight
      <4> QED
        BY <3>1, <4>1 DEF OutJob, Gone
    <3>3. CASE ~(IsInFlight(w) /\ job[w].old # 0)
      BY <3>1, <3>3 DEF OutJob, IsInFlight
    <3> QED
      BY <3>2, <3>3
  <2> QED
    BY <2>1
<1>2. ASSUME NEW t \in Tabs, StartRefresh(t)
      PROVE  (\A w \in Refreshers : OutJob(w))'
  BY <1>2, StartRefreshDoes, MadeFacts, TokensMade, StageNames, Names
  DEF JobIs, TokensKept, HistoryKept, TokenInv, OutInv, OutJob, SignedOutStaysOut, Gone, IsInFlight
<1>3. ASSUME NEW t \in Tabs, Send(t)
      PROVE  (\A w \in Refreshers : OutJob(w))'
  BY <1>3, SendDoes, MadeFacts, TokensMade, StageNames, Names
  DEF JobIs, FamilyOf, TokensKept, TokenInv, OutInv, OutJob, SignedOutStaysOut, Gone, IsInFlight
<1>4. ASSUME NEW t \in Tabs, Receive(t)
      PROVE  (\A w \in Refreshers : OutJob(w))'
  BY <1>4, ReceiveDoes, MadeFacts, TokensMade, StageNames, Names
  DEF JobIs, TokensKept, HistoryKept, TokenInv, OutInv, OutJob, SignedOutStaysOut, Gone, IsInFlight
<1>5. ASSUME NEW t \in Tabs, SignIn(t)
      PROVE  (\A w \in Refreshers : OutJob(w))'
  BY <1>5, SignInDoes, MadeFacts, TokensMade, StageNames, Names
  DEF Minted, FormIs, HistoryKept, TokenInv, OutInv, OutJob, SignedOutStaysOut, Gone, IsInFlight
<1>6. ASSUME NEW t \in Tabs, SignedIn(t)
      PROVE  (\A w \in Refreshers : OutJob(w))'
  <2>1. ASSUME NEW w \in Refreshers, IsInFlight(w), job[w].old # 0, family[job[w].old] \in Gone'
        PROVE  family[job[w].old] \in Gone
    <3>1. InFlight # {}
      BY <2>1 DEF IsInFlight, InFlight
    <3>2. FamilyOf(cookie) \subseteq crossed' /\ crossed \subseteq crossed' /\ lost' = lost
          /\ left' = left \cup FamilyOf(cookie)
      BY <1>6, <3>1, SignedInDoes
    <3> QED
      BY <2>1, <3>2 DEF Gone
  <2>2. job' = job /\ live' = live /\ family' = family
    BY <1>6, SignedInDoes DEF TokensKept
  <2> QED
    BY <2>1, <2>2 DEF OutInv, OutJob, IsInFlight
<1>7. ASSUME NEW t \in Tabs, SignOut(t)
      PROVE  (\A w \in Refreshers : OutJob(w))'
  BY <1>7, SignOutDoes, MadeFacts, TokensMade, StageNames, Names
  DEF FormIs, FamilyOf, TokensKept, TokenInv, OutInv, OutJob, SignedOutStaysOut, Gone, IsInFlight
<1>8. ASSUME NEW t \in Tabs, Logout(t)
      PROVE  (\A w \in Refreshers : OutJob(w))'
  <2>1. PICK k : k = form[t].token
    OBVIOUS
  <2>2. /\ SigningOut(t) /\ job' = job /\ family' = family /\ live' \subseteq live
        /\ crossed' = crossed /\ lost' = lost
        /\ left' \subseteq left \cup FamilyOf(k)
    BY <1>8, <2>1, LogoutDoes DEF SigningOut, TokensKept
  <2>3. ASSUME NEW w \in Refreshers, IsInFlight(w), job[w].old # 0, family[job[w].old] \in Gone'
        PROVE  family[job[w].old] \in Gone
    <3>1. k # 0 /\ family[k] \notin crossed \cup lost => family[job[w].old] # family[k]
      BY <2>1, <2>2, <2>3 DEF OutInv, OutForm
    <3>2. FamilyOf(k) = IF k = 0 THEN {} ELSE {family[k]}
      BY FamilyMade
    <3> QED
      BY <2>2, <2>3, <3>1, <3>2 DEF Gone
  <2> QED
    BY <2>2, <2>3 DEF OutInv, OutJob, IsInFlight
<1>9. ASSUME NEW t \in Tabs, SignedOut(t)
      PROVE  (\A w \in Refreshers : OutJob(w))'
  <2>1. PICK k : k = form[t].token
    OBVIOUS
  <2>2. /\ SigningOut(t) /\ job' = job /\ family' = family /\ live' \subseteq live
        /\ crossed' = crossed /\ lost' = lost
        /\ left' \subseteq left \cup FamilyOf(k)
    BY <1>9, <2>1, SignedOutDoes DEF SigningOut, TokensKept
  <2>3. ASSUME NEW w \in Refreshers, IsInFlight(w), job[w].old # 0, family[job[w].old] \in Gone'
        PROVE  family[job[w].old] \in Gone
    <3>1. k # 0 /\ family[k] \notin crossed \cup lost => family[job[w].old] # family[k]
      BY <2>1, <2>2, <2>3 DEF OutInv, OutForm
    <3>2. FamilyOf(k) = IF k = 0 THEN {} ELSE {family[k]}
      BY FamilyMade
    <3> QED
      BY <2>2, <2>3, <3>1, <3>2 DEF Gone
  <2> QED
    BY <2>2, <2>3 DEF OutInv, OutJob, IsInFlight
<1>10. ASSUME NEW t \in Tabs, LoseRefresh(t)
      PROVE  (\A w \in Refreshers : OutJob(w))'
  BY <1>10, LoseRefreshDoes, MadeFacts, TokensMade, StageNames, Names
  DEF FamilyOf, TokensKept, TokenInv, OutInv, OutJob, SignedOutStaysOut, Gone, IsInFlight
<1>11. ASSUME NEW t \in Tabs, LoseForm(t)
      PROVE  (\A w \in Refreshers : OutJob(w))'
  BY <1>11, LoseFormDoes, MadeFacts, TokensMade, StageNames, Names
  DEF FormIs, FamilyOf, TokensKept, TokenInv, OutInv, OutJob, SignedOutStaysOut, Gone, IsInFlight
<1>12. ASSUME NEW t \in Tabs, Reload(t)
      PROVE  (\A w \in Refreshers : OutJob(w))'
  BY <1>12, ReloadDoes, MadeFacts, TokensMade, StageNames, Names
  DEF TokensKept, HistoryKept, TokenInv, OutInv, OutJob, SignedOutStaysOut, Gone, IsInFlight
<1>13. ASSUME NEW w \in Refreshers, Find(w)
      PROVE  (\A v \in Refreshers : OutJob(v))'
  BY <1>13, FindDoes, MadeFacts, TokensMade, StageNames, Names
  DEF JobIs, TokensKept, HistoryKept, TokenInv, OutInv, OutJob, SignedOutStaysOut, Gone, IsInFlight
<1>14. ASSUME NEW w \in Refreshers, RevokeFamily(w)
      PROVE  (\A v \in Refreshers : OutJob(v))'
  BY <1>14, RevokeFamilyDoes, MadeFacts, TokensMade, StageNames, Names
  DEF JobIs, HistoryKept, TokenInv, OutInv, OutJob, SignedOutStaysOut, Gone, IsInFlight
<1>15. ASSUME NEW w \in Refreshers, Revoke(w)
      PROVE  (\A v \in Refreshers : OutJob(v))'
  BY <1>15, RevokeDoes, MadeFacts, TokensMade, StageNames, Names
  DEF JobIs, HistoryKept, TokenInv, OutInv, OutJob, SignedOutStaysOut, Gone, IsInFlight
<1>16. ASSUME NEW w \in Refreshers, Create(w)
      PROVE  (\A v \in Refreshers : OutJob(v))'
  BY <1>16, CreateDoes, MadeFacts, TokensMade, StageNames, Names
  DEF Minted, JobIs, HistoryKept, TokenInv, OutInv, OutJob, SignedOutStaysOut, Gone, IsInFlight
<1>17. ASSUME NEW w \in Refreshers, Me(w)
      PROVE  (\A v \in Refreshers : OutJob(v))'
  BY <1>17, MeDoes, MadeFacts, TokensMade, StageNames, Names
  DEF JobIs, TokensKept, HistoryKept, TokenInv, OutInv, OutJob, SignedOutStaysOut, Gone, IsInFlight
<1>18. ASSUME NEW w \in Refreshers, Fail(w)
      PROVE  (\A v \in Refreshers : OutJob(v))'
  BY <1>18, FailDoes, MadeFacts, TokensMade, StageNames, Names
  DEF JobIs, FamilyOf, TokensKept, TokenInv, OutInv, OutJob, SignedOutStaysOut, Gone, IsInFlight
<1>19. ASSUME NEW g \in Ghosts, Drop(g)
      PROVE  (\A w \in Refreshers : OutJob(w))'
  BY <1>19, DropDoes, MadeFacts, TokensMade, StageNames, Names
  DEF JobIs, TokensKept, HistoryKept, TokenInv, OutInv, OutJob, SignedOutStaysOut, Gone, IsInFlight
<1>20. CASE UNCHANGED sessionVars
  BY <1>20, StutterDoes, MadeFacts, TokensMade, StageNames, Names DEF TokensKept, HistoryKept, TokenInv, OutInv, OutJob, SignedOutStaysOut, Gone, IsInFlight
<1> QED
  BY <1>1, <1>2, <1>3, <1>4, <1>5, <1>6, <1>7, <1>8, <1>9, <1>10, <1>11, <1>12, <1>13, <1>14, <1>15, <1>16, <1>17, <1>18, <1>19, <1>20
  DEF SessionNext, ServerStep

\* A sign-out that crossed no refresh names the cookie.
LEMMA OutFormsStay ==
  ASSUME SessionTypeOK, RoomInv, TokenInv, JobsInv, LockInv, FormsInv, OutInv, [SessionNext]_sessionVars
  PROVE  (\A u \in Tabs : OutForm(u))'
<1>1. CASE RevokeAll
  BY <1>1, RevokeAllDoes, MadeFacts, TokensMade, StageNames, Names
  DEF TokenInv, OutInv, OutForm, SigningOut, IsInFlight
<1>2. ASSUME NEW t \in Tabs, StartRefresh(t)
      PROVE  (\A u \in Tabs : OutForm(u))'
  BY <1>2, StartRefreshDoes, MadeFacts, TokensMade, StageNames, Names
  DEF JobIs, TokensKept, HistoryKept, TokenInv, OutInv, OutForm, SigningOut, IsInFlight
<1>3. ASSUME NEW t \in Tabs, Send(t)
      PROVE  (\A u \in Tabs : OutForm(u))'
  BY <1>3, SendDoes, MadeFacts, TokensMade, StageNames, Names
  DEF JobIs, FamilyOf, TokensKept, TokenInv, OutInv, OutForm, SigningOut, IsInFlight
<1>4. ASSUME NEW t \in Tabs, Receive(t)
      PROVE  (\A u \in Tabs : OutForm(u))'
  <2>1. /\ family' = family /\ form' = form /\ HistoryKept
        /\ job'[t].stage = "idle" /\ \A v \in Refreshers : v # t => job'[v] = job[v]
    BY <1>4, ReceiveDoes DEF TokensKept, JobIs
  <2>2. ASSUME NEW u \in Tabs
        PROVE  OutForm(u)'
    <3>1. CASE job[t].stage = "answered"
      <4>1. /\ job[t].old # 0 /\ family[job[t].new] = family[job[t].old] /\ IsInFlight(t)
            /\ cookie' = job[t].new
        BY <1>4, <3>1, ReceiveDoes, TokensMade, StageNames, Names DEF IsInFlight
      <4> QED
        BY <2>1, <4>1, StageNames, Names DEF HistoryKept, OutInv, OutForm, SigningOut, IsInFlight
    <3>2. CASE job[t].stage \in {"rejected", "failed"}
      <4>1. cookie' = 0 \/ cookie' = cookie
        BY <1>4, <3>2, ReceiveDoes
      <4> QED
        BY <2>1, <4>1, StageNames, Names DEF HistoryKept, OutInv, OutForm, SigningOut, IsInFlight
    <3> QED
      BY <1>4, <3>1, <3>2, ReceiveDoes DEF Answers
  <2> QED
    BY <2>2
<1>5. ASSUME NEW t \in Tabs, SignIn(t)
      PROVE  (\A u \in Tabs : OutForm(u))'
  BY <1>5, SignInDoes, MadeFacts, TokensMade, StageNames, Names
  DEF Minted, FormIs, HistoryKept, TokenInv, OutInv, OutForm, SigningOut, IsInFlight
<1>6. ASSUME NEW t \in Tabs, SignedIn(t)
      PROVE  (\A u \in Tabs : OutForm(u))'
  <2>1. PICK f : f = form[t].token
    OBVIOUS
  <2>2. /\ form[t].stage = "signingIn" /\ cookie' = f /\ family' = family /\ job' = job
        /\ crossed \subseteq crossed' /\ lost' = lost
        /\ form'[t].token = 0 /\ \A u \in Tabs : u # t => form'[u] = form[u]
    BY <1>6, <2>1, SignedInDoes DEF TokensKept, FormIs
  <2>3. family[f] = f /\ \A u \in Tabs : u # t => f \notin FamilyOf(form[u].token)
    BY <2>1, <2>2, OnlyItsForm
  <2>4. \A u \in Tabs : u # t /\ form[u].token # 0 => family[form[u].token] # f
    BY <2>3, FamilyMade
  <2> QED
    BY <2>2, <2>3, <2>4 DEF OutInv, OutForm, SigningOut, IsInFlight
<1>7. ASSUME NEW t \in Tabs, SignOut(t)
      PROVE  (\A u \in Tabs : OutForm(u))'
  <2>1. /\ cookie' = cookie /\ family' = family /\ job' = job /\ lost' = lost
        /\ crossed \subseteq crossed' /\ (InFlight # {} => FamilyOf(cookie) \subseteq crossed')
        /\ form'[t].token = cookie /\ \A u \in Tabs : u # t => form'[u] = form[u]
    BY <1>7, SignOutDoes DEF TokensKept, FormIs
  <2>2. cookie # 0 /\ family[cookie] \notin crossed' => \A w \in Refreshers : ~IsInFlight(w)
    BY <2>1, FamilyMade DEF InFlight, IsInFlight
  <2>3. OutForm(t)'
    BY <2>1, <2>2 DEF OutForm, IsInFlight
  <2>4. \A u \in Tabs : u # t => OutForm(u)'
    BY <2>1 DEF OutInv, OutForm, SigningOut, IsInFlight
  <2> QED
    BY <2>3, <2>4
<1>8. ASSUME NEW t \in Tabs, Logout(t)
      PROVE  (\A u \in Tabs : OutForm(u))'
  BY <1>8, LogoutDoes, MadeFacts, TokensMade, StageNames, Names
  DEF FormIs, FamilyOf, TokenInv, OutInv, OutForm, SigningOut, IsInFlight
<1>9. ASSUME NEW t \in Tabs, SignedOut(t)
      PROVE  (\A u \in Tabs : OutForm(u))'
  BY <1>9, SignedOutDoes, MadeFacts, TokensMade, StageNames, Names
  DEF FormIs, FamilyOf, TokensKept, TokenInv, OutInv, OutForm, SigningOut, IsInFlight
<1>10. ASSUME NEW t \in Tabs, LoseRefresh(t)
      PROVE  (\A u \in Tabs : OutForm(u))'
  BY <1>10, LoseRefreshDoes, MadeFacts, TokensMade, StageNames, Names
  DEF FamilyOf, TokensKept, TokenInv, OutInv, OutForm, SigningOut, IsInFlight
<1>11. ASSUME NEW t \in Tabs, LoseForm(t)
      PROVE  (\A u \in Tabs : OutForm(u))'
  BY <1>11, LoseFormDoes, MadeFacts, TokensMade, StageNames, Names
  DEF FormIs, FamilyOf, TokensKept, TokenInv, OutInv, OutForm, SigningOut, IsInFlight
<1>12. ASSUME NEW t \in Tabs, Reload(t)
      PROVE  (\A u \in Tabs : OutForm(u))'
  BY <1>12, ReloadDoes, MadeFacts, TokensMade, StageNames, Names
  DEF TokensKept, HistoryKept, TokenInv, OutInv, OutForm, SigningOut, IsInFlight
<1>13. ASSUME NEW w \in Refreshers, Find(w)
      PROVE  (\A u \in Tabs : OutForm(u))'
  BY <1>13, FindDoes, MadeFacts, TokensMade, StageNames, Names
  DEF JobIs, TokensKept, HistoryKept, TokenInv, OutInv, OutForm, SigningOut, IsInFlight
<1>14. ASSUME NEW w \in Refreshers, RevokeFamily(w)
      PROVE  (\A u \in Tabs : OutForm(u))'
  BY <1>14, RevokeFamilyDoes, MadeFacts, TokensMade, StageNames, Names
  DEF JobIs, HistoryKept, TokenInv, OutInv, OutForm, SigningOut, IsInFlight
<1>15. ASSUME NEW w \in Refreshers, Revoke(w)
      PROVE  (\A u \in Tabs : OutForm(u))'
  BY <1>15, RevokeDoes, MadeFacts, TokensMade, StageNames, Names
  DEF JobIs, HistoryKept, TokenInv, OutInv, OutForm, SigningOut, IsInFlight
<1>16. ASSUME NEW w \in Refreshers, Create(w)
      PROVE  (\A u \in Tabs : OutForm(u))'
  BY <1>16, CreateDoes, MadeFacts, TokensMade, StageNames, Names
  DEF Minted, JobIs, HistoryKept, TokenInv, OutInv, OutForm, SigningOut, IsInFlight
<1>17. ASSUME NEW w \in Refreshers, Me(w)
      PROVE  (\A u \in Tabs : OutForm(u))'
  BY <1>17, MeDoes, MadeFacts, TokensMade, StageNames, Names
  DEF JobIs, TokensKept, HistoryKept, TokenInv, OutInv, OutForm, SigningOut, IsInFlight
<1>18. ASSUME NEW w \in Refreshers, Fail(w)
      PROVE  (\A u \in Tabs : OutForm(u))'
  BY <1>18, FailDoes, MadeFacts, TokensMade, StageNames, Names
  DEF JobIs, FamilyOf, TokensKept, TokenInv, OutInv, OutForm, SigningOut, IsInFlight
<1>19. ASSUME NEW g \in Ghosts, Drop(g)
      PROVE  (\A u \in Tabs : OutForm(u))'
  BY <1>19, DropDoes, MadeFacts, TokensMade, StageNames, Names
  DEF JobIs, TokensKept, HistoryKept, TokenInv, OutInv, OutForm, SigningOut, IsInFlight
<1>20. CASE UNCHANGED sessionVars
  BY <1>20, StutterDoes, MadeFacts, TokensMade, StageNames, Names DEF TokensKept, HistoryKept, TokenInv, OutInv, OutForm, SigningOut, IsInFlight
<1> QED
  BY <1>1, <1>2, <1>3, <1>4, <1>5, <1>6, <1>7, <1>8, <1>9, <1>10, <1>11, <1>12, <1>13, <1>14, <1>15, <1>16, <1>17, <1>18, <1>19, <1>20
  DEF SessionNext, ServerStep

-----------------------------------------------------------------------------
(* What nothing has happened to.                                           *)

\* A session at rest stays so while nothing of it is lost, crossed or left.
LEMMA CleanStays ==
  ASSUME SessionTypeOK, RoomInv, TokenInv, JobsInv, LockInv, FormsInv,
         NEW f \in Made, family[f] = f, Rests(f),
         f \notin lost \cup crossed \cup left, f \notin lost' \cup crossed' \cup left'
, [SessionNext]_sessionVars
  PROVE  Rests(f)'
<1>0. /\ cookie \in Made /\ cookie # 0 /\ family[cookie] = f /\ f # 0
      /\ live \subseteq Made
      /\ FamilyOf(cookie) = {f}
      /\ \A w \in Refreshers \ Tabs : IsInFlight(w) /\ job[w].old # 0 => family[job[w].old] # f
  BY GhostsAreLost, FamilyMade, MadeFacts DEF Rests, TokenInv, IsInFlight
<1>1. CASE RevokeAll
  BY <1>1, RevokeAllDoes, <1>0, StageNames, Names
  DEF Rests, OwnRefresh, SigningOut, IsInFlight, NobodyInFlight, LiveOf
<1>2. ASSUME NEW t \in Tabs, StartRefresh(t)
      PROVE  Rests(f)'
  BY <1>2, StartRefreshDoes, <1>0, StageNames, Names
  DEF JobIs, TokensKept, HistoryKept, Rests, OwnRefresh, SigningOut, IsInFlight, NobodyInFlight, LiveOf
<1>3. ASSUME NEW t \in Tabs, Send(t)
      PROVE  Rests(f)'
  <2>1. \A u \in Tabs : form[u].stage = "none"
    BY <1>3, <1>0, SendDoes
  <2>2. NobodyInFlight
    BY <1>3, SendDoes, OneUnderway DEF NobodyInFlight
  <2>3. cookie' = cookie /\ family' = family /\ form' = form /\ LiveOf(f)' = {cookie}
    BY <1>3, <2>2, SendDoes DEF TokensKept, Rests, LiveOf
  <2>4. /\ job'[t].old = cookie /\ job'[t].stage = "sent"
        /\ \A u \in Tabs : u # t => ~IsInFlight(u)'
    BY <1>3, <1>0, <2>2, SendDoes, Names DEF JobIs, NobodyInFlight, IsInFlight
  <2>5. IsInFlight(t)'
    BY <2>4, StageNames DEF IsInFlight
  <2> QED
    BY <1>0, <2>1, <2>3, <2>4, <2>5 DEF Rests, OwnRefresh, SigningOut, NobodyInFlight
<1>4. ASSUME NEW t \in Tabs, Receive(t)
      PROVE  Rests(f)'
  <2>1. IsInFlight(t) /\ job[t].stage \in Answers
    BY <1>4, ReceiveDoes DEF IsInFlight
  <2>2. OwnRefresh(t, f) /\ \A u \in Tabs : ~SigningOut(u)
    BY <2>1 DEF Rests, NobodyInFlight
  <2>3. family' = family /\ form' = form /\ LiveOf(f)' = LiveOf(f)
    BY <1>4, ReceiveDoes DEF TokensKept, LiveOf
  <2>4. \A u \in Tabs : ~IsInFlight(u)'
    BY <1>4, <2>1, ReceiveDoes, OneUnderway, StageNames, Names DEF JobIs, IsInFlight
  <2>5. cookie' # 0 /\ family[cookie'] = f /\ LiveOf(f) = {cookie'}
    <3>1. CASE job[t].stage = "answered"
      BY <1>4, <1>0, <2>2, <3>1, ReceiveDoes, TokensMade, Names DEF OwnRefresh
    <3>2. CASE job[t].stage = "failed"
      BY <1>4, <1>0, <2>2, <3>2, ReceiveDoes DEF OwnRefresh
    <3> QED
      BY <2>1, <2>2, <3>1, <3>2 DEF OwnRefresh, Answers
  <2> QED
    BY <2>2, <2>3, <2>4, <2>5 DEF Rests, SigningOut
<1>5. ASSUME NEW t \in Tabs, SignIn(t)
      PROVE  Rests(f)'
  BY <1>5, SignInDoes, <1>0, StageNames, Names
  DEF Minted, FormIs, HistoryKept, Rests, OwnRefresh, SigningOut, IsInFlight, NobodyInFlight, LiveOf
<1>6. ASSUME NEW t \in Tabs, SignedIn(t)
      PROVE  Rests(f)'
  BY <1>6, SignedInDoes, <1>0, StageNames, Names
  DEF FormIs, FamilyOf, TokensKept, Rests, OwnRefresh, SigningOut, IsInFlight, NobodyInFlight, LiveOf
<1>7. ASSUME NEW t \in Tabs, SignOut(t)
      PROVE  Rests(f)'
  <2>1. InFlight = {}
    BY <1>7, <1>0, SignOutDoes
  <2>2. NobodyInFlight
    BY <2>1, Names DEF NobodyInFlight, IsInFlight, InFlight
  <2>3. /\ cookie' = cookie /\ family' = family /\ LiveOf(f)' = LiveOf(f) /\ job' = job
        /\ form'[t].token = cookie /\ \A u \in Tabs : u # t => form'[u] = form[u]
    BY <1>7, SignOutDoes DEF TokensKept, LiveOf, FormIs
  <2>4. NobodyInFlight'
    BY <2>2, <2>3 DEF NobodyInFlight, IsInFlight
  <2> QED
    BY <2>2, <2>3, <2>4 DEF Rests, NobodyInFlight, SigningOut
<1>8. ASSUME NEW t \in Tabs, Logout(t)
      PROVE  Rests(f)'
  BY <1>8, LogoutDoes, <1>0, StageNames, Names
  DEF FormIs, FamilyOf, Rests, OwnRefresh, SigningOut, IsInFlight, NobodyInFlight, LiveOf
<1>9. ASSUME NEW t \in Tabs, SignedOut(t)
      PROVE  Rests(f)'
  BY <1>9, SignedOutDoes, <1>0, StageNames, Names
  DEF FormIs, FamilyOf, TokensKept, Rests, OwnRefresh, SigningOut, IsInFlight, NobodyInFlight, LiveOf
<1>10. ASSUME NEW t \in Tabs, LoseRefresh(t)
      PROVE  Rests(f)'
  BY <1>10, LoseRefreshDoes, <1>0, StageNames, Names
  DEF FamilyOf, TokensKept, Rests, OwnRefresh, SigningOut, IsInFlight, NobodyInFlight, LiveOf
<1>11. ASSUME NEW t \in Tabs, LoseForm(t)
      PROVE  Rests(f)'
  BY <1>11, LoseFormDoes, <1>0, StageNames, Names
  DEF FormIs, FamilyOf, TokensKept, Rests, OwnRefresh, SigningOut, IsInFlight, NobodyInFlight, LiveOf
<1>12. ASSUME NEW t \in Tabs, Reload(t)
      PROVE  Rests(f)'
  BY <1>12, ReloadDoes, <1>0, StageNames, Names
  DEF TokensKept, HistoryKept, Rests, OwnRefresh, SigningOut, IsInFlight, NobodyInFlight, LiveOf
<1>13. ASSUME NEW w \in Refreshers, Find(w)
      PROVE  Rests(f)'
  BY <1>13, FindDoes, <1>0, StageNames, Names
  DEF JobIs, TokensKept, HistoryKept, Rests, OwnRefresh, SigningOut, IsInFlight, NobodyInFlight, LiveOf
<1>14. ASSUME NEW w \in Refreshers, RevokeFamily(w)
      PROVE  Rests(f)'
  <2>1. IsInFlight(w) /\ job[w].stage = "reused" /\ job[w].old # 0
    BY <1>14, RevokeFamilyDoes, StageNames, TokensMade DEF IsInFlight
  <2>2. w \notin Tabs
    BY <2>1 DEF Rests, OwnRefresh
  <2>3. family[job[w].old] # f
    BY <1>0, <2>1, <2>2
  <2>4. /\ cookie' = cookie /\ family' = family /\ LiveOf(f)' = LiveOf(f) /\ form' = form
        /\ \A u \in Tabs : job'[u] = job[u]
    BY <1>14, <2>2, <2>3, RevokeFamilyDoes, Names DEF JobIs, LiveOf
  <2> QED
    BY <2>4 DEF Rests, OwnRefresh, NobodyInFlight, IsInFlight, SigningOut
<1>15. ASSUME NEW w \in Refreshers, Revoke(w)
      PROVE  Rests(f)'
  <2>1. IsInFlight(w) /\ job[w].stage = "found" /\ job[w].old # 0
    BY <1>15, RevokeDoes, StageNames, TokensMade DEF IsInFlight
  <2>2. /\ cookie' = cookie /\ family' = family /\ form' = form /\ live' = live \ {job[w].old}
        /\ \A u \in Tabs : u # w => job'[u] = job[u]
        /\ job'[w].old = job[w].old
    BY <1>15, RevokeDoes, Names DEF JobIs
  <2>3. CASE w \in Tabs
    <3>1. OwnRefresh(w, f) /\ (\A u \in Tabs : ~SigningOut(u)) /\ \A u \in Tabs : u # w => ~IsInFlight(u)
      BY <2>1, <2>3, OneUnderway DEF Rests, NobodyInFlight
    <3>2. LiveOf(f)' = {}
      BY <2>1, <2>2, <3>1 DEF OwnRefresh, LiveOf
    <3>3. job'[w].stage = "revoked"
      BY <1>15, <1>0, RevokeDoes DEF JobIs, TokenInv
    <3>4. IsInFlight(w)' /\ \A u \in Tabs : u # w => ~IsInFlight(u)'
      BY <2>2, <3>1, <3>3, StageNames DEF IsInFlight
    <3> QED
      BY <1>0, <2>2, <2>3, <3>1, <3>2, <3>3, <3>4 DEF Rests, OwnRefresh, NobodyInFlight, SigningOut
  <2>4. CASE w \notin Tabs
    <3>1. LiveOf(f)' = LiveOf(f)
      BY <1>0, <2>1, <2>2, <2>4 DEF LiveOf
    <3> QED
      BY <2>2, <2>4, <3>1 DEF Rests, OwnRefresh, NobodyInFlight, IsInFlight, SigningOut
  <2> QED
    BY <2>3, <2>4
<1>16. ASSUME NEW w \in Refreshers, Create(w)
      PROVE  Rests(f)'
  <2>1. IsInFlight(w) /\ job[w].stage = "revoked" /\ job[w].old # 0
    BY <1>16, CreateDoes, StageNames DEF IsInFlight
  <2>2. /\ cookie' = cookie /\ family'[cookie] = family[cookie] /\ form' = form
        /\ live' = live \cup {minted'} /\ minted' \notin Made
        /\ \A k \in live : family'[k] = family[k]
        /\ family'[minted'] = family[job[w].old]
        /\ \A u \in Tabs : u # w => job'[u] = job[u]
        /\ job'[w].old = job[w].old /\ job'[w].new = minted' /\ job'[w].stage = "rotated"
    BY <1>16, <1>0, CreateDoes, Names DEF JobIs, Minted
  <2>3. CASE w \in Tabs
    <3>1. OwnRefresh(w, f) /\ (\A u \in Tabs : ~SigningOut(u)) /\ \A u \in Tabs : u # w => ~IsInFlight(u)
      BY <2>1, <2>3, OneUnderway DEF Rests, NobodyInFlight
    <3>2. LiveOf(f) = {} /\ family'[minted'] = f
      BY <1>0, <2>1, <2>2, <3>1 DEF OwnRefresh
    <3>3. LiveOf(f)' = {minted'}
      BY <2>2, <3>2 DEF LiveOf
    <3>4. IsInFlight(w)' /\ \A u \in Tabs : u # w => ~IsInFlight(u)'
      BY <2>2, <3>1, StageNames DEF IsInFlight
    <3> QED
      BY <1>0, <2>2, <2>3, <3>1, <3>3, <3>4 DEF Rests, OwnRefresh, NobodyInFlight, SigningOut
  <2>4. CASE w \notin Tabs
    <3>1. family'[minted'] # f
      BY <1>0, <2>1, <2>2, <2>4
    <3>2. LiveOf(f)' = LiveOf(f)
      BY <2>2, <3>1 DEF LiveOf
    <3> QED
      BY <1>0, <2>2, <2>4, <3>2 DEF Rests, OwnRefresh, NobodyInFlight, IsInFlight, SigningOut
  <2> QED
    BY <2>3, <2>4
<1>17. ASSUME NEW w \in Refreshers, Me(w)
      PROVE  Rests(f)'
  BY <1>17, MeDoes, <1>0, StageNames, Names
  DEF JobIs, TokensKept, HistoryKept, Rests, OwnRefresh, SigningOut, IsInFlight, NobodyInFlight, LiveOf
<1>18. ASSUME NEW w \in Refreshers, Fail(w)
      PROVE  Rests(f)'
  <2>1. IsInFlight(w) /\ job[w].stage \in AtServer /\ job[w].old # 0
    BY <1>18, FailDoes, StageNames, TokensMade DEF IsInFlight
  <2>2. /\ cookie' = cookie /\ family' = family /\ form' = form /\ live' = live
        /\ LiveOf(f)' = LiveOf(f)
        /\ \A u \in Tabs : u # w => job'[u] = job[u]
        /\ job'[w].old = job[w].old /\ job'[w].stage = "failed"
    BY <1>18, FailDoes, Names DEF JobIs, TokensKept, LiveOf
  <2>3. CASE w \in Tabs
    <3>1. OwnRefresh(w, f) /\ (\A u \in Tabs : ~SigningOut(u)) /\ \A u \in Tabs : u # w => ~IsInFlight(u)
      BY <2>1, <2>3, OneUnderway DEF Rests, NobodyInFlight
    <3>2. job[w].stage \notin {"revoked", "rotated"}
      BY <1>18, <1>0, <3>1, FailDoes DEF OwnRefresh
    <3>3. LiveOf(f) = {cookie}
      BY <2>1, <3>1, <3>2 DEF OwnRefresh, AtServer
    <3>4. IsInFlight(w)' /\ \A u \in Tabs : u # w => ~IsInFlight(u)'
      BY <2>2, <3>1, StageNames DEF IsInFlight
    <3> QED
      BY <1>0, <2>2, <2>3, <3>1, <3>3, <3>4 DEF Rests, OwnRefresh, NobodyInFlight, SigningOut
  <2>4. CASE w \notin Tabs
    BY <2>2, <2>4 DEF Rests, OwnRefresh, NobodyInFlight, IsInFlight, SigningOut
  <2> QED
    BY <2>3, <2>4
<1>19. ASSUME NEW g \in Ghosts, Drop(g)
      PROVE  Rests(f)'
  BY <1>19, DropDoes, <1>0, StageNames, Names
  DEF JobIs, TokensKept, HistoryKept, Rests, OwnRefresh, SigningOut, IsInFlight, NobodyInFlight, LiveOf
<1>20. CASE UNCHANGED sessionVars
  BY <1>20, StutterDoes, <1>0, StageNames, Names DEF TokensKept, HistoryKept, Rests, OwnRefresh, SigningOut, IsInFlight, NobodyInFlight, LiveOf
<1> QED
  BY <1>1, <1>2, <1>3, <1>4, <1>5, <1>6, <1>7, <1>8, <1>9, <1>10, <1>11, <1>12, <1>13, <1>14, <1>15, <1>16, <1>17, <1>18, <1>19, <1>20
  DEF SessionNext, ServerStep

\* What was lost, crossed or left remains so.
LEMMA HistoryGrows ==
  ASSUME SessionTypeOK, RoomInv, TokenInv, JobsInv, LockInv, FormsInv, [SessionNext]_sessionVars
  PROVE  lost \subseteq lost' /\ crossed \subseteq crossed' /\ left \subseteq left'
<1>1. CASE RevokeAll
  BY <1>1, RevokeAllDoes
<1>2. ASSUME NEW t \in Tabs, StartRefresh(t)
      PROVE  lost \subseteq lost' /\ crossed \subseteq crossed' /\ left \subseteq left'
  BY <1>2, StartRefreshDoes
  DEF JobIs, TokensKept, HistoryKept
<1>3. ASSUME NEW t \in Tabs, Send(t)
      PROVE  lost \subseteq lost' /\ crossed \subseteq crossed' /\ left \subseteq left'
  BY <1>3, SendDoes
  DEF JobIs, FamilyOf, TokensKept
<1>4. ASSUME NEW t \in Tabs, Receive(t)
      PROVE  lost \subseteq lost' /\ crossed \subseteq crossed' /\ left \subseteq left'
  BY <1>4, ReceiveDoes
  DEF JobIs, TokensKept, HistoryKept
<1>5. ASSUME NEW t \in Tabs, SignIn(t)
      PROVE  lost \subseteq lost' /\ crossed \subseteq crossed' /\ left \subseteq left'
  BY <1>5, SignInDoes
  DEF Minted, FormIs, HistoryKept
<1>6. ASSUME NEW t \in Tabs, SignedIn(t)
      PROVE  lost \subseteq lost' /\ crossed \subseteq crossed' /\ left \subseteq left'
  BY <1>6, SignedInDoes
  DEF FormIs, FamilyOf, TokensKept
<1>7. ASSUME NEW t \in Tabs, SignOut(t)
      PROVE  lost \subseteq lost' /\ crossed \subseteq crossed' /\ left \subseteq left'
  BY <1>7, SignOutDoes
  DEF FormIs, FamilyOf, TokensKept
<1>8. ASSUME NEW t \in Tabs, Logout(t)
      PROVE  lost \subseteq lost' /\ crossed \subseteq crossed' /\ left \subseteq left'
  BY <1>8, LogoutDoes
<1>9. ASSUME NEW t \in Tabs, SignedOut(t)
      PROVE  lost \subseteq lost' /\ crossed \subseteq crossed' /\ left \subseteq left'
  BY <1>9, SignedOutDoes
  DEF FormIs, FamilyOf, TokensKept
<1>10. ASSUME NEW t \in Tabs, LoseRefresh(t)
      PROVE  lost \subseteq lost' /\ crossed \subseteq crossed' /\ left \subseteq left'
  BY <1>10, LoseRefreshDoes
  DEF FamilyOf, TokensKept
<1>11. ASSUME NEW t \in Tabs, LoseForm(t)
      PROVE  lost \subseteq lost' /\ crossed \subseteq crossed' /\ left \subseteq left'
  BY <1>11, LoseFormDoes
  DEF FormIs, FamilyOf, TokensKept
<1>12. ASSUME NEW t \in Tabs, Reload(t)
      PROVE  lost \subseteq lost' /\ crossed \subseteq crossed' /\ left \subseteq left'
  BY <1>12, ReloadDoes
  DEF TokensKept, HistoryKept
<1>13. ASSUME NEW w \in Refreshers, Find(w)
      PROVE  lost \subseteq lost' /\ crossed \subseteq crossed' /\ left \subseteq left'
  BY <1>13, FindDoes
  DEF JobIs, TokensKept, HistoryKept
<1>14. ASSUME NEW w \in Refreshers, RevokeFamily(w)
      PROVE  lost \subseteq lost' /\ crossed \subseteq crossed' /\ left \subseteq left'
  BY <1>14, RevokeFamilyDoes
  DEF JobIs, HistoryKept
<1>15. ASSUME NEW w \in Refreshers, Revoke(w)
      PROVE  lost \subseteq lost' /\ crossed \subseteq crossed' /\ left \subseteq left'
  BY <1>15, RevokeDoes
  DEF JobIs, HistoryKept
<1>16. ASSUME NEW w \in Refreshers, Create(w)
      PROVE  lost \subseteq lost' /\ crossed \subseteq crossed' /\ left \subseteq left'
  BY <1>16, CreateDoes
  DEF Minted, JobIs, HistoryKept
<1>17. ASSUME NEW w \in Refreshers, Me(w)
      PROVE  lost \subseteq lost' /\ crossed \subseteq crossed' /\ left \subseteq left'
  BY <1>17, MeDoes
  DEF JobIs, TokensKept, HistoryKept
<1>18. ASSUME NEW w \in Refreshers, Fail(w)
      PROVE  lost \subseteq lost' /\ crossed \subseteq crossed' /\ left \subseteq left'
  BY <1>18, FailDoes
  DEF JobIs, FamilyOf, TokensKept
<1>19. ASSUME NEW g \in Ghosts, Drop(g)
      PROVE  lost \subseteq lost' /\ crossed \subseteq crossed' /\ left \subseteq left'
  BY <1>19, DropDoes
  DEF JobIs, TokensKept, HistoryKept
<1>20. CASE UNCHANGED sessionVars
  BY <1>20, StutterDoes DEF TokensKept, HistoryKept
<1> QED
  BY <1>1, <1>2, <1>3, <1>4, <1>5, <1>6, <1>7, <1>8, <1>9, <1>10, <1>11, <1>12, <1>13, <1>14, <1>15, <1>16, <1>17, <1>18, <1>19, <1>20
  DEF SessionNext, ServerStep

\* A token keeps its family; a new family is that of a sign-in.
LEMMA FamiliesStay ==
  ASSUME SessionTypeOK, RoomInv, TokenInv, JobsInv, LockInv, FormsInv, [SessionNext]_sessionVars
  PROVE  /\ \A k \in Made : family'[k] = family[k]
         /\ \A k \in Made' \ Made : family'[k] = k => \E u \in Tabs : form'[u].stage = "signingIn" /\ form'[u].token = k
<1>1. CASE RevokeAll
  BY <1>1, RevokeAllDoes, MadeFacts
<1>2. ASSUME NEW t \in Tabs, StartRefresh(t)
      PROVE  /\ \A k \in Made : family'[k] = family[k]
         /\ \A k \in Made' \ Made : family'[k] = k => \E u \in Tabs : form'[u].stage = "signingIn" /\ form'[u].token = k
  BY <1>2, StartRefreshDoes, MadeFacts
  DEF JobIs, TokensKept, HistoryKept
<1>3. ASSUME NEW t \in Tabs, Send(t)
      PROVE  /\ \A k \in Made : family'[k] = family[k]
         /\ \A k \in Made' \ Made : family'[k] = k => \E u \in Tabs : form'[u].stage = "signingIn" /\ form'[u].token = k
  BY <1>3, SendDoes, MadeFacts
  DEF JobIs, FamilyOf, TokensKept
<1>4. ASSUME NEW t \in Tabs, Receive(t)
      PROVE  /\ \A k \in Made : family'[k] = family[k]
         /\ \A k \in Made' \ Made : family'[k] = k => \E u \in Tabs : form'[u].stage = "signingIn" /\ form'[u].token = k
  BY <1>4, ReceiveDoes, MadeFacts
  DEF JobIs, TokensKept, HistoryKept
<1>5. ASSUME NEW t \in Tabs, SignIn(t)
      PROVE  /\ \A k \in Made : family'[k] = family[k]
         /\ \A k \in Made' \ Made : family'[k] = k => \E u \in Tabs : form'[u].stage = "signingIn" /\ form'[u].token = k
  BY <1>5, SignInDoes, MadeFacts
  DEF Minted, FormIs, HistoryKept
<1>6. ASSUME NEW t \in Tabs, SignedIn(t)
      PROVE  /\ \A k \in Made : family'[k] = family[k]
         /\ \A k \in Made' \ Made : family'[k] = k => \E u \in Tabs : form'[u].stage = "signingIn" /\ form'[u].token = k
  BY <1>6, SignedInDoes, MadeFacts
  DEF FormIs, FamilyOf, TokensKept
<1>7. ASSUME NEW t \in Tabs, SignOut(t)
      PROVE  /\ \A k \in Made : family'[k] = family[k]
         /\ \A k \in Made' \ Made : family'[k] = k => \E u \in Tabs : form'[u].stage = "signingIn" /\ form'[u].token = k
  BY <1>7, SignOutDoes, MadeFacts
  DEF FormIs, FamilyOf, TokensKept
<1>8. ASSUME NEW t \in Tabs, Logout(t)
      PROVE  /\ \A k \in Made : family'[k] = family[k]
         /\ \A k \in Made' \ Made : family'[k] = k => \E u \in Tabs : form'[u].stage = "signingIn" /\ form'[u].token = k
  BY <1>8, LogoutDoes, MadeFacts
  DEF FormIs, FamilyOf
<1>9. ASSUME NEW t \in Tabs, SignedOut(t)
      PROVE  /\ \A k \in Made : family'[k] = family[k]
         /\ \A k \in Made' \ Made : family'[k] = k => \E u \in Tabs : form'[u].stage = "signingIn" /\ form'[u].token = k
  BY <1>9, SignedOutDoes, MadeFacts
  DEF FormIs, FamilyOf, TokensKept
<1>10. ASSUME NEW t \in Tabs, LoseRefresh(t)
      PROVE  /\ \A k \in Made : family'[k] = family[k]
         /\ \A k \in Made' \ Made : family'[k] = k => \E u \in Tabs : form'[u].stage = "signingIn" /\ form'[u].token = k
  BY <1>10, LoseRefreshDoes, MadeFacts
  DEF FamilyOf, TokensKept
<1>11. ASSUME NEW t \in Tabs, LoseForm(t)
      PROVE  /\ \A k \in Made : family'[k] = family[k]
         /\ \A k \in Made' \ Made : family'[k] = k => \E u \in Tabs : form'[u].stage = "signingIn" /\ form'[u].token = k
  BY <1>11, LoseFormDoes, MadeFacts
  DEF FormIs, FamilyOf, TokensKept
<1>12. ASSUME NEW t \in Tabs, Reload(t)
      PROVE  /\ \A k \in Made : family'[k] = family[k]
         /\ \A k \in Made' \ Made : family'[k] = k => \E u \in Tabs : form'[u].stage = "signingIn" /\ form'[u].token = k
  BY <1>12, ReloadDoes, MadeFacts
  DEF TokensKept, HistoryKept
<1>13. ASSUME NEW w \in Refreshers, Find(w)
      PROVE  /\ \A k \in Made : family'[k] = family[k]
         /\ \A k \in Made' \ Made : family'[k] = k => \E u \in Tabs : form'[u].stage = "signingIn" /\ form'[u].token = k
  BY <1>13, FindDoes, MadeFacts
  DEF JobIs, TokensKept, HistoryKept
<1>14. ASSUME NEW w \in Refreshers, RevokeFamily(w)
      PROVE  /\ \A k \in Made : family'[k] = family[k]
         /\ \A k \in Made' \ Made : family'[k] = k => \E u \in Tabs : form'[u].stage = "signingIn" /\ form'[u].token = k
  BY <1>14, RevokeFamilyDoes, MadeFacts
  DEF JobIs, HistoryKept
<1>15. ASSUME NEW w \in Refreshers, Revoke(w)
      PROVE  /\ \A k \in Made : family'[k] = family[k]
         /\ \A k \in Made' \ Made : family'[k] = k => \E u \in Tabs : form'[u].stage = "signingIn" /\ form'[u].token = k
  BY <1>15, RevokeDoes, MadeFacts
  DEF JobIs, HistoryKept
<1>16. ASSUME NEW w \in Refreshers, Create(w)
      PROVE  /\ \A k \in Made : family'[k] = family[k]
         /\ \A k \in Made' \ Made : family'[k] = k => \E u \in Tabs : form'[u].stage = "signingIn" /\ form'[u].token = k
  BY <1>16, CreateDoes, MadeFacts
  DEF Minted, JobIs, HistoryKept
<1>17. ASSUME NEW w \in Refreshers, Me(w)
      PROVE  /\ \A k \in Made : family'[k] = family[k]
         /\ \A k \in Made' \ Made : family'[k] = k => \E u \in Tabs : form'[u].stage = "signingIn" /\ form'[u].token = k
  BY <1>17, MeDoes, MadeFacts
  DEF JobIs, TokensKept, HistoryKept
<1>18. ASSUME NEW w \in Refreshers, Fail(w)
      PROVE  /\ \A k \in Made : family'[k] = family[k]
         /\ \A k \in Made' \ Made : family'[k] = k => \E u \in Tabs : form'[u].stage = "signingIn" /\ form'[u].token = k
  BY <1>18, FailDoes, MadeFacts
  DEF JobIs, FamilyOf, TokensKept
<1>19. ASSUME NEW g \in Ghosts, Drop(g)
      PROVE  /\ \A k \in Made : family'[k] = family[k]
         /\ \A k \in Made' \ Made : family'[k] = k => \E u \in Tabs : form'[u].stage = "signingIn" /\ form'[u].token = k
  BY <1>19, DropDoes, MadeFacts
  DEF JobIs, TokensKept, HistoryKept
<1>20. CASE UNCHANGED sessionVars
  BY <1>20, StutterDoes, MadeFacts DEF TokensKept, HistoryKept
<1> QED
  BY <1>1, <1>2, <1>3, <1>4, <1>5, <1>6, <1>7, <1>8, <1>9, <1>10, <1>11, <1>12, <1>13, <1>14, <1>15, <1>16, <1>17, <1>18, <1>19, <1>20
  DEF SessionNext, ServerStep

\* A new session is at rest once its answer has reached the cookie.
LEMMA NewRests ==
  ASSUME SessionTypeOK, RoomInv, TokenInv, JobsInv, LockInv, FormsInv,
         NEW u \in Tabs, NEW f, form[u].stage = "signingIn", form[u].token = f,
         f \notin lost' \cup crossed' \cup left', [SessionNext]_sessionVars
  PROVE  Rests(f)' \/ (form'[u].stage = "signingIn" /\ form'[u].token = f)
<1>0. /\ f \in Made /\ f # 0 /\ family[f] = f /\ FamilyOf(f) = {f}
      /\ \A k \in Made : family[k] = f => k = f
      /\ f \in live <=> f \notin left
      /\ live \subseteq Made
  BY OnlyItsForm, FamilyMade DEF TokenInv
<1>1. CASE RevokeAll
  BY <1>1, RevokeAllDoes, <1>0, HistoryGrows
<1>2. ASSUME NEW t \in Tabs, StartRefresh(t)
      PROVE  Rests(f)' \/ (form'[u].stage = "signingIn" /\ form'[u].token = f)
  BY <1>2, StartRefreshDoes, <1>0, HistoryGrows
  DEF JobIs, TokensKept, HistoryKept
<1>3. ASSUME NEW t \in Tabs, Send(t)
      PROVE  Rests(f)' \/ (form'[u].stage = "signingIn" /\ form'[u].token = f)
  BY <1>3, SendDoes, <1>0, HistoryGrows
  DEF JobIs, FamilyOf, TokensKept
<1>4. ASSUME NEW t \in Tabs, Receive(t)
      PROVE  Rests(f)' \/ (form'[u].stage = "signingIn" /\ form'[u].token = f)
  BY <1>4, ReceiveDoes, <1>0, HistoryGrows
  DEF JobIs, TokensKept, HistoryKept
<1>5. ASSUME NEW t \in Tabs, SignIn(t)
      PROVE  Rests(f)' \/ (form'[u].stage = "signingIn" /\ form'[u].token = f)
  BY <1>5, SignInDoes, <1>0, HistoryGrows
  DEF Minted, FormIs, HistoryKept
<1>6. ASSUME NEW t \in Tabs, SignedIn(t)
      PROVE  Rests(f)' \/ (form'[u].stage = "signingIn" /\ form'[u].token = f)
  <2>1. CASE t = u
    <3>1. InFlight = {} /\ \A v \in Tabs : v # u => form[v].stage = "none"
      BY <1>6, <1>0, <2>1, SignedInDoes
    <3>2. \A v \in Tabs : ~IsInFlight(v)
      BY <3>1, Names DEF InFlight, IsInFlight
    <3>3. /\ cookie' = f /\ family' = family /\ live' = live /\ job' = job
          /\ \A v \in Tabs : form'[v].stage = "none"
      BY <1>6, <2>1, <3>1, SignedInDoes DEF TokensKept, FormIs
    <3>4. LiveOf(f)' = {f}
      BY <1>0, <3>3, HistoryGrows DEF LiveOf
    <3> QED
      BY <1>0, <3>2, <3>3, <3>4 DEF Rests, SigningOut, IsInFlight
  <2>2. CASE t # u
    BY <1>6, <2>2, SignedInDoes DEF FormIs
  <2> QED
    BY <2>1, <2>2
<1>7. ASSUME NEW t \in Tabs, SignOut(t)
      PROVE  Rests(f)' \/ (form'[u].stage = "signingIn" /\ form'[u].token = f)
  BY <1>7, SignOutDoes, <1>0, HistoryGrows
  DEF FormIs, FamilyOf, TokensKept
<1>8. ASSUME NEW t \in Tabs, Logout(t)
      PROVE  Rests(f)' \/ (form'[u].stage = "signingIn" /\ form'[u].token = f)
  BY <1>8, LogoutDoes DEF FormIs
<1>9. ASSUME NEW t \in Tabs, SignedOut(t)
      PROVE  Rests(f)' \/ (form'[u].stage = "signingIn" /\ form'[u].token = f)
  BY <1>9, SignedOutDoes, <1>0, HistoryGrows
  DEF FormIs, FamilyOf, TokensKept
<1>10. ASSUME NEW t \in Tabs, LoseRefresh(t)
      PROVE  Rests(f)' \/ (form'[u].stage = "signingIn" /\ form'[u].token = f)
  BY <1>10, LoseRefreshDoes, <1>0, HistoryGrows
  DEF FamilyOf, TokensKept
<1>11. ASSUME NEW t \in Tabs, LoseForm(t)
      PROVE  Rests(f)' \/ (form'[u].stage = "signingIn" /\ form'[u].token = f)
  BY <1>11, LoseFormDoes, <1>0, HistoryGrows
  DEF FormIs, FamilyOf, TokensKept
<1>12. ASSUME NEW t \in Tabs, Reload(t)
      PROVE  Rests(f)' \/ (form'[u].stage = "signingIn" /\ form'[u].token = f)
  BY <1>12, ReloadDoes, <1>0, HistoryGrows
  DEF TokensKept, HistoryKept
<1>13. ASSUME NEW w \in Refreshers, Find(w)
      PROVE  Rests(f)' \/ (form'[u].stage = "signingIn" /\ form'[u].token = f)
  BY <1>13, FindDoes, <1>0, HistoryGrows
  DEF JobIs, TokensKept, HistoryKept
<1>14. ASSUME NEW w \in Refreshers, RevokeFamily(w)
      PROVE  Rests(f)' \/ (form'[u].stage = "signingIn" /\ form'[u].token = f)
  BY <1>14, RevokeFamilyDoes, <1>0, HistoryGrows
  DEF JobIs, HistoryKept
<1>15. ASSUME NEW w \in Refreshers, Revoke(w)
      PROVE  Rests(f)' \/ (form'[u].stage = "signingIn" /\ form'[u].token = f)
  BY <1>15, RevokeDoes, <1>0, HistoryGrows
  DEF JobIs, HistoryKept
<1>16. ASSUME NEW w \in Refreshers, Create(w)
      PROVE  Rests(f)' \/ (form'[u].stage = "signingIn" /\ form'[u].token = f)
  BY <1>16, CreateDoes, <1>0, HistoryGrows
  DEF Minted, JobIs, HistoryKept
<1>17. ASSUME NEW w \in Refreshers, Me(w)
      PROVE  Rests(f)' \/ (form'[u].stage = "signingIn" /\ form'[u].token = f)
  BY <1>17, MeDoes, <1>0, HistoryGrows
  DEF JobIs, TokensKept, HistoryKept
<1>18. ASSUME NEW w \in Refreshers, Fail(w)
      PROVE  Rests(f)' \/ (form'[u].stage = "signingIn" /\ form'[u].token = f)
  BY <1>18, FailDoes, <1>0, HistoryGrows
  DEF JobIs, FamilyOf, TokensKept
<1>19. ASSUME NEW g \in Ghosts, Drop(g)
      PROVE  Rests(f)' \/ (form'[u].stage = "signingIn" /\ form'[u].token = f)
  BY <1>19, DropDoes, <1>0, HistoryGrows
  DEF JobIs, TokensKept, HistoryKept
<1>20. CASE UNCHANGED sessionVars
  BY <1>20, StutterDoes, <1>0, HistoryGrows DEF TokensKept, HistoryKept
<1> QED
  BY <1>1, <1>2, <1>3, <1>4, <1>5, <1>6, <1>7, <1>8, <1>9, <1>10, <1>11, <1>12, <1>13, <1>14, <1>15, <1>16, <1>17, <1>18, <1>19, <1>20
  DEF SessionNext, ServerStep

\* A session of which nothing was lost, crossed or left rests, or is about to begin.
LEMMA CleanKept ==
  ASSUME SessionTypeOK, RoomInv, TokenInv, JobsInv, LockInv, FormsInv, CleanInv, [SessionNext]_sessionVars
  PROVE  CleanInv'
<1> SUFFICES ASSUME NEW f \in Made', family'[f] = f, f \notin lost' \cup crossed' \cup left'
             PROVE  Rests(f)' \/ \E t \in Tabs : form'[t].stage = "signingIn" /\ form'[t].token = f
  BY DEF CleanInv
<1>1. CASE f \in Made
  <2>1. family[f] = f /\ f \notin lost \cup crossed \cup left
    BY <1>1, HistoryGrows, FamiliesStay
  <2>2. CASE Rests(f)
    BY <1>1, <2>1, <2>2, CleanStays
  <2>3. CASE \E t \in Tabs : form[t].stage = "signingIn" /\ form[t].token = f
    BY <2>3, NewRests
  <2> QED
    BY <1>1, <2>1, <2>2, <2>3 DEF CleanInv
<1>2. CASE f \notin Made
  BY <1>2, FamiliesStay
<1> QED
  BY <1>1, <1>2

-----------------------------------------------------------------------------
(* The theorems.                                                           *)

\* What holds in every state.
WebInv ==
  /\ SessionTypeOK /\ TokenInv /\ RoomInv /\ JobsInv /\ LockInv /\ FormsInv
  /\ ReplayInv /\ OutInv /\ CleanInv

\* Before the first sign-in all of it holds.
LEMMA InitWeb == SessionInit => WebInv
<1> SUFFICES ASSUME SessionInit
             PROVE  WebInv
  OBVIOUS
<1>1. minted = 0 /\ Made = {} /\ cookie = 0 /\ lock = NoTab /\ active = TRUE /\ faults = 0
  BY DEF SessionInit, Made
<1>2. \A w \in Refreshers : job[w].stage = "idle" /\ job[w].old = 0 /\ job[w].new = 0
  BY NoJobType DEF SessionInit
<1>3. \A t \in Tabs : form[t].stage = "none" /\ form[t].token = 0
  BY NoFormType DEF SessionInit
<1>4. SessionTypeOK
  BY BoundAssumption, NoJobType, NoFormType DEF SessionInit, SessionTypeOK
<1>5. TokenInv
  BY <1>1 DEF SessionInit, TokenInv
<1>6. RoomInv
  <2>1. Busy = {} /\ Pending = {}
    BY <1>2 DEF Busy, Pending
  <2>2. IsFiniteSet(Busy) /\ Cardinality(Pending) = 0
    BY <2>1, FS_EmptySet
  <2> QED
    BY <1>1, <2>2, BoundAssumption DEF RoomInv
<1>7. JobsInv
  BY <1>2, StageNames, Names DEF JobsInv, JobOK, GhostOK
<1>8. LockInv
  BY <1>1, <1>2, StageNames, Names DEF LockInv, IsInFlight
<1>9. FormsInv
  BY <1>3 DEF FormsInv, FormOK
<1>10. ReplayInv
  BY <1>1, <1>2 DEF ReplayInv, ReplayOK, CookieOK
<1>11. OutInv
  BY <1>1, <1>2, <1>3 DEF OutInv, SignedOutStaysOut, OutJob, OutForm
<1>12. CleanInv
  BY <1>1 DEF CleanInv
<1> QED
  BY <1>4, <1>5, <1>6, <1>7, <1>8, <1>9, <1>10, <1>11, <1>12 DEF WebInv

\* Every step keeps it.
LEMMA NextWeb == WebInv /\ [SessionNext]_sessionVars => WebInv'
<1> SUFFICES ASSUME WebInv, [SessionNext]_sessionVars
             PROVE  WebInv'
  OBVIOUS
<1> USE DEF WebInv
<1>1. TokenInv'
  BY TokensStay
<1>2. SessionTypeOK'
  BY <1>1, SessionTypesKept
<1>3. RoomInv'
  BY RoomKept
<1>4. JobsInv'
  BY JobsKept, GhostsKept DEF JobsInv
<1>5. LockInv'
  BY LockKept
<1>6. FormsInv'
  BY FormsKept
<1>7. ReplayInv'
  BY ReplayStays, CookieStays DEF ReplayInv
<1>8. OutInv'
  BY SignedOutStays, OutJobsStay, OutFormsStay DEF OutInv
<1>9. CleanInv'
  BY CleanKept
<1> QED
  BY <1>1, <1>2, <1>3, <1>4, <1>5, <1>6, <1>7, <1>8, <1>9

\* It always holds.
LEMMA AlwaysWeb == SessionSpec => []WebInv
  BY InitWeb, NextWeb, PTL DEF SessionSpec

\* Tokens, refreshes and forms keep their types, for any number of tabs, tokens
\* and faults.
THEOREM WebSessionsAreTyped == SessionSpec => []SessionTypeOK
<1>1. WebInv => SessionTypeOK
  BY DEF WebInv
<1> QED
  BY <1>1, AlwaysWeb, PTL

\* A family is ended for reuse only after one of its rotations was lost on the
\* way back or it was signed out: tabs that refresh under the Web Lock never
\* replay a token that another tab has just used.
THEOREM OnlyTheLostAreReplayed == SessionSpec => []NoReplayWithoutLoss
<1>1. WebInv => NoReplayWithoutLoss
  BY DEF WebInv, ReplayInv, ReplayOK, NoReplayWithoutLoss
<1> QED
  BY <1>1, AlwaysWeb, PTL

\* The cookie of a session that was signed out opens nothing, unless a refresh
\* was under way at the time: neither the API's revocation nor the deletion of
\* the cookie leaves a live token behind.
THEOREM SignOutHolds == SessionSpec => []SignedOutStaysOut
<1>1. WebInv => SignedOutStaysOut
  BY DEF WebInv, OutInv
<1> QED
  BY <1>1, AlwaysWeb, PTL

\* While nothing of a session was lost, crossed or signed out, its one live token
\* is the cookie's whenever nothing of it is in progress.
THEOREM TheNextRefreshSucceeds == SessionSpec => []CookieIsTheLiveToken
<1>1. WebInv => CookieIsTheLiveToken
  <2> SUFFICES ASSUME WebInv, NEW k \in 1..minted, family[k] \notin lost \cup crossed \cup left,
                      ~InProgress(family[k])
               PROVE  cookie # 0 /\ {j \in live : family[j] = family[k]} = {cookie}
    BY DEF CookieIsTheLiveToken
  <2> DEFINE f == family[k]
  <2>1. f \in Made /\ family[f] = f
    BY DEF WebInv, TokenInv, Made
  <2>2. \A t \in Tabs : form[t].token # f
    BY DEF InProgress
  <2>3. Rests(f)
    BY <2>1, <2>2 DEF WebInv, CleanInv
  <2>4. NobodyInFlight
    <3>1. ASSUME NEW t \in Tabs, IsInFlight(t)
          PROVE  FALSE
      <4>1. job[t].old = cookie /\ cookie # 0 /\ family[cookie] = f
        BY <2>3, <3>1 DEF Rests, OwnRefresh
      <4>2. t \in InFlight
        BY <3>1, Names DEF InFlight, IsInFlight
      <4> QED
        BY <4>1, <4>2 DEF InProgress
    <3> QED
      BY <3>1 DEF NobodyInFlight
  <2> QED
    BY <2>3, <2>4 DEF Rests, LiveOf
<1> QED
  BY <1>1, AlwaysWeb, PTL
=============================================================================

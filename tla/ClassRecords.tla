---------------------------- MODULE ClassRecords ----------------------------
(* The records of a class and who may write them: batches and the students   *)
(* enrolled in them (modules/batches), one test of the batch TestBatch with  *)
(* its marks (modules/tests), and a teacher whose requests pass the cached   *)
(* access of permission-resolver.service.ts and the guard of                 *)
(* require-batch-access.decorator.ts while the owner assigns, removes and    *)
(* deactivates that teacher.  A request is a process whose database          *)
(* statements interleave with those of the others; what a handler read       *)
(* before is kept in held.  Transactions are READ COMMITTED with row locks.  *)
EXTENDS Integers, Sequences, FiniteSets

CONSTANTS Requests,    \* requests, each handled once
          Operations,  \* what the owner and the teacher may ask for
          Batches, Students,
          TestBatch,   \* the batch of the test (tests.batch_id never changes)
          Totals       \* total and passing marks in use

ASSUME TestBatchAssumption == TestBatch \in Batches
ASSUME TotalsAssumption == Totals \subseteq Nat \ {0}
RosterKinds == {"enroll", "withdraw", "transfer", "deleteBatch"}
TestKinds == {"create", "update", "upload", "deleteTest"}
(* What the request schemas and the first check of transferStudent let by.   *)
ASSUME OperationsAssumption ==
  \A o \in Operations :
    /\ o.by \in {"owner", "teacher"}
    /\ o.kind \in RosterKinds \cup TestKinds \cup {"assign", "remove", "setActive"}
    /\ o.kind \in {"enroll", "withdraw", "transfer"} =>
         o.student \in Students /\ o.batch \in Batches
    /\ o.kind = "transfer" => o.to \in Batches \ {o.batch}
    /\ o.kind \in {"deleteBatch", "assign", "remove"} => o.batch \in Batches
    /\ o.kind = "setActive" => o.on \in BOOLEAN
    /\ o.kind = "create" => o.total \in Totals /\ o.pass \in Totals \cup {0}
    /\ o.kind = "update" => /\ DOMAIN o.change \subseteq {"total", "pass"}
                            /\ \A f \in DOMAIN o.change : o.change[f] \in Totals \cup {0}
                            /\ "total" \in DOMAIN o.change => o.change["total"] \in Totals
    /\ o.kind = "upload" => o.student \in Students /\ o.mark \in Nat

VARIABLES liveBatches,   \* batches whose deletedAt is null
          rows,          \* batch_students: per student and batch, TRUE while leftAt is null
          test,          \* row of tests: deleted or not, total_marks, passing_marks (0: null)
          marks,         \* test_results: marks per student who has a result
          teacherActive, \* teachers.is_active
          teaches,       \* teacher_batches of the teacher
          cached,        \* access of the teacher in Redis
          pc, op,        \* per request: the next statement and the operation
          held,          \* per request: the rows it read, by position (0: none), and the role it saw
          entitled,      \* history: the teacher was active and assigned to TestBatch at some
                         \* moment since the request began
          clashed        \* history: groups of records on which two requests were under way at once

records == <<liveBatches, rows, test, marks>>
access == <<teacherActive, teaches, cached>>
handlers == <<pc, op, held>>
vars == <<records, access, handlers, entitled, clashed>>

NoTest == [state |-> "absent", total |-> 0, pass |-> 0]
Nothing == [row |-> 0, to |-> 0, role |-> FALSE]
Found(i, j) == [row |-> i, to |-> j, role |-> FALSE]
Role(x) == [row |-> 0, to |-> 0, role |-> x]
NoOp == [kind |-> "none", by |-> "nobody"]
Group(o) == IF o.kind \in RosterKinds THEN "roster"
            ELSE IF o.kind \in TestKinds THEN "test" ELSE "staff"

Places == {"idle", "lookup", "load", "fill", "guard", "find", "findRow", "findTarget",
           "leave", "leaving", "arriving", "arrive", "write", "invalidate", "done"}
Underway(r) == pc[r] \notin {"idle", "done"}
Does(r, kind, where) == pc[r] = where /\ op[r].kind = kind

(* On to the next statement, with what the request has read by then; a       *)
(* request that was answered holds nothing.                                  *)
GoWith(r, where, h) ==
  /\ pc' = [pc EXCEPT ![r] = where]
  /\ op' = IF where = "done" THEN [op EXCEPT ![r] = NoOp] ELSE op
  /\ held' = [held EXCEPT ![r] = IF where = "done" THEN Nothing ELSE h]
Go(r, where) == GoWith(r, where, held[r])

(* Students may be enrolled from earlier on, once in a batch.                *)
Init == /\ liveBatches = Batches
        /\ rows \in [Students -> [Batches -> {<<>>, <<TRUE>>}]]
        /\ test = NoTest
        /\ marks = [s \in {} |-> 0]
        /\ teacherActive = TRUE /\ teaches \in SUBSET {TestBatch} /\ cached = "none"
        /\ pc = [r \in Requests |-> "idle"]
        /\ op = [r \in Requests |-> NoOp]
        /\ held = [r \in Requests |-> Nothing]
        /\ entitled = [r \in Requests |-> FALSE]
        /\ clashed = {}

(* Whether the teacher may write now counts for every request under way.     *)
Witness == entitled' = [r \in Requests |->
                          entitled[r] \/ (pc'[r] # "idle" /\ teacherActive' /\ TestBatch \in teaches')]
Rest(v) == UNCHANGED <<v, clashed>> /\ Witness

(* A request arrives.  The id of a test is known only once it was created.   *)
Begin(r, o) ==
  /\ pc[r] = "idle"
  /\ o.kind \in TestKinds \ {"create"} => test.state # "absent"
  /\ o.kind = "create" => test.state = "absent"
  /\ op' = [op EXCEPT ![r] = o]
  /\ pc' = [pc EXCEPT ![r] = IF o.by = "teacher" THEN "lookup" ELSE "find"]
  /\ clashed' = clashed \cup {Group(op[q]) : q \in {p \in Requests :
                                 Underway(p) /\ Group(op[p]) = Group(o)}}
  /\ UNCHANGED <<records, access, held>> /\ Witness

----------------------------------------------------------------------------
(* authenticateMiddleware, requirePermission and requireBatchAccess.         *)

(* readCache: a miss, and a Redis that cannot be asked, lead to the database.*)
ReadCache(r) ==
  /\ pc[r] = "lookup"
  /\ \/ Go(r, "load")
     \/ cached = "teacher" /\ Go(r, "guard")
     \/ cached = "nobody" /\ Go(r, "done")     \* 403: permission missing
  /\ Rest(<<records, access>>)

(* loadFromDatabase: a deactivated teacher loses the teaching role.          *)
LoadAccess(r) ==
  /\ pc[r] = "load"
  /\ GoWith(r, "fill", Role(teacherActive))
  /\ Rest(<<records, access>>)

(* writeCache, by then perhaps of an access that was taken away; the write   *)
(* may fail.  Then requirePermission.                                        *)
FillCache(r) ==
  /\ pc[r] = "fill"
  /\ cached' \in {cached, IF held[r].role THEN "teacher" ELSE "nobody"}
  /\ GoWith(r, IF held[r].role THEN "guard" ELSE "done", Nothing)
  /\ Rest(<<records, teacherActive, teaches>>)

AssignedInactive == TestBatch \in teaches
Assigned == teacherActive /\ TestBatch \in teaches

(* requireBatchAccess reads the teacher again; the handler answers 404 to a  *)
(* test that is deleted.                                                     *)
Guard(r) ==
  /\ pc[r] = "guard"
  /\ Go(r, IF Assigned THEN "find" ELSE "done")
  /\ Rest(<<records, access>>)

(* The entry lives for 60 seconds.                                           *)
CacheExpires == /\ cached # "none" /\ cached' = "none"
                /\ Rest(<<records, teacherActive, teaches, handlers>>)

----------------------------------------------------------------------------
(* What the owner does to the teacher.                                       *)

AssignTeacher(r) ==
  /\ Does(r, "assign", "write") /\ Go(r, "done")
  /\ teaches' = teaches \cup {op[r].batch}
  /\ Rest(<<records, teacherActive, cached>>)

RemoveTeacher(r) ==
  /\ Does(r, "remove", "find") /\ Go(r, "done")
  /\ teaches' = teaches \ {op[r].batch}
  /\ Rest(<<records, teacherActive, cached>>)

(* updateTeacher writes is_active and then drops the cached access, if Redis *)
(* can be reached.                                                           *)
SetActive(r) ==
  /\ Does(r, "setActive", "find") /\ Go(r, "invalidate")
  /\ teacherActive' = op[r].on
  /\ Rest(<<records, teaches, cached>>)

Invalidate(r) ==
  /\ pc[r] = "invalidate" /\ Go(r, "done")
  /\ cached' \in {cached, "none"}
  /\ Rest(<<records, teacherActive, teaches>>)

----------------------------------------------------------------------------
(* Enrolments.                                                               *)

Enrolled(s, b) == \E i \in DOMAIN rows[s][b] : rows[s][b][i]
RowOf(s, b) == DOMAIN rows[s][b]
ActiveRow(s, b) == {i \in RowOf(s, b) : rows[s][b][i]}
Seen(found) == IF found = {} THEN {0} ELSE found     \* findFirst without orderBy
Put(s, b, i) == IF i = 0 THEN Append(rows[s][b], TRUE) ELSE [rows[s][b] EXCEPT ![i] = TRUE]

(* The row a transfer under way has updated and not yet committed.           *)
Locked(r, s, b, i) ==
  i # 0 /\ \E q \in Requests \ {r} :
    /\ pc[q] \in {"arriving", "arrive"} /\ op[q].kind = "transfer"
    /\ op[q].student = s /\ op[q].batch = b /\ held[q].row = i

AfterBatch == [enroll |-> "findRow", transfer |-> "findTarget", assign |-> "write"]

(* enrollStudent: the batch, then any row of the student in it, then that    *)
(* row is opened again or a new one is created.                              *)
FindBatch(r) ==
  /\ pc[r] = "find" /\ op[r].kind \in {"enroll", "transfer", "assign"}
  /\ Go(r, IF op[r].batch \notin liveBatches THEN "done" ELSE AfterBatch[op[r].kind])
  /\ Rest(<<records, access>>)

OwnRowsNever(r) == {}
OwnRows(r) == RowOf(op[r].student, op[r].batch)

FindRow(r) ==
  /\ Does(r, "enroll", "findRow")
  /\ \E i \in Seen(OwnRows(r)) : GoWith(r, "write", Found(i, 0))
  /\ Rest(<<records, access>>)

Enroll(r) ==
  LET s == op[r].student  b == op[r].batch  i == held[r].row
  IN /\ Does(r, "enroll", "write") /\ Go(r, "done")
     /\ ~Locked(r, s, b, i)
     /\ rows' = [rows EXCEPT ![s][b] = Put(s, b, i)]
     /\ Rest(<<liveBatches, test, marks, access>>)

(* withdrawStudent: one updateMany over the open rows.                       *)
Withdraw(r) ==
  LET s == op[r].student  b == op[r].batch
  IN /\ Does(r, "withdraw", "find") /\ Go(r, "done")
     /\ \A i \in ActiveRow(s, b) : ~Locked(r, s, b, i)
     /\ rows' = [rows EXCEPT ![s][b] = [i \in DOMAIN @ |-> FALSE]]
     /\ Rest(<<liveBatches, test, marks, access>>)

(* transferStudent: both batches, then a transaction that closes one open    *)
(* row of the source and opens or creates one in the target.                 *)
FindTarget(r) ==
  /\ Does(r, "transfer", "findTarget")
  /\ Go(r, IF op[r].to \in liveBatches THEN "leave" ELSE "done")
  /\ Rest(<<records, access>>)

FindOpenRow(r) ==
  /\ Does(r, "transfer", "leave")
  /\ \E i \in Seen(ActiveRow(op[r].student, op[r].batch)) :
        GoWith(r, "leaving", Found(i, 0))
  /\ Rest(<<records, access>>)

Leave(r) ==
  /\ Does(r, "transfer", "leaving") /\ Go(r, "arriving")
  /\ ~Locked(r, op[r].student, op[r].batch, held[r].row)
  /\ Rest(<<records, access>>)

FindTargetRow(r) ==
  /\ Does(r, "transfer", "arriving")
  /\ \E i \in Seen(RowOf(op[r].student, op[r].to)) :
        GoWith(r, "arrive", Found(held[r].row, i))
  /\ Rest(<<records, access>>)

Closed(s, b, i) == IF i = 0 THEN rows[s][b] ELSE [rows[s][b] EXCEPT ![i] = FALSE]

Arrive(r) ==
  LET s == op[r].student  o == op[r]  h == held[r]
  IN /\ Does(r, "transfer", "arrive") /\ Go(r, "done")
     /\ h.to = 0 \/ ~Locked(r, s, o.to, h.to)
     /\ rows' = [rows EXCEPT ![s][o.batch] = Closed(s, o.batch, h.row),
                             ![s][o.to] = Put(s, o.to, h.to)]
     /\ Rest(<<liveBatches, test, marks, access>>)

(* Two transfers of one student in opposite directions wait for each other   *)
(* and PostgreSQL aborts one.                                                *)
Deadlocked(r) ==
  /\ Does(r, "transfer", "arrive") /\ Go(r, "done")
  /\ \E q \in Requests \ {r} :
       /\ Does(q, "transfer", "arrive") /\ op[q].student = op[r].student
       /\ op[q].batch = op[r].to /\ op[r].batch = op[q].to
       /\ held[r].to # 0 /\ held[q].row = held[r].to
       /\ held[q].to # 0 /\ held[r].row = held[q].to
  /\ Rest(<<records, access>>)

OccupiedNever(b) == FALSE
Occupied(b) == \E s \in Students : Enrolled(s, b)

(* deleteBatch: refused while a student is enrolled.                         *)
FindEmpty(r) ==
  /\ Does(r, "deleteBatch", "find")
  /\ Go(r, IF op[r].batch \in liveBatches /\ ~Occupied(op[r].batch) THEN "write" ELSE "done")
  /\ Rest(<<records, access>>)

DeleteBatch(r) ==
  /\ Does(r, "deleteBatch", "write") /\ Go(r, "done")
  /\ liveBatches' = liveBatches \ {op[r].batch}
  /\ Rest(<<rows, test, marks, access>>)

----------------------------------------------------------------------------
(* The test and its marks.                                                   *)

CreateTest(r) ==
  /\ Does(r, "create", "find") /\ Go(r, "done")
  /\ test' = IF test.state = "absent" /\ op[r].pass <= op[r].total
             THEN [state |-> "live", total |-> op[r].total, pass |-> op[r].pass] ELSE test
  /\ Rest(<<liveBatches, rows, marks, access>>)

(* updateTest: the fields sent replace the saved ones, if the outcome fits   *)
(* the marks already given.                                                  *)
Changed(change) == [f \in DOMAIN test |-> IF f \in DOMAIN change THEN change[f] ELSE test[f]]
AcceptablePass(t) == t.pass <= t.total
Acceptable(t) == t.pass <= t.total /\ \A s \in DOMAIN marks : marks[s] <= t.total

FindTest(r) ==
  /\ pc[r] = "find" /\ op[r].kind \in {"update", "upload", "deleteTest"}
  /\ Go(r, IF /\ test.state = "live"
              /\ op[r].kind = "update" => Acceptable(Changed(op[r].change))
              /\ op[r].kind = "upload" => op[r].mark <= test.total
           THEN "write" ELSE "done")
  /\ Rest(<<records, access>>)

UpdateTest(r) ==
  /\ Does(r, "update", "write") /\ Go(r, "done")
  /\ test' = IF test.state = "live" THEN Changed(op[r].change) ELSE test
  /\ Rest(<<liveBatches, rows, marks, access>>)

(* upsertMarks does not look at the test row, deleted or not.                *)
UploadMarks(r) ==
  /\ Does(r, "upload", "write") /\ Go(r, "done")
  /\ marks' = [s \in DOMAIN marks \cup {op[r].student} |->
                 IF s = op[r].student THEN op[r].mark ELSE marks[s]]
  /\ Rest(<<liveBatches, rows, test, access>>)

DeleteTest(r) ==
  /\ Does(r, "deleteTest", "write") /\ Go(r, "done")
  /\ test' = [test EXCEPT !.state = "deleted"]
  /\ Rest(<<liveBatches, rows, marks, access>>)

----------------------------------------------------------------------------
Admit(r) == ReadCache(r) \/ LoadAccess(r) \/ FillCache(r) \/ Guard(r)
Staff(r) == AssignTeacher(r) \/ RemoveTeacher(r) \/ SetActive(r) \/ Invalidate(r)
Transfer(r) == \/ FindTarget(r) \/ FindOpenRow(r) \/ Leave(r) \/ FindTargetRow(r)
               \/ Arrive(r) \/ Deadlocked(r)
Roster(r) == \/ FindBatch(r) \/ FindRow(r) \/ Enroll(r) \/ Withdraw(r) \/ Transfer(r)
             \/ FindEmpty(r) \/ DeleteBatch(r)
Testing(r) == CreateTest(r) \/ FindTest(r) \/ UpdateTest(r) \/ UploadMarks(r) \/ DeleteTest(r)
Handle(r) == Admit(r) \/ Staff(r) \/ Roster(r) \/ Testing(r)

Next == \/ \E r \in Requests, o \in Operations : Begin(r, o)
        \/ \E r \in Requests : Handle(r)
        \/ CacheExpires

Spec == Init /\ [][Next]_vars

----------------------------------------------------------------------------
(* The types of rows, access and requests.                                   *)
TypeOK ==
  /\ liveBatches \subseteq Batches
  /\ rows \in [Students -> [Batches -> Seq(BOOLEAN)]]
  /\ test \in [state : {"absent", "live", "deleted"}, total : Nat, pass : Nat]
  /\ DOMAIN marks \subseteq Students /\ marks \in [DOMAIN marks -> Nat]
  /\ teacherActive \in BOOLEAN /\ teaches \subseteq Batches
  /\ cached \in {"none", "teacher", "nobody"}
  /\ pc \in [Requests -> Places] /\ op \in [Requests -> Operations \cup {NoOp}]
  /\ held \in [Requests -> [row : Nat, to : Nat, role : BOOLEAN]]
  /\ entitled \in [Requests -> BOOLEAN]
  /\ clashed \subseteq {"roster", "test", "staff"}

(* A teacher changes a test or its marks only in a request during which      *)
(* there was a moment when the teacher was active and assigned to the batch: *)
(* a request sent after a removal or deactivation changes nothing, although  *)
(* the access Redis holds may be one that was filled from an older read or   *)
(* that an invalidation failed to drop (auth.middleware.ts:34,               *)
(* require-batch-access.decorator.ts:50).                                    *)
TeachersStayInTheirBatches ==
  [][\A r \in Requests : /\ op[r].by = "teacher" /\ pc'[r] # pc[r]
                         /\ <<test, marks>>' # <<test, marks>>
                         => entitled[r]]_vars

(* Unless two requests on the roster were under way at once, no student is   *)
(* left enrolled in a deleted batch (batch.service.ts:84).                   *)
DeletedBatchIsEmpty ==
  "roster" \notin clashed => \A b \in Batches \ liveBatches, s \in Students : ~Enrolled(s, b)

(* Unless requests on the roster overlapped, a transfer that commits takes   *)
(* the student out of the source batch, however often the student was        *)
(* enrolled, withdrawn and moved there before: one closed row is enough      *)
(* only if no second one is open (batch.repository.ts:230).                  *)
TransferMoves ==
  [][\A r \in Requests : Does(r, "transfer", "arrive") /\ rows' # rows /\ pc'[r] = "done"
        => \/ "roster" \in clashed
           \/ \A i \in DOMAIN rows'[op[r].student][op[r].batch] :
                 ~rows'[op[r].student][op[r].batch][i]]_vars

(* Unless two requests on the test were under way at once, no mark and no    *)
(* pass mark is above the total, also after the total was lowered            *)
(* (test.service.ts:175).                                                    *)
MarksFitTheTest ==
  test.state = "live" /\ "test" \notin clashed =>
    test.pass <= test.total /\ \A s \in DOMAIN marks : marks[s] <= test.total
=============================================================================

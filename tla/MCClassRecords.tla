--------------------------- MODULE MCClassRecords ---------------------------
(* The owner moves one student between two batches, assigns, removes and     *)
(* deactivates the teacher, and both of them keep the test: three requests   *)
(* of any kind, one after another or at once.                                *)
EXTENDS ClassRecords, TLC

CONSTANTS r1, r2, r3, b1, b2, s1

MCRequests == {r1, r2, r3}
MCBatches == {b1, b2}
Alike == Permutations(MCRequests)

Owner == {"owner"}
MCOperations ==
  [by : Owner, kind : {"enroll", "withdraw"}, student : {s1}, batch : MCBatches]
  \cup [by : Owner, kind : {"transfer"}, student : {s1}, batch : {b1}, to : {b2}]
  \cup [by : Owner, kind : {"transfer"}, student : {s1}, batch : {b2}, to : {b1}]
  \cup [by : Owner, kind : {"deleteBatch"}, batch : MCBatches]
  \cup [by : Owner, kind : {"setActive"}, on : BOOLEAN]
  \cup [by : Owner, kind : {"assign", "remove"}, batch : {b1}]
  \cup [by : {"owner", "teacher"}, kind : {"create"}, total : {1, 2}, pass : {0, 2}]
  \cup [by : {"owner", "teacher"}, kind : {"update"},
        change : [{"total"} -> {1}] \cup [{"pass"} -> {0, 2}]]
  \cup [by : {"owner", "teacher"}, kind : {"upload"}, student : {s1}, mark : {1, 2}]
  \cup [by : {"owner", "teacher"}, kind : {"deleteTest"}]
=============================================================================

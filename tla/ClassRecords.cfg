SPECIFICATION Spec
CONSTANTS
  r1 = r1
  r2 = r2
  r3 = r3
  b1 = b1
  b2 = b2
  s1 = s1
  Requests <- MCRequests
  Operations <- MCOperations
  Batches <- MCBatches
  Students = {s1}
  TestBatch = b1
  Totals = {1, 2}
INVARIANTS
  DeletedBatchIsEmpty
  MarksFitTheTest
PROPERTIES
  TeachersStayInTheirBatches
  TransferMoves
SYMMETRY Alike
CHECK_DEADLOCK FALSE

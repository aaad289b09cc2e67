SPECIFICATION TenancySpec
CONSTANTS
  a = a
  b = b
  r1 = r1
  r2 = r2
  t1 = t1
  t2 = t2
  k1 = k1
  k2 = k2
  k3 = k3
  System = System
  None = None
  Coachings <- MCCoachings
  Rows <- MCRows
  Tasks <- MCTasks
  Conns <- MCConns
SYMMETRY Alike
INVARIANTS
  ReadsStayHome
PROPERTIES
  WritesStayHome
  

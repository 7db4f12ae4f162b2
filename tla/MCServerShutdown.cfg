SPECIFICATION Spec
CONSTANTS
  NoId = NoId
  Workers = {w1, w2}
  Requests = {r1, r2}
  Ids = {i1}
  Capacity = 1
  Allocations = 2
CHECK_DEADLOCK FALSE
INVARIANTS
  TypeOK
  NoOverlap
  ClosedIsQuiet
  BudgetBalanced
  ClosedServerIsAtRest
PROPERTIES
  NoLateAdmission
  CloseSettles
  SweptForever

CONSTANTS
  t1 = t1
  t2 = t2
  t3 = t3
  a1 = a1
  a2 = a2
  Txns <- ThreeTxns
  Actors <- TwoActors
  Partitions = 2
  StreamOf <- OnePerStream
SPECIFICATION AuditSpec
SYMMETRY Interchangeable
INVARIANTS
  NoFalseAlarm
  VouchedIsIntact
  SlicesAgree
CHECK_DEADLOCK FALSE

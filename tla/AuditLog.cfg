CONSTANTS
  t1 = t1
  t2 = t2
  t3 = t3
  a1 = a1
  a2 = a2
  Txns <- Txns3
  Actors <- TwoActors
  Partitions = 2
  StreamOf <- OnePerStream
SPECIFICATION FairSpec
INVARIANTS
  EveryStreamVerifies
  CheckpointsHold
PROPERTIES
  ImplementsLedger
  EveryTransactionEnds
CHECK_DEADLOCK FALSE

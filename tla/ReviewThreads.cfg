SPECIFICATION Spec
CONSTANTS
  r1 = r1
  r2 = r2
  r3 = r3
  op1 = op1
  op2 = op2
  t1 = t1
  t2 = t2
  Threads = {t1, t2}
  Operations = {op1, op2}
  RespondCalls = {r1, r2, r3}
  ResolveCalls = {s1}
  OperationOf <- MCOperationOf
  Batch <- MCBatch
  MaxMoves = 1
SYMMETRY Symmetry
INVARIANTS TypeOK RetryPostsOnce AttemptsAgree
PROPERTY ReceiptsTrue
CHECK_DEADLOCK FALSE

SPECIFICATION Spec
CONSTANTS
  c1 = c1
  c2 = c2
  c3 = c3
  p1 = p1
  p2 = p2
  op1 = op1
  op2 = op2
  wanted = wanted
  unwanted = unwanted
  NoHead = NoHead
  CommitCalls = {c1, c2, c3}
  PushCalls = {p1, p2}
  Operations = {op1, op2}
  Trees = {wanted, unwanted}
  MaxMoves = 1
  ApprovedTree = wanted
  OperationOf <- MCOperationOf
  OtherCommits <- MCOtherCommits
SYMMETRY Symmetry
INVARIANTS TypeOK AnswersTrue OneWinner ConflictMeansOvertaken UndisturbedPushSucceeds
PROPERTY OthersWorkKept
CHECK_DEADLOCK FALSE

SPECIFICATION Spec
CONSTANTS
  c1 = c1
  c2 = c2
  c3 = c3
  p1 = p1
  p2 = p2
  op1 = op1
  op2 = op2
  wanted = wanted
  unwanted = unwanted
  NoHead = NoHead
  CommitCalls = {c1}
  PushCalls = {p1}
  Operations = {op1, op2}
  Trees = {wanted, unwanted}
  MaxMoves = 2
  ApprovedTree = wanted
  OperationOf <- MCOneOperation
  OtherCommits <- MCOtherCommits
PROPERTY ExactRemoteLease
CHECK_DEADLOCK FALSE

SPECIFICATION Spec
CONSTANTS
  pinned = pinned
  edited = edited
  NoHead = NoHead
  Operations = {}
  Trees = {pinned, edited}
  MaxMoves = 1
  StatusCalls = {s1}
  PinnedTree = pinned
  PinnedBase <- MCBase
  OtherCommits <- MCOtherCommits
INVARIANT StatusIsOneCapture
CHECK_DEADLOCK FALSE

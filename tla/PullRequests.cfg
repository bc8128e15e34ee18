SPECIFICATION Spec
CONSTANTS
  u1 = u1
  u2 = u2
  m1 = m1
  m2 = m2
  op1 = op1
  op2 = op2
  approved = approved
  edited = edited
  t1 = t1
  t2 = t2
  NoSha = NoSha
  NoMarker = NoMarker
  Shas = {sha1, sha2}
  Pinned = sha1
  Texts = {approved, edited}
  Approved = approved
  Operations = {op1, op2}
  UpsertCalls = {u1, u2}
  UpsertOf <- MCUpsertOf
  Revisions <- MCRevisions
  ReadyCalls = {r1}
  MergeCalls = {m1, m2}
  NamesIssue = {m1, m2}
  ReadinessCalls = {q1}
  Threads = {t1}
  LocaleOrder <- MCOneThread
  CodeUnitOrder <- MCOneThread
  MaxPulls = 2
  MaxMoves = 1
SYMMETRY Symmetry
INVARIANTS TypeOK UndisturbedUpsertsAgree MergeRetryAdopts CleanReadingAuthorizes
PROPERTIES MergedOnlyAsApproved MergedAsDecided AnswersTrue
CHECK_DEADLOCK FALSE

SPECIFICATION Spec
CONSTANTS
  u1 = u1
  u2 = u2
  m1 = m1
  m2 = m2
  op1 = op1
  op2 = op2
  approved = approved
  edited = edited
  t1 = t1
  t2 = t2
  NoSha = NoSha
  NoMarker = NoMarker
  Shas = {sha1, sha2}
  Pinned = sha1
  Texts = {approved, edited}
  Approved = approved
  Operations = {op1, op2}
  UpsertCalls = {u1}
  UpsertOf <- MCOneUpsert
  Revisions <- MCOneRevision
  ReadyCalls = {r1}
  MergeCalls = {m1}
  NamesIssue = {m1}
  ReadinessCalls = {q1}
  Threads = {t1, t2}
  LocaleOrder <- MCLowerCaseFirst
  CodeUnitOrder <- MCUpperCaseFirst
  MaxPulls = 1
  MaxMoves = 2
INVARIANT ExactOverrideAuthorizes
CHECK_DEADLOCK FALSE

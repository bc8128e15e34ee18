SPECIFICATION InOrderSpec
CONSTANTS
  c1 = c1
  c2 = c2
  c3 = c3
  k1 = k1
  k2 = k2
  k3 = k3
  Keys = {k1, k2, k3}
  Calls = {c1, c2, c3}
  NoCall = NoCall
  OpenLimit = 2
  TerminalLimit = 1
INVARIANTS TypeOK OneRunPerIdentity OpenRunsBounded RetentionConsistent AnswersProven
PROPERTIES LedgerPromise AcceptedCallsAnswered LateSettlementReconciled

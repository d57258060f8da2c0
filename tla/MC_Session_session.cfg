CONSTANTS
  Accounts = {a, b}
  None = None
  MaxSignIns = 1
  MaxLogouts = 1
SPECIFICATION FairSpec
INVARIANTS TypeOK BearerIsStored SessionAgrees NoFrozenForm
PROPERTIES LoadingEnds SentToLogin

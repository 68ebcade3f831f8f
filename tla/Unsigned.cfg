SPECIFICATION Spec
CONSTANTS
  NWallets = 2
  NServers = 1
  BufSize = 2
  MaxTxs = 1
  InitBalance = 2
  Residue = {0}
  Transfers <- ToOne
  RcpIds = {}
  ForkMayFail = FALSE
  LedgerMayFail = FALSE
INVARIANT OnlyValidSent

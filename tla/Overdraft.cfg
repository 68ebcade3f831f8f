SPECIFICATION Spec
CONSTANTS
  NWallets = 2
  NServers = 1
  BufSize = 2
  MaxTxs = 2
  InitBalance = 2
  Residue = {7}
  Transfers <- AllOfIt
  RcpIds = {}
  ForkMayFail = FALSE
  LedgerMayFail = FALSE
INVARIANT FundsChecked

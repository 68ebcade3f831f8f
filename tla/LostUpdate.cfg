SPECIFICATION Spec
CONSTANTS
  NWallets = 1
  NServers = 2
  BufSize = 2
  MaxTxs = 1
  InitBalance = 2
  Residue = {7}
  Transfers <- ToSelf
  RcpIds = {}
  ForkMayFail = FALSE
  LedgerMayFail = FALSE
INVARIANT BooksBalance

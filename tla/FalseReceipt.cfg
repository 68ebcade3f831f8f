SPECIFICATION Spec
CONSTANTS
  NWallets = 1
  NServers = 1
  BufSize = 2
  MaxTxs = 1
  InitBalance = 2
  Residue = {7}
  Transfers <- ToSelf
  RcpIds = {0}
  ForkMayFail = FALSE
  LedgerMayFail = FALSE
INVARIANT GenuineReceipt

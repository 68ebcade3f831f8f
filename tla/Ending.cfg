SPECIFICATION FairSpec
CONSTANTS
  NWallets = 2
  NServers = 1
  BufSize = 2
  MaxTxs = 1
  InitBalance = 2
  Residue = {0}
  Transfers <- FromZero
  RcpIds <- SomeIds
  ForkMayFail = TRUE
  LedgerMayFail = TRUE
INVARIANT NoChildOutlivesMemory
INVARIANT MoneyConserved
INVARIANT ReceiptsTyped
PROPERTY EndTerminates
PROPERTY SlotsDrain
PROPERTY HeadIsRead
PROPERTY EndApproaches

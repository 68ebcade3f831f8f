SPECIFICATION FairFaultsSpec
CONSTANTS
  NWallets = 1
  NServers = 1
  BufSize = 2
  MaxTxs = 1
  InitBalance = 2
  Residue = {0}
  Transfers <- ToSelf
  RcpIds = {}
  ForkMayFail = FALSE
  LedgerMayFail = FALSE
  MaxFaults = 1
INVARIANT NoChildOutlivesMemory
INVARIANT BooksSurvive
INVARIANT ProcessedWithinSigned
INVARIANT DoneOnceOverRuns
PROPERTY EndsUnlessKilled
PROPERTY EndApproaches
